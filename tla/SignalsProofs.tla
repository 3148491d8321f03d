---------------------------- MODULE SignalsProofs ----------------------------
(***************************************************************************)
(* For any number of signals, any choice of use_alarm and of handlers that *)
(* block: handlers are not re-entrant, no signal is forgotten, and the last*)
(* use_alarm signal of the scan never loses its wake-up.                   *)
(***************************************************************************)
EXTENDS Signals, SequenceTheorems, TLAPS

\* The steps are about sets and functions, save where arithmetic is named SMT.
USE ZenonT(60)

\* Every activation but the last one waits inside a handler that blocks, and
\* so does the last one while a call is in progress.
StackInv ==
  /\ \A k \in 1 .. Len(stack) :
       /\ stack[k].phase # "test" => stack[k].i \in 0 .. N
       /\ stack[k].phase \in {"disarm", "clear"} => stack[k].i \in Sig
       /\ k # Len(stack) \/ at # "busy"
          => stack[k].phase = "left" /\ stack[k].i \in Blocks

\* A pending last signal without an alarm is still ahead of some scan.
Ahead(i) ==
  \E k \in 1 .. Len(stack) :
    \/ stack[k].i < i
    \/ stack[k].i = i /\ stack[k].phase \in {"test", "disarm", "clear"}

WakeInv == \A i \in Sig : IsLast(i) /\ pending[i] /\ ~alarm => Ahead(i)

IInv == TypeOK /\ StackInv /\ NotReentrant /\ WakeInv /\ NotForgotten

\* What the operations on the stack do, stated for any sequence of frames.
LEMMA SeqFacts ==
  ASSUME NEW s \in Seq(Frame)
  PROVE  /\ Len(s) \in Nat
         /\ DOMAIN s = 1 .. Len(s)
         /\ \A k \in 1 .. Len(s) : s[k] \in Frame
         /\ s # <<>> => Len(s) \in 1 .. Len(s)
<1>1. s # <<>> => Len(s) \in Nat \ {0}
  BY EmptySeq
<1> QED BY SMT, <1>1, LenProperties, ElementOfSeq

\* Replacing the last element changes it and nothing else.
LEMMA SetTopFacts ==
  ASSUME NEW s \in Seq(Frame), s # <<>>, NEW f \in Frame,
         NEW t, t = [s EXCEPT ![Len(s)] = f]
  PROVE  /\ t \in Seq(Frame)
         /\ Len(t) = Len(s)
         /\ DOMAIN t = 1 .. Len(s)
         /\ t[Len(s)] = f
         /\ \A k \in 1 .. Len(s) : k # Len(s) => t[k] = s[k]
<1>1. Len(s) \in 1 .. Len(s)
  BY SeqFacts
<1>2. /\ t \in Seq(Frame)
      /\ Len(t) = Len(s)
      /\ \A k \in 1 .. Len(s) : t[k] = IF k = Len(s) THEN f ELSE s[k]
  BY SMT, <1>1, ExceptSeq
<1> QED BY <1>1, <1>2, LenProperties

\* Dropping the last element keeps the others.
LEMMA PopFacts ==
  ASSUME NEW s \in Seq(Frame), s # <<>>,
         NEW t, t = SubSeq(s, 1, Len(s) - 1)
  PROVE  /\ t \in Seq(Frame)
         /\ Len(t) = Len(s) - 1
         /\ DOMAIN t = 1 .. Len(s) - 1
         /\ \A k \in 1 .. Len(s) - 1 : t[k] = s[k]
<1>1. Len(s) \in Nat \ {0} /\ \A k \in 1 .. Len(s) - 1 : s[k] \in Frame
  <2>1. Len(s) \in 1 .. Len(s) /\ \A k \in 1 .. Len(s) : s[k] \in Frame
    BY SeqFacts
  <2>2. Len(s) \in Nat
    BY SeqFacts
  <2> QED BY SMT, <2>1, <2>2
<1> DEFINE n == Len(s) - 1
<1>2. /\ t \in Seq(Frame)
      /\ Len(t) = IF 1 <= n THEN n - 1 + 1 ELSE 0
      /\ \A k \in 1 .. n - 1 + 1 : t[k] = s[1 + k - 1]
  <2>1. n \in Int /\ 1 \in Int /\ t = SubSeq(s, 1, n)
    BY SMT, <1>1
  <2>2. \A k \in 1 .. n : s[k] \in Frame
    BY <1>1
  <2> HIDE DEF n
  <2> QED BY SMT, <2>1, <2>2, SubSeqProperties
<1>3. Len(t) = Len(s) - 1
  <2>1. n \in Nat
    BY SMT, <1>1
  <2> HIDE DEF n
  <2>2. Len(t) = n
    BY SMT, <1>2, <2>1
  <2> QED BY <2>2 DEF n
<1> QED BY SMT, <1>1, <1>2, <1>3, LenProperties

\* Appending an element keeps the others.
LEMMA PushFacts ==
  ASSUME NEW s \in Seq(Frame), NEW f \in Frame,
         NEW t, t = Append(s, f)
  PROVE  /\ t \in Seq(Frame)
         /\ Len(t) = Len(s) + 1
         /\ DOMAIN t = 1 .. Len(s) + 1
         /\ t[Len(s) + 1] = f
         /\ \A k \in 1 .. Len(s) : t[k] = s[k]
BY SMT, AppendProperties, LenProperties

\* The initial state satisfies the invariant.
LEMMA InvInit == Init => IInv
<1> SUFFICES ASSUME Init PROVE IInv
  OBVIOUS
<1> USE SignalsAssumption DEF Init
<1>1. TypeOK
  BY SMT DEF TypeOK
<1>2. Len(stack) = 0 /\ DOMAIN stack = {}
  BY SMT
<1>3. StackInv
  BY SMT, <1>2 DEF StackInv
<1>4. NotReentrant
  BY <1>2 DEF NotReentrant
<1>5. WakeInv /\ NotForgotten
  BY DEF WakeInv, NotForgotten
<1> QED BY <1>1, <1>3, <1>4, <1>5 DEF IInv

\* What Len, DOMAIN and the elements of the current stack are.
LEMMA StackFacts ==
  ASSUME TypeOK
  PROVE  /\ Len(stack) \in Nat
         /\ DOMAIN stack = 1 .. Len(stack)
         /\ \A k \in 1 .. Len(stack) :
              stack[k].i \in 0 .. N + 1 /\ stack[k].phase \in Phase
         /\ stack # <<>> => Len(stack) \in 1 .. Len(stack)
<1>1. stack \in Seq(Frame)
  BY DEF TypeOK
<1> QED BY <1>1, SeqFacts DEF Frame

\* Steps that leave the stack alone preserve the invariant.
LEMMA QuietNext ==
  ASSUME IInv,
         \/ \E i \in Sig : Signal(i)
         \/ AlarmFires \/ Call \/ Ready \/ UNCHANGED vars
  PROVE  IInv'
<1> USE SignalsAssumption DEF IInv
<1>0. stack' = stack /\ running' = running
  BY DEF Signal, AlarmFires, Call, Ready, vars
<1>1. TypeOK'
  BY <1>0 DEF TypeOK, Signal, AlarmFires, Call, Ready, vars, Interrupted, Sig
<1>2. StackInv'
  <2>1. at' # "busy" => at # "busy" \/ stack = <<>>
    BY DEF Signal, AlarmFires, Call, Ready, vars, Interrupted
  <2>2. stack = <<>> => Len(stack) = 0
    BY SMT
  <2>3. CASE stack = <<>>
    BY SMT, <1>0, <2>2, <2>3 DEF StackInv
  <2>4. CASE at' # "busy" => at # "busy"
    BY <1>0, <2>4 DEF StackInv
  <2> QED BY <2>1, <2>3, <2>4
<1>3. NotReentrant'
  BY <1>0 DEF NotReentrant, Active
<1>4. \A i \in Sig : /\ pending[i] => pending'[i]
                     /\ i \in due' => i \in due \/ pending'[i]
                     /\ i \in UseAlarm /\ pending'[i] => pending[i] \/ alarm'
                     /\ alarm => alarm'
  BY DEF TypeOK, Signal, AlarmFires, Call, Ready, vars, Sig
<1>5. WakeInv'
  BY <1>0, <1>4 DEF WakeInv, IsLast, Ahead, TypeOK
<1>6. NotForgotten'
  BY <1>0, <1>1, <1>4 DEF NotForgotten, TypeOK
<1> QED BY <1>1, <1>2, <1>3, <1>5, <1>6

\* The same activations are in the same handlers.
LEMMA ActiveKept ==
  ASSUME NotReentrant, running' = running,
         \A k : k \in DOMAIN stack' /\ Active(k)' <=> k \in DOMAIN stack /\ Active(k),
         \A k \in DOMAIN stack : Active(k) => stack'[k].i = stack[k].i
  PROVE  NotReentrant'
<1>1. ASSUME NEW j \in DOMAIN stack', NEW k \in DOMAIN stack', Active(j)', Active(k)', stack'[j].i = stack'[k].i
      PROVE  j = k
  <2>1. j \in DOMAIN stack /\ k \in DOMAIN stack /\ Active(j) /\ Active(k) /\ stack[j].i = stack[k].i
    BY <1>1
  <2> QED BY <2>1 DEF NotReentrant
<1>2. ASSUME NEW i \in 0 .. N
      PROVE  running'[i] <=> \E k \in DOMAIN stack' : Active(k)' /\ stack'[k].i = i
  <2>1. running[i] <=> \E k \in DOMAIN stack : Active(k) /\ stack[k].i = i
    BY DEF NotReentrant
  <2> QED BY <2>1
<1> QED BY <1>1, <1>2 DEF NotReentrant

\* A new activation starts at the head of the scan.
LEMMA CheckNext == ASSUME IInv, Check PROVE IInv'
<1> USE SignalsAssumption DEF IInv
<1>1. PICK n \in {0, 1} : stack' = Append(stack, [i |-> n, phase |-> "test"])
  BY DEF Check
<1>2. [i |-> n, phase |-> "test"] \in Frame
  BY SMT DEF Frame, Phase
<1> DEFINE L == Len(stack)
<1>3. /\ stack' \in Seq(Frame)
      /\ Len(stack') = L + 1
      /\ DOMAIN stack' = 1 .. L + 1
      /\ stack'[L + 1] = [i |-> n, phase |-> "test"]
      /\ \A k \in 1 .. L : stack'[k] = stack[k]
  BY SMT, <1>1, <1>2, PushFacts DEF TypeOK
<1>4. L \in Nat /\ DOMAIN stack = 1 .. L
  BY StackFacts
<1>5. /\ at = "back" /\ at' = "busy"
      /\ pending' = pending /\ running' = running
      /\ alarm' = alarm /\ due' = due
  BY DEF Check
<1> HIDE DEF L
<1>6. TypeOK'
  BY <1>3, <1>5 DEF TypeOK
<1>7. StackInv'
  <2>1. \A k \in 1 .. L : stack[k].phase = "left" /\ stack[k].i \in Blocks
    BY <1>5 DEF StackInv, L
  <2> QED BY SMT, <1>3, <1>4, <1>5, <2>1 DEF StackInv, Sig
<1>8. NotReentrant'
  <2>1. \A k : k \in 1 .. L + 1 <=> k \in 1 .. L \/ k = L + 1
    BY SMT, <1>4
  <2>2. \A k : k \in DOMAIN stack' /\ Active(k)' <=> k \in DOMAIN stack /\ Active(k)
    <3>1. stack'[L + 1].phase = "test" /\ \A k \in 1 .. L : Active(k)' <=> Active(k)
      BY SMT, <1>3 DEF Active
    <3>2. ASSUME NEW k, k = L + 1 PROVE ~Active(k)'
      BY <3>1, <3>2 DEF Active
    <3> QED BY <1>3, <1>4, <2>1, <3>1, <3>2
  <2>3. \A k \in DOMAIN stack : stack'[k].i = stack[k].i
    BY <1>3, <1>4
  <2> QED BY <1>5, <2>2, <2>3, ActiveKept
<1>9. WakeInv'
  BY SMT, <1>3, <1>4, <1>5 DEF WakeInv, Ahead, IsLast, L
<1>10. NotForgotten'
  BY SMT, <1>3, <1>4, <1>5 DEF NotForgotten, TypeOK
<1> QED BY <1>6, <1>7, <1>8, <1>9, <1>10

\* The scan is over.
LEMMA ReturnNext == ASSUME IInv, Return PROVE IInv'
<1> USE SignalsAssumption DEF IInv
<1> DEFINE L == Len(stack)
<1>0. /\ stack # <<>> /\ Top.phase = "test" /\ Top.i > N
      /\ at = "busy" /\ at' = "busy"
      /\ pending' = pending /\ running' = running
      /\ alarm' = alarm /\ due' = due
  BY DEF Return, Scanning
<1>1. /\ stack' \in Seq(Frame)
      /\ Len(stack') = L - 1
      /\ DOMAIN stack' = 1 .. L - 1
      /\ \A k \in 1 .. L - 1 : stack'[k] = stack[k]
  BY <1>0, PopFacts DEF TypeOK, Return, Pop
<1>2. L \in Nat /\ DOMAIN stack = 1 .. L /\ L \in 1 .. L
  BY <1>0, StackFacts
<1>3. stack[L].phase = "test" /\ stack[L].i > N
  BY <1>0 DEF Top
<1> HIDE DEF L
<1>4. TypeOK'
  BY <1>0, <1>1 DEF TypeOK
<1>5. StackInv'
  BY SMTT(30), <1>0, <1>1, <1>2 DEF StackInv, L
<1>6. NotReentrant'
  <2>1. \A k : k \in 1 .. L <=> k \in 1 .. L - 1 \/ k = L
    BY SMT, <1>2
  <2>2. \A k : k \in DOMAIN stack' /\ Active(k)' <=> k \in DOMAIN stack /\ Active(k)
    <3>1. ~Active(L) /\ \A k \in 1 .. L - 1 : Active(k)' <=> Active(k)
      BY <1>1, <1>3 DEF Active
    <3> QED BY <1>1, <1>2, <2>1, <3>1
  <2>3. \A k \in DOMAIN stack : Active(k) => stack'[k].i = stack[k].i
    BY <1>1, <1>2, <1>3, <2>1 DEF Active
  <2> QED BY <1>0, <1>1, <2>2, <2>3, ActiveKept
<1>7. WakeInv'
  <2> SUFFICES ASSUME NEW i \in Sig, IsLast(i), pending[i], ~alarm
               PROVE  Ahead(i)'
    BY <1>0 DEF WakeInv, IsLast
  <2>1. PICK k \in 1 .. L :
          \/ stack[k].i < i
          \/ stack[k].i = i /\ stack[k].phase \in {"test", "disarm", "clear"}
    BY DEF WakeInv, Ahead, L
  <2>2. stack[k].i \in Nat /\ i \in Nat /\ i <= N
    BY SMT, StackFacts DEF L, Sig
  <2>3. k # L
    BY SMT, <1>3, <2>1, <2>2
  <2>4. k \in 1 .. L - 1
    BY SMT, <1>2, <2>3
  <2> QED BY <1>1, <2>1, <2>4 DEF Ahead
<1>8. NotForgotten'
  BY SMTT(30), <1>0, <1>1, <1>2, <1>3 DEF NotForgotten, TypeOK
<1> QED BY <1>4, <1>5, <1>6, <1>7, <1>8

\* The facts common to the steps that change the last activation.
LEMMA TopFacts ==
  ASSUME TypeOK, stack # <<>>
  PROVE  /\ Len(stack) \in Nat
         /\ Len(stack) \in 1 .. Len(stack)
         /\ DOMAIN stack = 1 .. Len(stack)
         /\ Top = stack[Len(stack)]
         /\ Top.i \in 0 .. N + 1
BY StackFacts DEF Top

\* A step that replaces the last activation by another frame.
LEMMA TopStep ==
  ASSUME TypeOK, stack # <<>>, NEW n \in 0 .. N + 1, NEW p \in Phase,
         stack' = SetTop([i |-> n, phase |-> p])
  PROVE  /\ stack' \in Seq(Frame)
         /\ Len(stack') = Len(stack)
         /\ DOMAIN stack' = 1 .. Len(stack)
         /\ stack'[Len(stack)] = [i |-> n, phase |-> p]
         /\ stack'[Len(stack)].i = n
         /\ stack'[Len(stack)].phase = p
         /\ \A k \in 1 .. Len(stack) : k # Len(stack) => stack'[k] = stack[k]
<1>1. stack \in Seq(Frame)
  BY DEF TypeOK
<1>2. [i |-> n, phase |-> p] \in Frame
  BY DEF Frame
<1> QED BY SMT, <1>1, <1>2, SetTopFacts DEF SetTop

\* The handler at hand starts.
LEMMA EnterNext == ASSUME IInv, Enter PROVE IInv'
<1> DEFINE L == Len(stack)
<1>0. TypeOK /\ StackInv /\ NotReentrant /\ WakeInv /\ NotForgotten
  BY DEF IInv
<1>a. stack # <<>> /\ Top.phase = "test" /\ at = "busy"
  BY DEF Enter, Scanning
<1>b. stack' = SetTop([i |-> Top.i, phase |-> IF Top.i = 0 THEN "body" ELSE "disarm"])
  BY DEF Enter
<1>c. pending' = pending /\ alarm' = alarm /\ due' = due /\ at' = at
  BY DEF Enter
<1>d. /\ Wanted(Top.i) /\ Top.i <= N
      /\ running' = [running EXCEPT ![Top.i] = TRUE]
  BY DEF Enter
<1>1. /\ L \in Nat /\ L \in 1 .. L /\ DOMAIN stack = 1 .. L
      /\ Top = stack[L] /\ Top.i \in 0 .. N + 1
  BY <1>0, <1>a, TopFacts
<1>2. Top.i \in 0 .. N
  BY SMT, <1>1, <1>d, SignalsAssumption
<1>3. /\ stack' \in Seq(Frame)
      /\ Len(stack') = L
      /\ DOMAIN stack' = 1 .. L
      /\ stack'[L] = [i |-> Top.i, phase |-> IF Top.i = 0 THEN "body" ELSE "disarm"]
      /\ stack'[L].i = Top.i
      /\ stack'[L].phase = IF Top.i = 0 THEN "body" ELSE "disarm"
      /\ \A k \in 1 .. L : k # L => stack'[k] = stack[k]
  <2>1. Top.i \in 0 .. N + 1 /\ (IF Top.i = 0 THEN "body" ELSE "disarm") \in Phase
    BY SMT, <1>2, SignalsAssumption DEF Phase
  <2> QED BY <1>0, <1>a, <1>b, <2>1, TopStep
<1>4. stack[L].i = Top.i /\ stack[L].phase = "test"
  BY <1>a, <1>1
<1>5. TypeOK'
  BY <1>0, <1>c, <1>d, <1>2, <1>3, SignalsAssumption DEF TypeOK, Sig
<1>6. StackInv'
  <2>1. \A k \in 1 .. L : k # L => stack[k].phase = "left" /\ stack[k].i \in Blocks
    BY <1>0 DEF StackInv
  <2>2. \A k \in 1 .. L : k # L => stack'[k].phase = "left" /\ stack'[k].i \in Blocks
    BY <1>3, <2>1
  <2>3. stack'[L].phase # "test" => stack'[L].i \in 0 .. N
    BY <1>2, <1>3
  <2>4. stack'[L].phase \in {"disarm", "clear"} => stack'[L].i \in Sig
    <3>1. CASE Top.i = 0
      BY <1>3, <3>1
    <3>2. CASE Top.i # 0
      <4>1. Top.i \in Sig
        BY SMT, <1>2, <3>2, SignalsAssumption DEF Sig
      <4> QED BY <1>3, <4>1
    <3> QED BY <3>1, <3>2
  <2>5. at' = "busy" /\ Len(stack') = L
    BY <1>a, <1>c, <1>3
  <2>6. \A k \in 1 .. L : k # L => stack[k].i \in 0 .. N /\ stack'[k] = stack[k]
    BY <1>3, <2>1, SignalsAssumption
  <2> QED BY <2>2, <2>3, <2>4, <2>5, <2>6 DEF StackInv
<1> HIDE DEF L
<1>7. NotReentrant'
  <2>1. ~running[Top.i] /\ \A k \in 1 .. L : Active(k) => stack[k].i # Top.i
    BY <1>0, <1>d, <1>1, <1>2 DEF NotReentrant, Wanted
  <2>2. \A k \in 1 .. L : k # L => (Active(k)' <=> Active(k)) /\ stack'[k].i = stack[k].i
    BY <1>3 DEF Active
  <2>3. ~Active(L) /\ stack'[L].i = Top.i /\ \A k : k = L => Active(k)'
    <3>1. stack'[L].phase # "test"
      BY <1>3
    <3>2. ASSUME NEW k, k = L PROVE Active(k)'
      BY <3>1, <3>2 DEF Active
    <3> QED BY <1>3, <1>4, <3>2 DEF Active
  <2>4. ASSUME NEW j \in 1 .. L, NEW k \in 1 .. L, Active(j)', Active(k)', stack'[j].i = stack'[k].i
        PROVE  j = k
    <3>1. CASE j # L /\ k # L
      BY <1>0, <1>1, <2>2, <2>4, <3>1 DEF NotReentrant
    <3>2. CASE j = L \/ k = L
      BY <2>1, <2>2, <2>3, <2>4, <3>2
    <3> QED BY <3>1, <3>2
  <2>5. ASSUME NEW i \in 0 .. N
        PROVE  running'[i] <=> \E k \in 1 .. L : Active(k)' /\ stack'[k].i = i
    <3>1. running[i] <=> \E k \in 1 .. L : Active(k) /\ stack[k].i = i
      BY <1>0, <1>1 DEF NotReentrant
    <3>2. CASE i = Top.i
      BY <1>0, <1>1, <1>2, <1>d, <2>3, <3>2 DEF TypeOK
    <3>3. CASE i # Top.i
      <4>1. running'[i] = running[i]
        BY <1>0, <1>d, <3>3 DEF TypeOK
      <4> QED BY <2>2, <2>3, <3>1, <3>3, <4>1
    <3> QED BY <3>2, <3>3
  <2> QED BY <1>3, <2>4, <2>5 DEF NotReentrant
<1>8. WakeInv'
  <2> SUFFICES ASSUME NEW i \in Sig, IsLast(i), pending'[i], ~alarm'
               PROVE  Ahead(i)'
    BY DEF WakeInv, IsLast
  <2>1. i \in Nat /\ i <= N /\ i >= 1
    BY SMT, SignalsAssumption DEF Sig
  <2>2. pending[i] /\ ~alarm
    BY <1>0, <1>c, <1>d DEF TypeOK
  <2>3. PICK k \in 1 .. L :
          \/ stack[k].i < i
          \/ stack[k].i = i /\ stack[k].phase \in {"test", "disarm", "clear"}
    BY <1>0, <2>2 DEF WakeInv, Ahead, L
  <2>4. CASE k # L
    BY <1>3, <2>3, <2>4 DEF Ahead
  <2>5. CASE k = L
    BY SMT, <1>1, <1>2, <1>3, <1>4, <2>1, <2>3, <2>5 DEF Ahead
  <2> QED BY <2>4, <2>5
<1>9. NotForgotten'
  BY SMT, <1>0, <1>c, <1>d, <1>1, <1>2, <1>3, <1>4 DEF NotForgotten, TypeOK, Sig
<1> QED BY <1>5, <1>6, <1>7, <1>8, <1>9 DEF IInv

\* The handler at hand is not wanted.
LEMMA SkipNext == ASSUME IInv, Skip PROVE IInv'
<1> DEFINE L == Len(stack)
<1>0. TypeOK /\ StackInv /\ NotReentrant /\ WakeInv /\ NotForgotten
  BY DEF IInv
<1>a. stack # <<>> /\ Top.phase = "test" /\ at = "busy"
  BY DEF Skip, Scanning
<1>b. stack' = SetTop([i |-> Top.i + 1, phase |-> "test"])
  BY DEF Skip
<1>c. pending' = pending /\ running' = running /\ alarm' = alarm
      /\ due' = due /\ at' = at
  BY DEF Skip
<1>d. /\ ~Wanted(Top.i) /\ Top.i <= N
  BY DEF Skip
<1>1. /\ L \in Nat /\ L \in 1 .. L /\ DOMAIN stack = 1 .. L
      /\ Top = stack[L] /\ Top.i \in 0 .. N + 1
  BY <1>0, <1>a, TopFacts
<1>2. Top.i \in 0 .. N
  BY SMT, <1>1, <1>d, SignalsAssumption
<1>3. /\ stack' \in Seq(Frame)
      /\ Len(stack') = L
      /\ DOMAIN stack' = 1 .. L
      /\ stack'[L] = [i |-> Top.i + 1, phase |-> "test"]
      /\ stack'[L].i = Top.i + 1
      /\ stack'[L].phase = "test"
      /\ \A k \in 1 .. L : k # L => stack'[k] = stack[k]
  <2>1. Top.i + 1 \in 0 .. N + 1 /\ ("test") \in Phase
    BY SMT, <1>2, SignalsAssumption DEF Phase
  <2> QED BY <1>0, <1>a, <1>b, <2>1, TopStep
<1>4. stack[L].i = Top.i /\ stack[L].phase = "test"
  BY <1>a, <1>1
<1>5. TypeOK'
  BY <1>0, <1>c, <1>d, <1>2, <1>3, SignalsAssumption DEF TypeOK, Sig
<1>6. StackInv'
  <2>1. \A k \in 1 .. L : k # L => stack[k].phase = "left" /\ stack[k].i \in Blocks
    BY <1>0 DEF StackInv
  <2>2. \A k \in 1 .. L : k # L => stack'[k].phase = "left" /\ stack'[k].i \in Blocks
    BY <1>3, <2>1
  <2> QED
    BY <1>0, <1>a, <1>c, <1>d, <1>1, <1>2, <1>3, <1>4, <2>2, SignalsAssumption
    DEF StackInv, Sig
<1> HIDE DEF L
<1>7. NotReentrant'
  <2>1. \A k \in 1 .. L : Active(k)' <=> Active(k)
    BY <1>3, <1>4 DEF Active
  <2>2. \A k \in 1 .. L : Active(k) => stack'[k].i = stack[k].i
    BY <1>3, <1>4 DEF Active
  <2> QED BY <1>0, <1>c, <1>1, <1>3, <2>1, <2>2, ActiveKept
<1>8. WakeInv'
  <2> SUFFICES ASSUME NEW i \in Sig, IsLast(i), pending'[i], ~alarm'
               PROVE  Ahead(i)'
    BY DEF WakeInv, IsLast
  <2>1. i \in Nat /\ i <= N /\ i >= 1
    BY SMT, SignalsAssumption DEF Sig
  <2>2. pending[i] /\ ~alarm
    BY <1>0, <1>c, <1>d DEF TypeOK
  <2>3. PICK k \in 1 .. L :
          \/ stack[k].i < i
          \/ stack[k].i = i /\ stack[k].phase \in {"test", "disarm", "clear"}
    BY <1>0, <2>2 DEF WakeInv, Ahead, L
  <2>4. CASE k # L
    BY <1>3, <2>3, <2>4 DEF Ahead
  <2>5. CASE k = L
    <3>1. CASE Top.i < i
      BY SMTT(30), <1>1, <1>2, <1>3, <2>1, <3>1, SignalsAssumption DEF Ahead
    <3>2. CASE Top.i = i
      <4>1. running[i]
        BY <1>d, <2>2, <3>2 DEF Wanted
      <4>2. PICK m \in 1 .. L : Active(m) /\ stack[m].i = i
        BY SMT, <1>0, <1>1, <2>1, <4>1 DEF NotReentrant
      <4>3. m # L
        BY <1>4, <4>2 DEF Active
      <4>4. i \in Blocks
        BY <1>0, <4>2, <4>3 DEF StackInv, L
      <4> QED BY <4>4 DEF IsLast
    <3> QED BY <1>4, <2>3, <2>5, <3>1, <3>2
  <2> QED BY <2>4, <2>5
<1>9. NotForgotten'
  BY SMT, <1>0, <1>c, <1>d, <1>1, <1>2, <1>3, <1>4 DEF NotForgotten, TypeOK, Sig
<1> QED BY <1>5, <1>6, <1>7, <1>8, <1>9 DEF IInv

\* The alarm is turned off.
LEMMA DisarmNext == ASSUME IInv, Disarm PROVE IInv'
<1> DEFINE L == Len(stack)
<1>0. TypeOK /\ StackInv /\ NotReentrant /\ WakeInv /\ NotForgotten
  BY DEF IInv
<1>a. stack # <<>> /\ Top.phase = "disarm" /\ at = "busy"
  BY DEF Disarm, Scanning
<1>b. stack' = SetTop([i |-> Top.i, phase |-> "clear"])
  BY DEF Disarm
<1>c. pending' = pending /\ running' = running /\ due' = due /\ at' = at
  BY DEF Disarm
<1>d. /\ alarm' = (alarm /\ Top.i \notin UseAlarm)
  BY DEF Disarm
<1>1. /\ L \in Nat /\ L \in 1 .. L /\ DOMAIN stack = 1 .. L
      /\ Top = stack[L] /\ Top.i \in 0 .. N + 1
  BY <1>0, <1>a, TopFacts
<1>2. Top.i \in 0 .. N
  BY <1>0, <1>a, <1>1 DEF StackInv
<1>3. /\ stack' \in Seq(Frame)
      /\ Len(stack') = L
      /\ DOMAIN stack' = 1 .. L
      /\ stack'[L] = [i |-> Top.i, phase |-> "clear"]
      /\ stack'[L].i = Top.i
      /\ stack'[L].phase = "clear"
      /\ \A k \in 1 .. L : k # L => stack'[k] = stack[k]
  <2>1. Top.i \in 0 .. N + 1 /\ ("clear") \in Phase
    BY SMT, <1>2, SignalsAssumption DEF Phase
  <2> QED BY <1>0, <1>a, <1>b, <2>1, TopStep
<1>4. stack[L].i = Top.i /\ stack[L].phase = "disarm"
  BY <1>a, <1>1
<1>5. TypeOK'
  BY <1>0, <1>c, <1>d, <1>2, <1>3, SignalsAssumption DEF TypeOK, Sig
<1>6. StackInv'
  <2>1. \A k \in 1 .. L : k # L => stack[k].phase = "left" /\ stack[k].i \in Blocks
    BY <1>0 DEF StackInv
  <2>2. \A k \in 1 .. L : k # L => stack'[k].phase = "left" /\ stack'[k].i \in Blocks
    BY <1>3, <2>1
  <2> QED
    BY <1>0, <1>a, <1>c, <1>d, <1>1, <1>2, <1>3, <1>4, <2>2, SignalsAssumption
    DEF StackInv, Sig
<1> HIDE DEF L
<1>7. NotReentrant'
  <2>1. \A k \in 1 .. L : Active(k)' <=> Active(k)
    BY <1>3, <1>4 DEF Active
  <2>2. \A k \in 1 .. L : Active(k) => stack'[k].i = stack[k].i
    BY <1>3, <1>4 DEF Active
  <2> QED BY <1>0, <1>c, <1>1, <1>3, <2>1, <2>2, ActiveKept
<1>8. WakeInv'
  <2> SUFFICES ASSUME NEW i \in Sig, IsLast(i), pending'[i], ~alarm'
               PROVE  Ahead(i)'
    BY DEF WakeInv, IsLast
  <2>1. i \in Nat /\ i <= N /\ i >= 1
    BY SMT, SignalsAssumption DEF Sig
  <2>2. CASE Top.i \in UseAlarm
    <3>1. Top.i <= i
      BY <2>2 DEF IsLast
    <3>2. Top.i < i \/ Top.i = i
      BY SMT, <1>2, <2>1, <3>1
    <3> QED BY <1>1, <1>3, <3>2 DEF Ahead
  <2>3. CASE Top.i \notin UseAlarm
    <3>1. pending[i] /\ ~alarm
      BY <1>c, <1>d, <2>3
    <3>2. PICK k \in 1 .. L :
            \/ stack[k].i < i
            \/ stack[k].i = i /\ stack[k].phase \in {"test", "disarm", "clear"}
      BY <1>0, <3>1 DEF WakeInv, Ahead, L
    <3>3. CASE k # L
      BY <1>3, <3>2, <3>3 DEF Ahead
    <3>4. CASE k = L
      BY <1>1, <1>3, <1>4, <3>2, <3>4 DEF Ahead
    <3> QED BY <3>3, <3>4
  <2> QED BY <2>2, <2>3
<1>9. NotForgotten'
  BY SMT, <1>0, <1>c, <1>d, <1>1, <1>2, <1>3, <1>4 DEF NotForgotten, TypeOK, Sig
<1> QED BY <1>5, <1>6, <1>7, <1>8, <1>9 DEF IInv

\* The pending flag is cleared.
LEMMA ClearNext == ASSUME IInv, Clear PROVE IInv'
<1> DEFINE L == Len(stack)
<1>0. TypeOK /\ StackInv /\ NotReentrant /\ WakeInv /\ NotForgotten
  BY DEF IInv
<1>a. stack # <<>> /\ Top.phase = "clear" /\ at = "busy"
  BY DEF Clear, Scanning
<1>b. stack' = SetTop([i |-> Top.i, phase |-> "body"])
  BY DEF Clear
<1>c. running' = running /\ alarm' = alarm /\ due' = due /\ at' = at
  BY DEF Clear
<1>d. /\ pending' = [pending EXCEPT ![Top.i] = FALSE]
  BY DEF Clear
<1>1. /\ L \in Nat /\ L \in 1 .. L /\ DOMAIN stack = 1 .. L
      /\ Top = stack[L] /\ Top.i \in 0 .. N + 1
  BY <1>0, <1>a, TopFacts
<1>2. Top.i \in 0 .. N
  BY <1>0, <1>a, <1>1 DEF StackInv
<1>3. /\ stack' \in Seq(Frame)
      /\ Len(stack') = L
      /\ DOMAIN stack' = 1 .. L
      /\ stack'[L] = [i |-> Top.i, phase |-> "body"]
      /\ stack'[L].i = Top.i
      /\ stack'[L].phase = "body"
      /\ \A k \in 1 .. L : k # L => stack'[k] = stack[k]
  <2>1. Top.i \in 0 .. N + 1 /\ ("body") \in Phase
    BY SMT, <1>2, SignalsAssumption DEF Phase
  <2> QED BY <1>0, <1>a, <1>b, <2>1, TopStep
<1>4. stack[L].i = Top.i /\ stack[L].phase = "clear"
  BY <1>a, <1>1
<1>5. TypeOK'
  BY <1>0, <1>c, <1>d, <1>2, <1>3, SignalsAssumption DEF TypeOK, Sig
<1>6. StackInv'
  <2>1. \A k \in 1 .. L : k # L => stack[k].phase = "left" /\ stack[k].i \in Blocks
    BY <1>0 DEF StackInv
  <2>2. \A k \in 1 .. L : k # L => stack'[k].phase = "left" /\ stack'[k].i \in Blocks
    BY <1>3, <2>1
  <2> QED
    BY <1>0, <1>a, <1>c, <1>d, <1>1, <1>2, <1>3, <1>4, <2>2, SignalsAssumption
    DEF StackInv, Sig
<1> HIDE DEF L
<1>7. NotReentrant'
  <2>1. \A k \in 1 .. L : Active(k)' <=> Active(k)
    BY <1>3, <1>4 DEF Active
  <2>2. \A k \in 1 .. L : Active(k) => stack'[k].i = stack[k].i
    BY <1>3, <1>4 DEF Active
  <2> QED BY <1>0, <1>c, <1>1, <1>3, <2>1, <2>2, ActiveKept
<1>8. WakeInv'
  <2> SUFFICES ASSUME NEW i \in Sig, IsLast(i), pending'[i], ~alarm'
               PROVE  Ahead(i)'
    BY DEF WakeInv, IsLast
  <2>1. i \in Nat /\ i <= N /\ i >= 1
    BY SMT, SignalsAssumption DEF Sig
  <2>2. pending[i] /\ ~alarm
    BY <1>0, <1>c, <1>d DEF TypeOK
  <2>6. i # Top.i
    BY <1>0, <1>d DEF TypeOK
  <2>3. PICK k \in 1 .. L :
          \/ stack[k].i < i
          \/ stack[k].i = i /\ stack[k].phase \in {"test", "disarm", "clear"}
    BY <1>0, <2>2 DEF WakeInv, Ahead, L
  <2>4. CASE k # L
    BY <1>3, <2>3, <2>4 DEF Ahead
  <2>5. CASE k = L
    BY <1>1, <1>3, <1>4, <2>3, <2>5, <2>6 DEF Ahead
  <2> QED BY <2>4, <2>5
<1>9. NotForgotten'
  BY SMTT(30), <1>0, <1>c, <1>d, <1>1, <1>2, <1>3, <1>4 DEF NotForgotten, TypeOK, Sig
<1> QED BY <1>5, <1>6, <1>7, <1>8, <1>9 DEF IInv

\* The handler runs.
LEMMA BodyNext == ASSUME IInv, Body PROVE IInv'
<1> DEFINE L == Len(stack)
<1>0. TypeOK /\ StackInv /\ NotReentrant /\ WakeInv /\ NotForgotten
  BY DEF IInv
<1>a. stack # <<>> /\ Top.phase = "body" /\ at = "busy"
  BY DEF Body, Scanning
<1>b. stack' = SetTop([i |-> Top.i, phase |-> "left"])
  BY DEF Body
<1>c. pending' = pending /\ running' = running /\ alarm' = alarm
  BY DEF Body
<1>d. /\ due' = due \ {Top.i}
      /\ at' \in IF Top.i \in Blocks THEN {"busy", "call"} ELSE {"busy"}
  BY DEF Body
<1>1. /\ L \in Nat /\ L \in 1 .. L /\ DOMAIN stack = 1 .. L
      /\ Top = stack[L] /\ Top.i \in 0 .. N + 1
  BY <1>0, <1>a, TopFacts
<1>2. Top.i \in 0 .. N
  BY <1>0, <1>a, <1>1 DEF StackInv
<1>3. /\ stack' \in Seq(Frame)
      /\ Len(stack') = L
      /\ DOMAIN stack' = 1 .. L
      /\ stack'[L] = [i |-> Top.i, phase |-> "left"]
      /\ stack'[L].i = Top.i
      /\ stack'[L].phase = "left"
      /\ \A k \in 1 .. L : k # L => stack'[k] = stack[k]
  <2>1. Top.i \in 0 .. N + 1 /\ ("left") \in Phase
    BY SMT, <1>2, SignalsAssumption DEF Phase
  <2> QED BY <1>0, <1>a, <1>b, <2>1, TopStep
<1>4. stack[L].i = Top.i /\ stack[L].phase = "body"
  BY <1>a, <1>1
<1>5. TypeOK'
  BY <1>0, <1>c, <1>d, <1>2, <1>3, SignalsAssumption DEF TypeOK, Sig
<1>6. StackInv'
  <2>1. \A k \in 1 .. L : k # L => stack[k].phase = "left" /\ stack[k].i \in Blocks
    BY <1>0 DEF StackInv
  <2>2. \A k \in 1 .. L : k # L => stack'[k].phase = "left" /\ stack'[k].i \in Blocks
    BY <1>3, <2>1
  <2> QED
    BY <1>0, <1>a, <1>c, <1>d, <1>1, <1>2, <1>3, <1>4, <2>2, SignalsAssumption
    DEF StackInv, Sig
<1> HIDE DEF L
<1>7. NotReentrant'
  <2>1. \A k \in 1 .. L : Active(k)' <=> Active(k)
    BY <1>3, <1>4 DEF Active
  <2>2. \A k \in 1 .. L : Active(k) => stack'[k].i = stack[k].i
    BY <1>3, <1>4 DEF Active
  <2> QED BY <1>0, <1>c, <1>1, <1>3, <2>1, <2>2, ActiveKept
<1>8. WakeInv'
  <2> SUFFICES ASSUME NEW i \in Sig, IsLast(i), pending'[i], ~alarm'
               PROVE  Ahead(i)'
    BY DEF WakeInv, IsLast
  <2>1. i \in Nat /\ i <= N /\ i >= 1
    BY SMT, SignalsAssumption DEF Sig
  <2>2. pending[i] /\ ~alarm
    BY <1>0, <1>c, <1>d DEF TypeOK
  <2>3. PICK k \in 1 .. L :
          \/ stack[k].i < i
          \/ stack[k].i = i /\ stack[k].phase \in {"test", "disarm", "clear"}
    BY <1>0, <2>2 DEF WakeInv, Ahead, L
  <2>4. CASE k # L
    BY <1>3, <2>3, <2>4 DEF Ahead
  <2>5. CASE k = L
    BY <1>1, <1>3, <1>4, <2>3, <2>5 DEF Ahead
  <2> QED BY <2>4, <2>5
<1>9. NotForgotten'
  BY SMT, <1>0, <1>c, <1>d, <1>1, <1>2, <1>3, <1>4 DEF NotForgotten, TypeOK, Sig
<1> QED BY <1>5, <1>6, <1>7, <1>8, <1>9 DEF IInv

\* The handler is done.
LEMMA FinishNext == ASSUME IInv, Finish PROVE IInv'
<1> DEFINE L == Len(stack)
<1>0. TypeOK /\ StackInv /\ NotReentrant /\ WakeInv /\ NotForgotten
  BY DEF IInv
<1>a. stack # <<>> /\ Top.phase = "left" /\ at = "busy"
  BY DEF Finish, Scanning
<1>b. stack' = SetTop([i |-> Top.i + 1, phase |-> "test"])
  BY DEF Finish
<1>c. pending' = pending /\ alarm' = alarm /\ due' = due /\ at' = at
  BY DEF Finish
<1>d. /\ running' = [running EXCEPT ![Top.i] = FALSE]
  BY DEF Finish
<1>1. /\ L \in Nat /\ L \in 1 .. L /\ DOMAIN stack = 1 .. L
      /\ Top = stack[L] /\ Top.i \in 0 .. N + 1
  BY <1>0, <1>a, TopFacts
<1>2. Top.i \in 0 .. N
  BY <1>0, <1>a, <1>1 DEF StackInv
<1>3. /\ stack' \in Seq(Frame)
      /\ Len(stack') = L
      /\ DOMAIN stack' = 1 .. L
      /\ stack'[L] = [i |-> Top.i + 1, phase |-> "test"]
      /\ stack'[L].i = Top.i + 1
      /\ stack'[L].phase = "test"
      /\ \A k \in 1 .. L : k # L => stack'[k] = stack[k]
  <2>1. Top.i + 1 \in 0 .. N + 1 /\ ("test") \in Phase
    BY SMT, <1>2, SignalsAssumption DEF Phase
  <2> QED BY <1>0, <1>a, <1>b, <2>1, TopStep
<1>4. stack[L].i = Top.i /\ stack[L].phase = "left"
  BY <1>a, <1>1
<1>5. TypeOK'
  BY <1>0, <1>c, <1>d, <1>2, <1>3, SignalsAssumption DEF TypeOK, Sig
<1>6. StackInv'
  <2>1. \A k \in 1 .. L : k # L => stack[k].phase = "left" /\ stack[k].i \in Blocks
    BY <1>0 DEF StackInv
  <2>2. \A k \in 1 .. L : k # L => stack'[k].phase = "left" /\ stack'[k].i \in Blocks
    BY <1>3, <2>1
  <2> QED
    BY <1>0, <1>a, <1>c, <1>d, <1>1, <1>2, <1>3, <1>4, <2>2, SignalsAssumption
    DEF StackInv, Sig
<1> HIDE DEF L
<1>7. NotReentrant'
  <2>1. Active(L) /\ stack'[L].phase = "test"
    BY <1>3, <1>4 DEF Active
  <2>2. \A k \in 1 .. L :
          k # L => /\ stack'[k].phase # "test" <=> Active(k)
                   /\ stack'[k].i = stack[k].i
    BY <1>3 DEF Active
  <2>3. \A k \in 1 .. L : Active(k) /\ stack[k].i = Top.i => k = L
    BY <1>0, <1>1, <1>4, <2>1 DEF NotReentrant
  <2>4. \A j, k \in DOMAIN stack' :
          stack'[j].phase # "test" /\ stack'[k].phase # "test"
            /\ stack'[j].i = stack'[k].i => j = k
    BY SMT, <1>0, <1>1, <1>3, <2>1, <2>2 DEF NotReentrant
  <2>5. ASSUME NEW i \in 0 .. N
        PROVE  running'[i] <=> \E k \in DOMAIN stack' :
                                stack'[k].phase # "test" /\ stack'[k].i = i
    <3>1. CASE i = Top.i
      <4>1. ~running'[i]
        BY <1>0, <1>d, <2>5, <3>1 DEF TypeOK
      <4> QED BY <1>3, <2>1, <2>2, <2>3, <3>1, <4>1
    <3>2. CASE i # Top.i
      <4>1. running'[i] = running[i]
        BY <1>0, <1>d, <2>5, <3>2 DEF TypeOK
      <4> QED
        BY SMTT(30), <1>0, <1>1, <1>3, <1>4, <2>1, <2>2, <2>5, <3>2, <4>1
        DEF NotReentrant
    <3> QED BY <3>1, <3>2
  <2> QED BY <2>4, <2>5 DEF NotReentrant, Active
<1>8. WakeInv'
  <2> SUFFICES ASSUME NEW i \in Sig, IsLast(i), pending'[i], ~alarm'
               PROVE  Ahead(i)'
    BY DEF WakeInv, IsLast
  <2>1. i \in Nat /\ i <= N /\ i >= 1
    BY SMT, SignalsAssumption DEF Sig
  <2>2. pending[i] /\ ~alarm
    BY <1>0, <1>c, <1>d DEF TypeOK
  <2>3. PICK k \in 1 .. L :
          \/ stack[k].i < i
          \/ stack[k].i = i /\ stack[k].phase \in {"test", "disarm", "clear"}
    BY <1>0, <2>2 DEF WakeInv, Ahead, L
  <2>4. CASE k # L
    BY <1>3, <2>3, <2>4 DEF Ahead
  <2>5. CASE k = L
    <3>1. Top.i < i
      BY <1>4, <2>3, <2>5
    <3>2. Top.i + 1 < i \/ Top.i + 1 = i
      BY SMT, <1>2, <2>1, <3>1
    <3> QED BY <1>1, <1>3, <3>2 DEF Ahead
  <2> QED BY <2>4, <2>5
<1>9. NotForgotten'
  BY SMT, <1>0, <1>c, <1>d, <1>1, <1>2, <1>3, <1>4 DEF NotForgotten, TypeOK, Sig
<1> QED BY <1>5, <1>6, <1>7, <1>8, <1>9 DEF IInv

\* Every step preserves the invariant.
LEMMA InvNext == IInv /\ [Next]_vars => IInv'
<1> SUFFICES ASSUME IInv, [Next]_vars PROVE IInv'
  OBVIOUS
<1>1. CASE \E i \in Sig : Signal(i)
  BY <1>1, QuietNext
<1>2. CASE AlarmFires \/ Call \/ Ready \/ UNCHANGED vars
  BY <1>2, QuietNext
<1>3. CASE Check
  BY <1>3, CheckNext
<1>4. CASE Enter
  BY <1>4, EnterNext
<1>5. CASE Skip
  BY <1>5, SkipNext
<1>6. CASE Disarm
  BY <1>6, DisarmNext
<1>7. CASE Clear
  BY <1>7, ClearNext
<1>8. CASE Body
  BY <1>8, BodyNext
<1>9. CASE Finish
  BY <1>9, FinishNext
<1>10. CASE Return
  BY <1>10, ReturnNext
<1> QED
  BY <1>1, <1>2, <1>3, <1>4, <1>5, <1>6, <1>7, <1>8, <1>9, <1>10
  DEF Next, Program

(***************************************************************************)
(* The inductive invariant of the signal framework holds in every state.   *)
(***************************************************************************)
THEOREM Invariance == Spec => []IInv
BY InvInit, InvNext, PTL DEF Spec

(***************************************************************************)
(* The framework's variables keep their types.                             *)
(***************************************************************************)
THEOREM TypeCorrect == Spec => []TypeOK
<1>1. IInv => TypeOK
  BY DEF IInv
<1> QED BY <1>1, Invariance, PTL

(***************************************************************************)
(* No handler is ever re-entered, however the scans of pending signals nest*)
(* (vsf_sysutil_check_pending_actions and its running flags).              *)
(***************************************************************************)
THEOREM NoReentry == Spec => []NotReentrant
<1>1. IInv => NotReentrant
  BY DEF IInv
<1> QED BY <1>1, Invariance, PTL

(***************************************************************************)
(* No signal recorded by vsf_sysutil_common_sighandler is forgotten.       *)
(***************************************************************************)
THEOREM NoneForgotten == Spec => []NotForgotten
<1>1. IInv => NotForgotten
  BY DEF IInv
<1> QED BY <1>1, Invariance, PTL

(***************************************************************************)
(* The program never waits in a blocking call with the last use_alarm      *)
(* signal pending and no alarm set.                                        *)
(***************************************************************************)
THEOREM LastNeverLost == Spec => []LastWakes
<1>1. IInv => LastWakes
  <2> SUFFICES ASSUME IInv, NEW i \in Sig, IsLast(i), Blocked, pending[i]
               PROVE  alarm
    BY DEF LastWakes
  <2>1. ~Ahead(i)
    <3>1. Len(stack) = 0
      BY DEF Blocked
    <3> QED BY SMT, <3>1 DEF Ahead
  <2> QED BY <2>1 DEF IInv, WakeInv
<1> QED BY <1>1, Invariance, PTL

=============================================================================

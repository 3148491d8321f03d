--------------------------- MODULE ListenerProofs ---------------------------
(***************************************************************************)
(* The listener's accounting is exact, its tables never meet a bug(), and  *)
(* the limits hold: for any number of addresses, processes and settings.   *)
(***************************************************************************)
EXTENDS Listener, FiniteSetTheorems, TLAPS

\* The steps are about sets and functions, save where arithmetic is named SMT.
USE ZenonT(60)

\* s_p_pid_ip_hash has the address of every child except one just forked.
Tables ==
  /\ pc = "fork" => addr # None
  /\ pc = "add" => /\ newChild \in Child
                   /\ addr = info[newChild].ip
  /\ \A p \in Pid :
       IF state[p] = "free" \/ (pc = "add" /\ p = newChild)
         THEN pidIp[p] = None ELSE pidIp[p] = info[p].ip
  /\ \A p \in Child : info[p].ip # None

\* In every group of children, the last one to be forked counted them all.
Total == \A S \in SUBSET Child :
           S # {} => \E p \in S : Cardinality(S) <= info[p].num_children
PerIp == \A ip \in Ip : \A S \in SUBSET ChildOf(ip) :
           S # {} => \E p \in S : Cardinality(S) <= info[p].num_this_ip

Admitted == \A p \in Served : ~TooMany(p)

IInv == TypeOK /\ CountsExact /\ Tables /\ Total /\ PerIp /\ Admitted

-----------------------------------------------------------------------------
\* A child of an address is a child, and there are finitely many.
LEMMA Finite ==
  /\ Child \subseteq Pid /\ IsFiniteSet(Child) /\ Cardinality(Child) \in Nat
  /\ \A ip \in Ip : /\ ChildOf(ip) \subseteq Child
                    /\ IsFiniteSet(ChildOf(ip))
                    /\ Cardinality(ChildOf(ip)) \in Nat
<1>1. Child \subseteq Pid
  BY DEF Child
<1>2. IsFiniteSet(Child) /\ Cardinality(Child) \in Nat
  BY <1>1, ListenerAssumption, FS_Subset, FS_CardinalityType
<1>3. ASSUME NEW ip \in Ip
      PROVE  /\ ChildOf(ip) \subseteq Child /\ IsFiniteSet(ChildOf(ip))
             /\ Cardinality(ChildOf(ip)) \in Nat
  <2>1. ChildOf(ip) \subseteq Child
    BY DEF ChildOf
  <2> QED
    BY <1>2, <2>1, FS_Subset, FS_CardinalityType
<1> QED
  BY <1>1, <1>2, <1>3

\* The invariant holds before the first client.
LEMMA InvInit == Init => IInv
<1> SUFFICES ASSUME Init PROVE IInv
  OBVIOUS
<1>1. Child = {} /\ Served = {} /\ \A ip \in Ip : ChildOf(ip) = {}
  BY DEF Init, Child, Served, ChildOf
<1>2. Cardinality({}) = 0
  BY FS_EmptySet
<1>3. TypeOK
  BY ListenerAssumption DEF Init, TypeOK, NoInfo, Info
<1>4. CountsExact
  BY SMT, <1>1, <1>2 DEF Init, CountsExact, InFork, Counted
<1>5. Tables
  BY <1>1 DEF Init, Tables
<1>6. Total /\ PerIp /\ Admitted
  BY <1>1 DEF Total, PerIp, Admitted
<1> QED
  BY <1>3, <1>4, <1>5, <1>6 DEF IInv

\* Steps that leave the children and the counts alone keep the accounting.
LEMMA SameChildren ==
  ASSUME IInv, Child' = Child, info' = info,
         UNCHANGED <<sChildren, ipCount>>, pc # "fork", pc' # "fork"
  PROVE  CountsExact' /\ Total' /\ PerIp'
<1>1. \A ip \in Ip : ChildOf(ip)' = ChildOf(ip)
  BY DEF ChildOf
<1>2. CountsExact'
  BY <1>1 DEF IInv, CountsExact, InFork, Counted
<1>3. Total'
  BY DEF IInv, Total
<1>4. PerIp'
  BY <1>1 DEF IInv, PerIp
<1> QED
  BY <1>2, <1>3, <1>4

\* A step of the listener that touches neither children nor counts.
LEMMA Quiet ==
  ASSUME IInv, TypeOK', state' = state, info' = info,
         UNCHANGED <<sChildren, ipCount, pidIp>>,
         pc \notin {"fork", "add"}, pc' \notin {"fork", "add"}
  PROVE  IInv'
<1>1. Child' = Child /\ Served' = Served
  BY DEF Child, Served
<1>2. CountsExact' /\ Total' /\ PerIp'
  BY <1>1, SameChildren
<1>3. Tables'
  BY <1>1 DEF IInv, Tables
<1>4. Admitted'
  BY <1>1 DEF IInv, Admitted, TooMany
<1> QED
  BY <1>2, <1>3, <1>4 DEF IInv

\* A client is counted.
LEMMA CountNext == IInv /\ Count => IInv'
<1> SUFFICES ASSUME IInv, Count PROVE IInv'
  OBVIOUS
<1>0. /\ addr \in Ip /\ addr' = addr /\ pc = "checked" /\ pc' = "fork"
      /\ sChildren' = sChildren + 1
      /\ ipCount' = [ipCount EXCEPT ![addr] = @ + 1]
      /\ state' = state /\ info' = info /\ pidIp' = pidIp
  BY DEF Count, Goto, IInv, TypeOK
<1>1. /\ Child' = Child /\ Served' = Served
      /\ \A ip \in Ip : ChildOf(ip)' = ChildOf(ip)
  BY <1>0 DEF Child, Served, ChildOf
<1>2. TypeOK'
  BY SMT, <1>0 DEF Count, IInv, TypeOK
<1>3. CountsExact'
  <2>1. sChildren' = Cardinality(Child') + InFork'
    BY SMT, <1>0, <1>1, Finite DEF IInv, CountsExact, InFork
  <2>2. ASSUME NEW ip \in Ip
        PROVE  ipCount'[ip] = Cardinality(ChildOf(ip)') + Counted(ip)'
    <3>1. ipCount[ip] = Cardinality(ChildOf(ip)) + 0
      BY <1>0 DEF IInv, CountsExact, Counted
    <3>2. ipCount'[ip] = IF ip = addr THEN ipCount[ip] + 1 ELSE ipCount[ip]
      BY <1>0 DEF IInv, TypeOK
    <3>3. Counted(ip)' = IF ip = addr THEN 1 ELSE 0
      BY <1>0 DEF Counted
    <3> QED
      BY SMT, <1>1, <3>1, <3>2, <3>3, Finite
  <2> QED
    BY <2>1, <2>2 DEF CountsExact
<1>4. Tables'
  BY <1>0, <1>1, ListenerAssumption DEF IInv, Tables
<1>5. Total' /\ PerIp' /\ Admitted'
  BY <1>0, <1>1 DEF IInv, Total, PerIp, Admitted, TooMany
<1> QED
  BY <1>2, <1>3, <1>4, <1>5 DEF IInv

\* The counted client could not be given a process.
LEMMA ForkFailsNext == IInv /\ ForkFails => IInv'
<1> SUFFICES ASSUME IInv, ForkFails PROVE IInv'
  OBVIOUS
<1>0. /\ addr \in Ip /\ pc = "fork" /\ pc' = "accept"
      /\ sChildren' = sChildren - 1
      /\ ipCount' = [ipCount EXCEPT ![addr] = @ - 1]
      /\ state' = state /\ info' = info /\ pidIp' = pidIp
  BY DEF ForkFails, Goto, IInv, TypeOK, Tables
<1>1. /\ Child' = Child /\ Served' = Served
      /\ \A ip \in Ip : ChildOf(ip)' = ChildOf(ip)
  BY <1>0 DEF Child, Served, ChildOf
<1>3. sChildren' = Cardinality(Child)
  BY SMTT(30), <1>0, Finite DEF IInv, CountsExact, InFork
<1>4. ASSUME NEW ip \in Ip PROVE ipCount'[ip] = Cardinality(ChildOf(ip))
  <2>1. ipCount[ip] = Cardinality(ChildOf(ip)) + IF ip = addr THEN 1 ELSE 0
    BY <1>0 DEF IInv, CountsExact, Counted
  <2>2. ipCount'[ip] = IF ip = addr THEN ipCount[ip] - 1 ELSE ipCount[ip]
    BY <1>0 DEF IInv, TypeOK
  <2> QED
    BY SMT, <2>1, <2>2, Finite
<1>5. CountsExact'
  BY SMT, <1>0, <1>1, <1>3, <1>4, Finite DEF CountsExact, InFork, Counted
<1>2. TypeOK'
  <2>1. ipCount' \in [Ip -> Nat]
    BY <1>0, <1>4, Finite DEF IInv, TypeOK
  <2> QED
    BY <1>0, <1>3, <2>1, Finite DEF ForkFails, IInv, TypeOK
<1>6. Tables'
  BY <1>0, <1>1 DEF IInv, Tables
<1>7. Total' /\ PerIp' /\ Admitted'
  BY <1>0, <1>1 DEF IInv, Total, PerIp, Admitted, TooMany
<1> QED
  BY <1>2, <1>5, <1>6, <1>7 DEF IInv

\* The counted client becomes a child that knows how many there are.
LEMMA ForkNext == ASSUME IInv, NEW p \in Pid, Fork(p) PROVE IInv'
<1> DEFINE I == [ip |-> addr, num_children |-> sChildren,
                 num_this_ip |-> ipCount[addr], limit |-> tunable]
<1>0. /\ addr \in Ip /\ addr' = addr /\ pc = "fork" /\ pc' = "add"
      /\ state[p] = "free" /\ newChild' = p
      /\ state' = [state EXCEPT ![p] = "new"] /\ info' = [info EXCEPT ![p] = I]
      /\ UNCHANGED <<sChildren, ipCount, pidIp, tunable, sigchld, sighup>>
  BY DEF Fork, Goto, IInv, TypeOK, Tables
<1>a. PICK a \in Ip : addr = a /\ addr' = a
  BY <1>0
<1>1. I \in Info
  BY <1>0 DEF IInv, TypeOK, Info
<1>2. /\ info'[p].ip = a /\ info'[p].num_children = sChildren
      /\ info'[p].num_this_ip = ipCount[a]
  BY <1>0, <1>a DEF IInv, TypeOK
<1>3. \A q \in Pid : q # p => info'[q] = info[q] /\ state'[q] = state[q]
  BY <1>0 DEF IInv, TypeOK
<1>4. state'[p] = "new"
  BY <1>0 DEF IInv, TypeOK
<1> HIDE DEF I
<1>5. TypeOK'
  BY <1>0, <1>1 DEF IInv, TypeOK
<1>6. p \notin Child /\ Child' = Child \cup {p} /\ Served' = Served
  BY <1>0, <1>3, <1>4 DEF Child, Served
<1>7. /\ p \notin ChildOf(a) /\ ChildOf(a)' = ChildOf(a) \cup {p}
      /\ \A ip \in Ip : ip # a => ChildOf(ip)' = ChildOf(ip)
  BY SMT, <1>a, <1>2, <1>3, <1>6 DEF ChildOf, Child
<1>8. /\ Cardinality(Child') = Cardinality(Child) + 1
      /\ Cardinality(ChildOf(a)') = Cardinality(ChildOf(a)) + 1
  BY <1>6, <1>7, Finite, FS_AddElement
<1>9. /\ sChildren = Cardinality(Child')
      /\ ipCount[a] = Cardinality(ChildOf(a)')
  BY <1>0, <1>a, <1>8 DEF IInv, CountsExact, InFork, Counted
<1>10. CountsExact'
  <2>1. sChildren' = Cardinality(Child') + InFork'
    BY SMT, <1>0, <1>8, <1>9, Finite DEF InFork
  <2>2. ASSUME NEW ip \in Ip
        PROVE  ipCount'[ip] = Cardinality(ChildOf(ip)') + Counted(ip)'
    <3>1. Counted(ip)' = 0
      BY <1>0 DEF Counted
    <3>2. CASE ip = a
      BY SMT, <1>0, <1>8, <1>9, <3>1, <3>2, Finite
    <3>3. CASE ip # a
      BY <1>0, <1>a, <1>7, <3>1, <3>3, Finite DEF IInv, CountsExact, Counted
    <3> QED
      BY <3>2, <3>3
  <2> QED
    BY <2>1, <2>2 DEF CountsExact
<1>11. Tables'
  <2>1. pidIp'[p] = None
    BY <1>0 DEF IInv, Tables
  <2>2. \A q \in Pid : q # p =>
          IF state'[q] = "free" THEN pidIp'[q] = None
          ELSE pidIp'[q] = info'[q].ip /\ info'[q].ip # None
    BY SMT, <1>0, <1>3 DEF IInv, Tables, Child
  <2>3. \A q \in Child' : info'[q].ip # None
    BY <1>2, <1>6, <2>2, ListenerAssumption DEF Child
  <2> QED
    BY <1>0, <1>a, <1>2, <1>6, <2>1, <2>2, <2>3 DEF Tables
<1>12. Total'
  <2> SUFFICES ASSUME NEW S \in SUBSET Child', S # {}
               PROVE  \E q \in S : Cardinality(S) <= info'[q].num_children
    BY DEF Total
  <2>1. CASE p \in S
    <3>1. Cardinality(S) <= Cardinality(Child')
      BY <1>6, Finite, FS_AddElement, FS_Subset
    <3> QED
      BY <1>2, <1>9, <2>1, <3>1
  <2>2. CASE p \notin S
    <3>1. S \in SUBSET Child
      BY <1>6, <2>2
    <3>2. PICK q \in S : Cardinality(S) <= info[q].num_children
      BY <3>1 DEF IInv, Total
    <3> QED
      BY <1>3, <2>2, <3>1, <3>2, Finite
  <2> QED
    BY <2>1, <2>2
<1>13. PerIp'
  <2> SUFFICES ASSUME NEW ip \in Ip, NEW S \in SUBSET ChildOf(ip)', S # {}
               PROVE  \E q \in S : Cardinality(S) <= info'[q].num_this_ip
    BY DEF PerIp
  <2>1. CASE p \in S
    <3>0. ip = a
      BY <1>a, <1>2, <2>1 DEF ChildOf
    <3>1. Cardinality(S) <= Cardinality(ChildOf(a)')
      BY <1>7, <3>0, Finite, FS_AddElement, FS_Subset
    <3> QED
      BY <1>a, <1>2, <1>9, <2>1, <3>1
  <2>2. CASE p \notin S
    <3>0. ChildOf(ip)' \subseteq ChildOf(ip) \cup {p}
      BY <1>7
    <3>1. S \in SUBSET ChildOf(ip)
      BY <2>2, <3>0
    <3>2. PICK q \in S : Cardinality(S) <= info[q].num_this_ip
      BY <3>1 DEF IInv, PerIp
    <3> QED
      BY <1>3, <2>2, <3>1, <3>2, Finite
  <2> QED
    BY <2>1, <2>2
<1>14. Admitted'
  BY <1>3, <1>0, <1>6 DEF IInv, Admitted, TooMany, Served
<1> QED
  BY <1>5, <1>10, <1>11, <1>12, <1>13, <1>14 DEF IInv

\* A child that has exited is reaped.
LEMMA ReapNext == ASSUME IInv, NEW p \in Pid, Reap(p) PROVE IInv'
<1>0. /\ pc = "reap" /\ pc' = "reap" /\ state[p] = "zombie"
      /\ sChildren' = sChildren - 1 /\ pidIp' = [pidIp EXCEPT ![p] = None]
      /\ state' = [state EXCEPT ![p] = "free"]
      /\ info' = [info EXCEPT ![p] = NoInfo]
      /\ UNCHANGED <<addr, newChild, tunable, sigchld, sighup>>
  BY DEF Reap, Goto
<1>1. PICK a \in Ip : pidIp[p] = a /\ info[p].ip = a
  BY <1>0 DEF IInv, TypeOK, Tables, Child, Info
<1>2. ipCount' = [ipCount EXCEPT ![a] = @ - 1]
  BY <1>1 DEF Reap
<1>3. \A q \in Pid : q # p => /\ info'[q] = info[q] /\ state'[q] = state[q]
                              /\ pidIp'[q] = pidIp[q]
  BY <1>0 DEF IInv, TypeOK
<1>4. state'[p] = "free" /\ pidIp'[p] = None
  BY <1>0 DEF IInv, TypeOK
<1>5. p \in Child /\ Child' = Child \ {p} /\ Served' = Served
  BY <1>0, <1>3, <1>4 DEF Child, Served
<1>6. /\ p \in ChildOf(a) /\ ChildOf(a)' = ChildOf(a) \ {p}
      /\ \A ip \in Ip : ip # a => ChildOf(ip)' = ChildOf(ip)
  BY <1>1, <1>3, <1>5 DEF ChildOf, Child
<1>7. /\ Cardinality(Child') = Cardinality(Child) - 1
      /\ Cardinality(ChildOf(a)') = Cardinality(ChildOf(a)) - 1
  BY <1>1, <1>5, <1>6, Finite, FS_RemoveElement
<1>8. IsFiniteSet(Child') /\ Cardinality(Child') \in Nat
  BY <1>5, Finite, FS_RemoveElement, FS_CardinalityType
<1>9. IsFiniteSet(ChildOf(a)') /\ Cardinality(ChildOf(a)') \in Nat
  BY SMT, <1>1, <1>6, Finite, FS_RemoveElement, FS_CardinalityType
<1>10. sChildren' = Cardinality(Child')
  BY SMT, <1>0, <1>7, Finite DEF IInv, CountsExact, InFork
<1>11. ASSUME NEW ip \in Ip PROVE ipCount'[ip] = Cardinality(ChildOf(ip)')
  <2>1. ipCount[ip] = Cardinality(ChildOf(ip))
    BY SMT, <1>0, Finite DEF IInv, CountsExact, Counted
  <2>2. ipCount'[ip] = IF ip = a THEN ipCount[ip] - 1 ELSE ipCount[ip]
    BY <1>2 DEF IInv, TypeOK
  <2>3. CASE ip = a
    BY <1>7, <2>1, <2>2, <2>3
  <2>4. CASE ip # a
    BY <1>6, <2>1, <2>2, <2>4
  <2> QED
    BY <2>3, <2>4
<1>12. CountsExact'
  <2>1. sChildren' = Cardinality(Child') + InFork'
    BY SMT, <1>0, <1>8, <1>10 DEF InFork
  <2>2. ASSUME NEW ip \in Ip
        PROVE  ipCount'[ip] = Cardinality(ChildOf(ip)') + Counted(ip)'
    <3>1. Cardinality(ChildOf(ip)') \in Nat
      BY <1>6, <1>9, Finite
    <3> QED
      BY SMTT(30), <1>0, <1>11, <3>1 DEF Counted
  <2> QED
    BY <2>1, <2>2 DEF CountsExact
<1>13. TypeOK'
  <2>1. \A ip \in Ip : ipCount'[ip] \in Nat
    BY <1>6, <1>9, <1>11, Finite
  <2>2. ipCount' \in [Ip -> Nat]
    BY <1>2, <2>1 DEF IInv, TypeOK
  <2>3. NoInfo \in Info
    BY ListenerAssumption DEF NoInfo, Info
  <2> QED
    BY <1>0, <1>8, <1>10, <2>2, <2>3 DEF IInv, TypeOK
<1>14. Tables'
  BY SMT, <1>0, <1>3, <1>4, <1>5 DEF IInv, Tables, Child
<1>15. Total'
  <2> SUFFICES ASSUME NEW S \in SUBSET Child', S # {}
               PROVE  \E q \in S : Cardinality(S) <= info'[q].num_children
    BY DEF Total
  <2>1. S \in SUBSET Child /\ p \notin S
    BY <1>5
  <2> QED
    BY <1>3, <2>1, Finite DEF IInv, Total
<1>16. PerIp'
  <2> SUFFICES ASSUME NEW ip \in Ip, NEW S \in SUBSET ChildOf(ip)', S # {}
               PROVE  \E q \in S : Cardinality(S) <= info'[q].num_this_ip
    BY DEF PerIp
  <2>1. S \in SUBSET ChildOf(ip) /\ p \notin S /\ S \subseteq Pid
    <3>1. p \notin Child'
      BY <1>5
    <3>2. ChildOf(ip)' \subseteq ChildOf(ip) /\ ChildOf(ip)' \subseteq Child'
      <4>1. ChildOf(ip)' \subseteq ChildOf(ip)
        BY <1>6
      <4> QED
        BY <4>1 DEF ChildOf
    <3> QED
      BY <3>1, <3>2, Finite
  <2>2. PICK q \in S : Cardinality(S) <= info[q].num_this_ip
    BY <2>1 DEF IInv, PerIp
  <2> QED
    BY <1>3, <2>1, <2>2
<1>17. Admitted'
  BY <1>0, <1>3, <1>5 DEF IInv, Admitted, TooMany, Served
<1> QED
  BY <1>12, <1>13, <1>14, <1>15, <1>16, <1>17 DEF IInv

\* The new child's address is entered under its id.
LEMMA AddNext == IInv /\ Add => IInv'
<1> SUFFICES ASSUME IInv, Add PROVE IInv'
  OBVIOUS
<1>0. /\ pc = "add" /\ pc' = "accept" /\ newChild \in Pid
      /\ pidIp' = [pidIp EXCEPT ![newChild] = addr]
      /\ UNCHANGED <<sChildren, ipCount, tunable, sigchld, sighup, state, info>>
  BY DEF Add, Goto, IInv, Tables, Child
<1>1. Child' = Child /\ Served' = Served
  BY <1>0 DEF Child, Served
<1>2. TypeOK'
  BY <1>0 DEF Add, IInv, TypeOK
<1>3. CountsExact' /\ Total' /\ PerIp'
  BY <1>0, <1>1, SameChildren
<1>4. Tables'
  <2>1. \A q \in Pid : pidIp'[q] = IF q = newChild THEN addr ELSE pidIp[q]
    BY <1>0 DEF IInv, TypeOK
  <2>2. newChild \in Child /\ addr = info[newChild].ip
    BY <1>0 DEF IInv, Tables
  <2> QED
    BY <1>0, <1>1, <2>1, <2>2 DEF IInv, Tables, Child
<1>5. Admitted'
  BY <1>0, <1>1 DEF IInv, Admitted, TooMany
<1> QED
  BY <1>2, <1>3, <1>4, <1>5 DEF IInv

\* A child changes its state and stays a child.
LEMMA ChildNext ==
  ASSUME IInv, NEW p \in Pid, CheckLimits(p) \/ Exit(p) PROVE IInv'
<1> PICK new \in {"served", "refused", "zombie"} :
      /\ state' = [state EXCEPT ![p] = new]
      /\ new = "served" => ~TooMany(p)
  BY DEF CheckLimits, Exit
<1>0. /\ state[p] # "free" /\ sigchld' \in BOOLEAN
      /\ UNCHANGED <<pc, listenerVars, sighup, info>>
  BY DEF CheckLimits, Exit, IInv, TypeOK
<1>1. \A q \in Pid : state'[q] = IF q = p THEN new ELSE state[q]
  BY DEF IInv, TypeOK
<1>2. Child' = Child
  BY <1>0, <1>1 DEF Child
<1>3. \A ip \in Ip : ChildOf(ip)' = ChildOf(ip)
  BY <1>0, <1>2 DEF ChildOf
<1>4. TypeOK'
  BY <1>0 DEF IInv, TypeOK, listenerVars
<1>5. CountsExact'
  BY <1>0, <1>2, <1>3 DEF IInv, CountsExact, InFork, Counted, listenerVars
<1>6. Total' /\ PerIp'
  BY <1>0, <1>2, <1>3 DEF IInv, Total, PerIp
<1>7. Tables'
  BY <1>0, <1>1, <1>2 DEF IInv, Tables, listenerVars, Child
<1>8. Admitted'
  BY <1>0, <1>1 DEF IInv, Admitted, TooMany, Served
<1> QED
  BY <1>4, <1>5, <1>6, <1>7, <1>8 DEF IInv

\* Every step keeps the invariant.
LEMMA InvNext == IInv /\ [Next]_vars => IInv'
<1> SUFFICES ASSUME IInv, [Next]_vars PROVE IInv'
  OBVIOUS
<1>1. CASE CheckHup \/ CheckChld \/ Reaped \/ Again \/ ReloadDies
  <2>1. /\ pc \notin {"fork", "add"} /\ pc' \notin {"fork", "add"}
        /\ UNCHANGED <<listenerVars, state, info>>
    BY <1>1 DEF CheckHup, CheckChld, Reaped, Again, ReloadDies, Goto
  <2>2. TypeOK'
    BY <1>1 DEF CheckHup, CheckChld, Reaped, Again, ReloadDies, Goto, IInv,
       TypeOK, listenerVars
  <2> QED
    BY <2>1, <2>2, Quiet DEF listenerVars
<1>2. CASE Reload \/ ReloadUnreadable
  <2>1. TypeOK'
    BY <1>2, ListenerAssumption DEF Reload, ReloadUnreadable, Goto, IInv, TypeOK
  <2> QED
    BY <1>2, <2>1, Quiet DEF Reload, ReloadUnreadable, Goto
<1>3. CASE Accept
  <2>1. TypeOK'
    BY <1>3 DEF Accept, Goto, IInv, TypeOK
  <2> QED
    BY <1>3, <2>1, Quiet DEF Accept, Goto
<1>4. CASE Hup \/ UNCHANGED vars
  <2>1. /\ UNCHANGED <<pc, listenerVars, sigchld, state, info>>
        /\ sighup' \in BOOLEAN
    BY <1>4 DEF Hup, vars, IInv, TypeOK
  <2>2. TypeOK'
    BY <2>1 DEF IInv, TypeOK, listenerVars
  <2>3. Child' = Child /\ Served' = Served /\ info' = info
    BY <2>1 DEF Child, Served
  <2>4. \A ip \in Ip : ChildOf(ip)' = ChildOf(ip)
    BY <2>3 DEF ChildOf
  <2>5. CountsExact'
    BY <2>1, <2>3, <2>4 DEF IInv, CountsExact, InFork, Counted, listenerVars
  <2>6. Total' /\ PerIp' /\ Admitted'
    BY <2>3, <2>4 DEF IInv, Total, PerIp, Admitted, TooMany
  <2>7. Tables'
    BY <2>1, <2>3 DEF IInv, Tables, listenerVars
  <2> QED
    BY <2>2, <2>5, <2>6, <2>7 DEF IInv
<1>5. CASE \E p \in Pid : Reap(p)
  BY <1>5, ReapNext
<1>6. CASE \E p \in Pid : Fork(p)
  BY <1>6, ForkNext
<1>7. CASE \E p \in Pid : CheckLimits(p) \/ Exit(p)
  BY <1>7, ChildNext
<1> QED
  BY <1>1, <1>2, <1>3, <1>4, <1>5, <1>6, <1>7, CountNext, ForkFailsNext, AddNext
  DEF Next, Handlers, Loop

-----------------------------------------------------------------------------
\* The inductive invariant holds in every state of every behaviour.
THEOREM Invariance == Spec => []IInv
BY InvInit, InvNext, PTL DEF Spec

\* Type correctness of the listener's tables and its children.
THEOREM TypeCorrect == Spec => []TypeOK
<1>1. IInv => TypeOK
  BY DEF IInv
<1> QED
  BY <1>1, Invariance, PTL

\* s_children and the counts per address are exact in every state.
THEOREM CountsAreExact == Spec => []CountsExact
<1>1. IInv => CountsExact
  BY DEF IInv
<1> QED
  BY <1>1, Invariance, PTL

\* No bug() of the listener's tables is ever reached.
THEOREM NeverBug == Spec => []NoBug
<1>1. ASSUME IInv PROVE NoBug
  <2>1. ASSUME NEW p \in Child, pc = "reap"
        PROVE  pidIp[p] = info[p].ip /\ pidIp[p] # None /\ ipCount[pidIp[p]] > 0
    <3>1. pidIp[p] = info[p].ip /\ info[p].ip # None /\ info[p].ip \in Ip
      BY <1>1, <2>1 DEF IInv, Tables, Child, TypeOK, Info
    <3>2. p \in ChildOf(info[p].ip)
      BY DEF ChildOf
    <3>3. Cardinality(ChildOf(info[p].ip)) # 0
      BY <3>1, <3>2, Finite, FS_EmptySet
    <3>4. ipCount[info[p].ip] = Cardinality(ChildOf(info[p].ip)) + 0
      BY <1>1, <2>1, <3>1 DEF IInv, CountsExact, Counted
    <3> QED
      BY SMT, <3>1, <3>3, <3>4, Finite
  <2>2. pc = "add" => newChild # None /\ pidIp[newChild] = None
    BY <1>1, ListenerAssumption DEF IInv, Tables, Child
  <2>3. ASSUME pc = "fork" PROVE addr # None /\ ipCount[addr] > 0
    <3>1. addr \in Ip /\ addr # None
      BY <1>1, <2>3 DEF IInv, Tables, TypeOK
    <3>2. ipCount[addr] = Cardinality(ChildOf(addr)) + 1
      BY <1>1, <2>3, <3>1 DEF IInv, CountsExact, Counted
    <3> QED
      BY SMT, <3>1, <3>2, Finite
  <2> QED
    BY <2>1, <2>2, <2>3 DEF NoBug
<1> QED
  BY <1>1, Invariance, PTL

\* The clients served at once, and those of one address, fit in the limit
\* that the last of them was let in under.
THEOREM LimitsHold == Spec => []WithinLimits
<1>1. ASSUME IInv PROVE WithinLimits
  <2>1. /\ Served \in SUBSET Child /\ Served \subseteq Pid
        /\ IsFiniteSet(Served) /\ Cardinality(Served) \in Nat
    <3>1. Served \in SUBSET Child /\ Served \subseteq Pid
      BY DEF Served, Child
    <3> QED
      BY <3>1, Finite, FS_Subset, FS_CardinalityType
  <2>2. \A p \in Pid : /\ info[p].limit.clients \in Nat
                       /\ info[p].limit.perIp \in Nat
                       /\ info[p].num_children \in Nat
                       /\ info[p].num_this_ip \in Nat
    BY SMT, <1>1, ListenerAssumption DEF IInv, TypeOK, Info
  <2>3. \A p \in Served :
          /\ info[p].limit.clients = 0
               \/ info[p].num_children <= info[p].limit.clients
          /\ info[p].limit.perIp = 0
               \/ info[p].num_this_ip <= info[p].limit.perIp
    BY SMT, <1>1, <2>1, <2>2 DEF IInv, Admitted, TooMany
  <2>4. ASSUME Served # {}
        PROVE  \E p \in Served : \/ info[p].limit.clients = 0
                                 \/ Cardinality(Served) <= info[p].limit.clients
    <3>1. PICK p \in Served : Cardinality(Served) <= info[p].num_children
      BY <1>1, <2>1, <2>4 DEF IInv, Total
    <3> QED
      BY SMT, <2>1, <2>2, <2>3, <3>1
  <2>5. ASSUME NEW ip \in Ip, NEW here, here = Served \cap ChildOf(ip),
               here # {}
        PROVE  \E p \in here : \/ info[p].limit.perIp = 0
                               \/ Cardinality(here) <= info[p].limit.perIp
    <3>1. here \in SUBSET ChildOf(ip) /\ here \subseteq Served
      BY <2>5
    <3>2. Cardinality(here) \in Nat
      BY <2>1, <3>1, FS_Subset, FS_CardinalityType
    <3>3. PICK p \in here : Cardinality(here) <= info[p].num_this_ip
      BY <1>1, <3>1, <2>5 DEF IInv, PerIp
    <3> QED
      BY SMTT(30), <2>1, <2>2, <2>3, <3>1, <3>2, <3>3
  <2> QED
    BY <2>4, <2>5 DEF WithinLimits
<1> QED
  BY <1>1, Invariance, PTL

=============================================================================

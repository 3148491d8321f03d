------------------------------ MODULE Signals -------------------------------
(***************************************************************************)
(* The synchronous signal framework of sysutil.c.                          *)
(*                                                                         *)
(* The installed signal handlers only record a signal.  The handler proper *)
(* runs later, in vsf_sysutil_check_pending_actions, which is called when a*)
(* blocking system call has returned.  A handler may itself make blocking  *)
(* calls, so the scan of pending signals nests.  A signal that comes just  *)
(* before a blocking call would wait for the call to return; "use_alarm"   *)
(* signals therefore also start an alarm that goes off every second.       *)
(*                                                                         *)
(* Signals are numbered 1 .. N in the order of their real numbers; 0 is the*)
(* i/o handler, which the scan calls first when the call was I/O.  A frame *)
(* of the stack is one activation of the scan: the number it is looking at *)
(* and how far it is with it.                                              *)
(***************************************************************************)
EXTENDS Naturals, Sequences

CONSTANTS
  N,         \* number of signals with a synchronous handler
  UseAlarm,  \* those installed with use_alarm
  Blocks,    \* handlers whose body makes a blocking call
  IoHandler  \* is an i/o handler installed?

Sig == 1 .. N

ASSUME SignalsAssumption ==
  /\ N \in Nat
  /\ UseAlarm \subseteq Sig
  /\ Blocks \subseteq 0 .. N
  /\ IoHandler \in BOOLEAN

VARIABLES
  at,       \* main program: "busy", in a blocking "call", or "back" from it
  stack,    \* activations of vsf_sysutil_check_pending_actions
  pending,  \* s_sig_details[i].pending
  running,  \* s_sig_details[i].running, and s_io_handler_running for 0
  alarm,    \* is an alarm set?
  due       \* signals that came and whose handler has not run since (history)

vars == <<at, stack, pending, running, alarm, due>>

Phase == {"test", "disarm", "clear", "body", "left"}
Frame == [i : 0 .. N + 1, phase : Phase]

(***************************************************************************)
(* The type invariant of the framework's state.                            *)
(***************************************************************************)
TypeOK ==
  /\ at \in {"busy", "call", "back"}
  /\ stack \in Seq(Frame)
  /\ pending \in [Sig -> BOOLEAN]
  /\ running \in [0 .. N -> BOOLEAN]
  /\ alarm \in BOOLEAN
  /\ due \subseteq Sig

Init ==
  /\ at = "busy"
  /\ stack = <<>>
  /\ pending = [i \in Sig |-> FALSE]
  /\ running = [i \in 0 .. N |-> FALSE]
  /\ alarm = FALSE
  /\ due = {}

-----------------------------------------------------------------------------
Top == stack[Len(stack)]
Pop == SubSeq(stack, 1, Len(stack) - 1)
SetTop(f) == [stack EXCEPT ![Len(stack)] = f]
Scanning(phase) == at = "busy" /\ stack # <<>> /\ Top.phase = phase

Interrupted == IF at = "call" THEN "back" ELSE at

\* Mutant: the alarm is not set.
SignalQuiet(i) ==
  /\ pending' = [pending EXCEPT ![i] = TRUE]
  /\ due' = due \cup {i}
  /\ at' = Interrupted
  /\ UNCHANGED <<stack, running, alarm>>

\* vsf_sysutil_common_sighandler.  There is no SA_RESTART: a blocking call is
\* interrupted.
Signal(i) ==
  /\ pending' = [pending EXCEPT ![i] = TRUE]
  /\ alarm' = (alarm \/ i \in UseAlarm)
  /\ due' = due \cup {i}
  /\ at' = Interrupted
  /\ UNCHANGED <<stack, running>>

\* vsf_sysutil_alrm_sighandler: interrupts and sets the next alarm.
AlarmFires ==
  /\ alarm
  /\ at = "call"
  /\ at' = "back"
  /\ UNCHANGED <<stack, pending, running, alarm, due>>

\* The main program makes a blocking call ...
Call ==
  /\ at = "busy"
  /\ stack = <<>>
  /\ at' = "call"
  /\ UNCHANGED <<stack, pending, running, alarm, due>>

\* ... which completes, or is interrupted by a signal above.
Ready ==
  /\ at = "call"
  /\ at' = "back"
  /\ UNCHANGED <<stack, pending, running, alarm, due>>

\* After the call the pending actions are checked, the i/o handler first if
\* there is one and the call was I/O.
Check ==
  /\ at = "back"
  /\ at' = "busy"
  /\ \E i \in IF IoHandler THEN {0, 1} ELSE {1} :
       stack' = Append(stack, [i |-> i, phase |-> "test"])
  /\ UNCHANGED <<pending, running, alarm, due>>

\* The handler that the scan looks at has to run.
Wanted(i) ==
  /\ ~running[i]
  /\ i \in Sig => pending[i]

Enter ==
  /\ Scanning("test")
  /\ Top.i <= N
  /\ Wanted(Top.i)
  /\ running' = [running EXCEPT ![Top.i] = TRUE]
  /\ stack' = SetTop([i |-> Top.i,
                      phase |-> IF Top.i = 0 THEN "body" ELSE "disarm"])
  /\ UNCHANGED <<at, pending, alarm, due>>

Skip ==
  /\ Scanning("test")
  /\ Top.i <= N
  /\ ~Wanted(Top.i)
  /\ stack' = SetTop([i |-> Top.i + 1, phase |-> "test"])
  /\ UNCHANGED <<at, pending, running, alarm, due>>

Disarm ==
  /\ Scanning("disarm")
  /\ alarm' = (alarm /\ Top.i \notin UseAlarm)
  /\ stack' = SetTop([i |-> Top.i, phase |-> "clear"])
  /\ UNCHANGED <<at, pending, running, due>>

Clear ==
  /\ Scanning("clear")
  /\ pending' = [pending EXCEPT ![Top.i] = FALSE]
  /\ stack' = SetTop([i |-> Top.i, phase |-> "body"])
  /\ UNCHANGED <<at, running, alarm, due>>

\* Mutant: the pending flag is cleared after the handler.
ClearLate ==
  /\ Scanning("left")
  /\ pending' = [i \in Sig |-> pending[i] /\ i # Top.i]
  /\ running' = [running EXCEPT ![Top.i] = FALSE]
  /\ stack' = SetTop([i |-> Top.i + 1, phase |-> "test"])
  /\ UNCHANGED <<at, alarm, due>>

\* The handler does its work, and may block while doing so.
Body ==
  /\ Scanning("body")
  /\ due' = due \ {Top.i}
  /\ stack' = SetTop([i |-> Top.i, phase |-> "left"])
  /\ at' \in IF Top.i \in Blocks THEN {"busy", "call"} ELSE {"busy"}
  /\ UNCHANGED <<pending, running, alarm>>

Finish ==
  /\ Scanning("left")
  /\ running' = [running EXCEPT ![Top.i] = FALSE]
  /\ stack' = SetTop([i |-> Top.i + 1, phase |-> "test"])
  /\ UNCHANGED <<at, pending, alarm, due>>

Return ==
  /\ Scanning("test")
  /\ Top.i > N
  /\ stack' = Pop
  /\ UNCHANGED <<at, pending, running, alarm, due>>

Program ==
  \/ Call \/ Check
  \/ Enter \/ Skip \/ Disarm \/ Clear \/ Body \/ Finish \/ Return

Next == Program \/ AlarmFires \/ Ready \/ \E i \in Sig : Signal(i)

Spec == Init /\ [][Next]_vars

\* The program runs, a set alarm goes off, and a handler's own calls (on
\* files, or under a timeout) complete.  Neither signals nor the main
\* program's call (a client may never come) are fair.
FairSpec ==
  /\ Spec
  /\ WF_vars(Program)
  /\ WF_vars(AlarmFires)
  /\ WF_vars(stack # <<>> /\ Ready)

-----------------------------------------------------------------------------
Active(k) == stack[k].phase # "test"

(***************************************************************************)
(* "We guarantee that a handler for a given signal is not re-entrant": of  *)
(* all activations of the scan, nested ones included, at most one is in the*)
(* handler of a given signal (or the i/o handler), and its running flag    *)
(* says so; a flag that is set belongs to an activation.                   *)
(***************************************************************************)
NotReentrant ==
  /\ \A j, k \in DOMAIN stack :
       Active(j) /\ Active(k) /\ stack[j].i = stack[k].i => j = k
  /\ \A i \in 0 .. N :
       running[i] <=> \E k \in DOMAIN stack : Active(k) /\ stack[k].i = i

Blocked == at = "call" /\ stack = <<>>
IsLast(i) == i \in UseAlarm \ Blocks /\ \A j \in UseAlarm : j <= i

(***************************************************************************)
(* No lost wake-up for the last use_alarm signal of the scan (SIGCHLD in   *)
(* the listener and in the privileged parent): the program never waits in a*)
(* blocking call with that signal pending and no alarm set.                *)
(***************************************************************************)
LastWakes ==
  \A i \in Sig : IsLast(i) /\ Blocked /\ pending[i] => alarm

(***************************************************************************)
(* A signal that came and was not handled yet is pending, or its handler is*)
(* about to start: the framework never forgets one.                        *)
(***************************************************************************)
NotForgotten ==
  \A i \in due : \/ pending[i]
                 \/ \E k \in DOMAIN stack :
                      stack[k] = [i |-> i, phase |-> "body"]

(***************************************************************************)
(* An exited child is reaped even when no client ever connects again: the  *)
(* last use_alarm signal is always handled.                                *)
(***************************************************************************)
LastHandled ==
  \A i \in Sig : IsLast(i) => (i \in due ~> i \notin due)

=============================================================================

------------------------------- MODULE IdeQueue -------------------------------
(***************************************************************************)
(* The command queue of an IDE controller, src/drivers/ide.cpp: its one    *)
(* entry (MAX_NB_IDE_CMD_QUEUE_ENTRIES) is shared by the clients that wait *)
(* for it and by the interrupt handler, and given back by the last of the  *)
(* two that are done with it.                                              *)
(*                                                                         *)
(* A client runs with interrupts disabled except where it is suspended, so *)
(* what it does between two suspensions is one action; but a signal that   *)
(* wakes a thread of higher priority switches to it, be it inside the      *)
(* interrupt handler, and the rest is done when the thread it interrupted  *)
(* runs again.  (Clients have different priorities only where              *)
(* GAMBIT_HIGH_PRIO is defined; otherwise Urgent is empty.)                *)
(***************************************************************************)
EXTENDS Integers, SequencesExt, PrioQueue

CONSTANTS Clients,
          Urgent    \* the clients of high priority: a program's thread

ASSUME ClientsAssumption == Urgent \subseteq Clients /\ IsFiniteSet(Clients)

VARIABLES
  freelist, \* ctrl->cmd_queue_freelist: 0, or -1 with the entry taken
  entry,    \* ctrl->cmd_queue[0]: refcount, cmd, err
  waiting,  \* the queue of ctrl->cmd_queue_condvar
  done,     \* the queue of entry->done
  doing,    \* doing[c]: the call that c is in
  holds,    \* holds[c]: the command c has in the entry
  device,   \* the command the controller executes, and for whom
  serving,  \* whether the interrupt handler has yet to free the entry
  cut,      \* has_cut_ide_support()
  answer,   \* answer[c]: how the controller ended c's last transfer
  result    \* result[c]: what c's last call returned

vars == <<freelist, entry, waiting, done, doing, holds, device, serving, cut, answer,
          result>>

Transfers == {"read", "write"}
Commands  == Transfers \cup {"flush"}
Errors    == {"NO_ERROR", "UNKNOWN_ERROR"}
Idle      == [cmd |-> "none"]

\* setup_controller: the commands start once the entry is set up, here with
\* the zeroes of a static variable.
Init ==
  /\ freelist = 0
  /\ entry = [refcount |-> 0, cmd |-> "read", err |-> "NO_ERROR"]
  /\ waiting = <<>> /\ done = <<>>
  /\ doing = [c \in Clients |-> "nothing"]
  /\ holds = [c \in Clients |-> "none"]
  /\ device = Idle /\ serving = FALSE
  /\ cut = FALSE
  /\ answer = [c \in Clients |-> "NO_ERROR"]
  /\ result = [c \in Clients |-> "NO_ERROR"]

-----------------------------------------------------------------------------
(* The entry.                                                              *)

\* Mutant: the handler's reference is not counted.
UsersClientOnly == 1

Users == 2  \* the interrupt handler and the client

\* ide_cmd_queue_alloc with the entry on the list, and the command given to
\* the controller, up to the wait for its end.  Of the entry's old contents
\* err is left as it is.
Issue(c, cmd) ==
  /\ freelist' = -1
  /\ entry' = [entry EXCEPT !.refcount = Users, !.cmd = cmd]
  /\ device' = [cmd |-> cmd, by |-> c]
  /\ holds' = [holds EXCEPT ![c] = cmd]
  /\ done' = Append(done, c)

\* condvar_mutexless_wait on ctrl->cmd_queue_condvar
Enqueue(c, queue) == QInsert(c, queue, IF c \in Urgent THEN Clients \ Urgent ELSE {})

\* Mutant: nobody is signalled.
SignalledNone(e) == waiting

\* ide_cmd_queue_free, e being the entry with a reference less: the list, and
\* who still waits after the signal.
ListAfter(e) == IF e.refcount = 0 THEN 0 ELSE freelist
Signalled(e) == IF e.refcount = 0 /\ waiting # <<>> THEN Tail(waiting) ELSE waiting

Dropped == [entry EXCEPT !.refcount = @ - 1]

GiveBack(e) == entry' = e /\ freelist' = ListAfter(e) /\ waiting' = Signalled(e)

-----------------------------------------------------------------------------
(* Clients.                                                                *)

Suspended(c) == c \in ToSet(waiting) \cup ToSet(done)

\* Mutant: a client takes the entry without looking at the list.
AvailableAlways == TRUE
Available == freelist >= 0

\* One round of the loop of ide_cmd_queue_alloc.
TryAlloc(c, cmd) ==
  \/ /\ Available
     /\ Issue(c, cmd)
     /\ UNCHANGED waiting
  \/ /\ ~Available
     /\ waiting' = Enqueue(c, waiting)
     /\ UNCHANGED <<freelist, entry, device, holds, done>>

\* ide_read_sectors, ide_write_sectors
Call(c, cmd) ==
  /\ doing[c] = "nothing"
  /\ doing' = [doing EXCEPT ![c] = cmd]
  /\ TryAlloc(c, cmd)
  /\ UNCHANGED <<serving, cut, answer, result>>

\* c was woken in ide_cmd_queue_alloc, or is about to enter it for a flush;
\* another client may have taken the entry, and c is queued again.
Retry(c) ==
  /\ doing[c] \in Commands /\ holds[c] = "none" /\ ~Suspended(c)
  /\ TryAlloc(c, doing[c])
  /\ UNCHANGED <<doing, serving, cut, answer, result>>

\* c was woken at the end of a read or of a flush.
Return(c) ==
  /\ holds[c] \in {"read", "flush"} /\ ~Suspended(c)
  /\ result' = IF holds[c] = "read" THEN [result EXCEPT ![c] = entry.err] ELSE result
  /\ GiveBack(Dropped)
  /\ holds' = [holds EXCEPT ![c] = "none"]
  /\ doing' = [doing EXCEPT ![c] = "nothing"]
  /\ UNCHANGED <<done, device, serving, cut, answer>>

\* c was woken at the end of a write, whose error it keeps to return it.  It
\* gives the entry back and takes it again for the flush (Retry), before the
\* client that this wakes runs; unless that one is urgent, and c is not.
EndWrite(c) ==
  /\ holds[c] = "write" /\ ~Suspended(c)
  /\ result' = [result EXCEPT ![c] = entry.err]
  /\ doing' = [doing EXCEPT ![c] = "flush"]
  /\ \/ /\ Dropped.refcount = 0 /\ waiting # <<>> /\ Head(waiting) \in Urgent
        /\ c \notin Urgent
        /\ GiveBack(Dropped)
        /\ holds' = [holds EXCEPT ![c] = "none"]
        /\ UNCHANGED <<device, done>>
     \/ /\ Dropped.refcount = 0
        /\ waiting # <<>> => Head(waiting) \notin Urgent \/ c \in Urgent
        /\ Issue(c, "flush")
        /\ waiting' = Signalled(Dropped)
     \/ /\ Dropped.refcount # 0
        /\ entry' = Dropped
        /\ waiting' = Enqueue(c, waiting)
        /\ holds' = [holds EXCEPT ![c] = "none"]
        /\ UNCHANGED <<freelist, device, done>>
  /\ UNCHANGED <<serving, cut, answer>>

-----------------------------------------------------------------------------
(* The controller and its interrupt.                                       *)

\* Mutant: no client is woken.
WokenNone == done

\* condvar_mutexless_signal of entry->done
Woken == IF done = <<>> THEN done ELSE Tail(done)

\* irq14 or irq15, with ide_irq: err is that of the command the entry has;
\* the error of a flush goes nowhere.  An urgent client that is woken may run
\* before the handler frees the entry.
Interrupt(err) ==
  LET e == [entry EXCEPT !.err = IF entry.cmd = "flush" THEN @ ELSE err]
  IN  /\ device # Idle /\ ~cut
      /\ device' = Idle
      /\ answer' = IF device.cmd = "flush" THEN answer
                   ELSE [answer EXCEPT ![device.by] = err]
      /\ done' = Woken
      /\ \/ GiveBack([e EXCEPT !.refcount = @ - 1]) /\ UNCHANGED serving
         \/ /\ done # <<>> /\ Head(done) \in Urgent
            /\ entry' = e /\ serving' = TRUE
            /\ UNCHANGED <<freelist, waiting>>
      /\ UNCHANGED <<doing, holds, cut, result>>

\* The rest of ide_irq.
EndInterrupt ==
  /\ serving /\ serving' = FALSE
  /\ GiveBack(Dropped)
  /\ UNCHANGED <<done, doing, holds, device, cut, answer, result>>

\* With IDE support cut, the interrupt goes to the Scheme driver, and a
\* command of this one is never answered.
InterruptElsewhere ==
  /\ device # Idle /\ cut
  /\ device' = Idle
  /\ UNCHANGED <<freelist, entry, waiting, done, doing, holds, serving, cut, answer,
                 result>>

\* cut_ide_support, when the Scheme program opens "/cut"
CutIdeSupport ==
  /\ ~cut /\ cut' = TRUE
  /\ UNCHANGED <<freelist, entry, waiting, done, doing, holds, device, serving, answer,
                 result>>

-----------------------------------------------------------------------------

Client(c) == Retry(c) \/ Return(c) \/ EndWrite(c)

Controller == (\E err \in Errors : Interrupt(err)) \/ InterruptElsewhere

Next == \/ \E c \in Clients : (\E cmd \in Transfers : Call(c, cmd)) \/ Client(c)
        \/ Controller
        \/ EndInterrupt
        \/ CutIdeSupport

\* A thread that is ready runs, the one that was interrupted included
\* (ReadyRuns of module Scheduler, provided that urgent clients do not compute
\* for ever), and the controller ends the commands it is given.
Fairness == /\ \A c \in Clients : WF_vars(Client(c))
            /\ WF_vars(EndInterrupt)
            /\ WF_vars(Controller)

Spec == Init /\ [][Next]_vars /\ Fairness

-----------------------------------------------------------------------------
(* Properties.                                                             *)

\* The variables have their types.
TypeOK ==
  /\ freelist \in {-1, 0}
  /\ entry \in [refcount : 0 .. Users, cmd : Commands, err : Errors]
  /\ waiting \in Seq(Clients) /\ done \in Seq(Clients)
  /\ doing \in [Clients -> Commands \cup {"nothing"}]
  /\ holds \in [Clients -> Commands \cup {"none"}]
  /\ device \in {Idle} \cup [cmd : Commands, by : Clients]
  /\ serving \in BOOLEAN /\ cut \in BOOLEAN
  /\ answer \in [Clients -> Errors] /\ result \in [Clients -> Errors]

\* The entry is on the free list exactly when neither the client whose command
\* it has nor the interrupt handler uses it any more, in whatever order they
\* free it; the controller works on nothing else; and with the entry free, no
\* client waits for it unless another one was woken and is about to look again.
EntryExact ==
  /\ entry.refcount = Cardinality({c \in Clients : holds[c] # "none"})
                      + Len(done) + (IF serving THEN 1 ELSE 0)
  /\ (freelist = 0) <=> (entry.refcount = 0)
  /\ device # Idle =>
       /\ entry.cmd = device.cmd /\ done = <<device.by>> /\ ~serving
       /\ \A c \in Clients : holds[c] = IF c = device.by THEN device.cmd ELSE "none"
  /\ freelist = 0 /\ waiting # <<>> =>
       \E c \in Clients : doing[c] # "nothing" /\ ~Suspended(c)

\* A call returns the error with which the controller ended that call's own
\* transfer, whoever uses the entry in between.
OwnResult == \A c \in Clients : doing[c] = "nothing" => result[c] = answer[c]

\* A command that has the entry ends: the interrupt wakes the client that
\* waits for it, and the client and the handler both free the entry; unless IDE
\* support is cut meanwhile.
CommandEnds ==
  \A c \in Clients : holds[c] # "none" ~> (freelist = 0 /\ holds[c] = "none") \/ cut

=============================================================================

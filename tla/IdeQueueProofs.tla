--------------------------- MODULE IdeQueueProofs ---------------------------
(***************************************************************************)
(* The command queue of an IDE controller, for any finite set of clients,  *)
(* any of them urgent.  The invariant follows the one entry through its    *)
(* use: free; being executed; ended, with its client and possibly the      *)
(* interrupt handler still to free it; left to the handler by its client.  *)
(***************************************************************************)
EXTENDS IdeQueue, PrioQueueProofs, FiniteSetTheorems, SequenceTheorems, TLAPS

(* Who has the entry.                                                      *)
Nobody   == \A c \in Clients : holds[c] = "none"
Alone(c) == \A d \in Clients : holds[d] # "none" <=> d = c

Unused ==
  /\ entry.refcount = 0 /\ freelist = 0 /\ device = Idle /\ ~serving
  /\ done = <<>> /\ Nobody

Executing(c) ==
  /\ entry.refcount = 2 /\ freelist = -1 /\ ~serving
  /\ done = <<c>> /\ Alone(c) /\ entry.cmd = holds[c]
  /\ device = Idle \/ device = [cmd |-> holds[c], by |-> c]

Ended(c) ==
  /\ entry.refcount = (IF serving THEN 2 ELSE 1) /\ freelist = -1 /\ device = Idle
  /\ done = <<>> /\ Alone(c) /\ entry.cmd = holds[c]

Left ==
  /\ entry.refcount = 1 /\ freelist = -1 /\ device = Idle /\ serving
  /\ done = <<>> /\ Nobody

Phases == Unused \/ Left \/ \E c \in Clients : Executing(c) \/ Ended(c)

(* Whose transfer ended how.                                               *)
Results ==
  \A c \in Clients :
    /\ doing[c] = "nothing" => holds[c] = "none"
    /\ holds[c] \notin Transfers => result[c] = answer[c]
    /\ holds[c] \in Transfers /\ done = <<>> => entry.err = answer[c]

(* Who waits, once each, and who will look at a free entry.                *)
Waiters ==
  /\ IsInjective(waiting)
  /\ \A c \in ToSet(waiting) : doing[c] # "nothing" /\ holds[c] = "none"
  /\ freelist = 0 /\ waiting # <<>> =>
       \E c \in Clients : doing[c] # "nothing" /\ ~Suspended(c)

Inv == TypeOK /\ Phases /\ Results /\ Waiters

-----------------------------------------------------------------------------
(* The queues.                                                             *)

LEMMA OneWaits ==
  \A c : /\ Append(<<>>, c) = <<c>> /\ Tail(<<c>>) = <<>> /\ Head(<<c>>) = c
         /\ <<c>> # <<>> /\ Len(<<c>>) = 1 /\ Len(<<>>) = 0
OBVIOUS

LEMMA OneIsIn ==
  /\ ToSet(<<>>) = {}
  /\ \A c : ToSet(<<c>>) = {c}
BY DEF ToSet

(* A signal takes the head of the queue, once and for all.                 *)
LEMMA SignalledSpec ==
  ASSUME waiting \in Seq(Clients), IsInjective(waiting), NEW e
  PROVE  /\ Signalled(e) \in Seq(Clients)
         /\ IsInjective(Signalled(e))
         /\ ToSet(Signalled(e)) \subseteq ToSet(waiting)
         /\ e.refcount = 0 /\ waiting # <<>> =>
              Head(waiting) \in ToSet(waiting) \ ToSet(Signalled(e))
         /\ waiting = <<>> => Signalled(e) = <<>>
<1>1. CASE e.refcount = 0 /\ waiting # <<>>
  <2>1. /\ Signalled(e) = Tail(waiting) /\ Tail(waiting) \in Seq(Clients)
        /\ Len(waiting) \in Nat /\ Len(waiting) > 0
        /\ Len(Tail(waiting)) = Len(waiting) - 1
        /\ \A i \in 1..Len(Tail(waiting)) : Tail(waiting)[i] = waiting[i + 1]
        /\ Head(waiting) = waiting[1]
    BY <1>1 DEF Signalled
  <2>2. IsInjective(Tail(waiting))
    BY <2>1 DEF IsInjective
  <2>3. ToSet(Tail(waiting)) \subseteq ToSet(waiting)
    BY <2>1 DEF ToSet
  <2>4. waiting[1] \notin ToSet(Tail(waiting)) /\ waiting[1] \in ToSet(waiting)
    BY <2>1 DEF ToSet, IsInjective
  <2>5. QED
    BY <1>1, <2>1, <2>2, <2>3, <2>4
<1>2. CASE ~(e.refcount = 0 /\ waiting # <<>>)
  BY <1>2 DEF Signalled
<1>3. QED
  BY <1>1, <1>2

LEMMA EnqueueSpec ==
  ASSUME waiting \in Seq(Clients), NEW c \in Clients
  PROVE  /\ Enqueue(c, waiting) \in Seq(Clients)
         /\ ToSet(Enqueue(c, waiting)) = ToSet(waiting) \cup {c}
         /\ IsInjective(waiting) /\ c \notin ToSet(waiting)
              => IsInjective(Enqueue(c, waiting))
BY QInsertSpec DEF Enqueue

-----------------------------------------------------------------------------
(* The invariant.                                                          *)

LEMMA Values ==
  /\ Commands = {"read", "write", "flush"} /\ Users = 2
  /\ <<>> \in Seq(Clients)
BY DEF Commands, Transfers, Users

LEMMA InitInv == Init => Inv
<1> SUFFICES ASSUME Init PROVE Inv
  OBVIOUS
<1>1. TypeOK
  <2>1. entry \in [refcount : 0..Users, cmd : Commands, err : Errors]
    <3>1. 0 \in 0..Users /\ "read" \in Commands /\ "NO_ERROR" \in Errors
      BY Values DEF Errors
    <3>2. QED
      BY <3>1 DEF Init
  <2>2. /\ answer \in [Clients -> Errors] /\ result \in [Clients -> Errors]
        /\ doing \in [Clients -> Commands \cup {"nothing"}]
        /\ holds \in [Clients -> Commands \cup {"none"}]
    BY DEF Init, Errors
  <2>3. QED
    BY <2>1, <2>2, Values DEF Init, TypeOK
<1>2. Unused
  BY DEF Init, Unused, Nobody
<1>3. Results
  BY DEF Init, Results, Transfers
<1>4. Waiters
  BY <1>2, OneIsIn DEF Init, Waiters, IsInjective
<1>5. QED
  BY <1>1, <1>2, <1>3, <1>4 DEF Inv, Phases

(* The free entry has nobody's command in it, and the one phase in which   *)
(* the list has it is that one.                                            *)
LEMMA FreeIsUnused == Inv => (freelist >= 0 => Unused)
BY DEF Inv, TypeOK, Phases, Unused, Left, Executing, Ended

(* One round of the loop of ide_cmd_queue_alloc.                           *)
LEMMA TryAllocInv ==
  ASSUME Inv, NEW c \in Clients, NEW cmd \in Commands, TryAlloc(c, cmd),
         holds[c] = "none", c \notin ToSet(waiting),
         doing' \in [Clients -> Commands \cup {"nothing"}], doing'[c] # "nothing",
         \A d \in Clients : d # c => doing'[d] = doing[d],
         UNCHANGED <<serving, cut, answer, result>>
  PROVE  Inv'
<1>1. CASE Available /\ Issue(c, cmd) /\ UNCHANGED waiting
  <2>1. Unused
    BY <1>1, FreeIsUnused DEF Available
  <2>2. done' = <<c>>
    BY <1>1, <2>1, OneWaits DEF Issue, Unused
  <2>3. TypeOK'
    <3>1. freelist' = -1 /\ waiting' = waiting /\ done' \in Seq(Clients)
      BY <1>1, <2>2 DEF Issue
    <3>2. entry' \in [refcount : 0..Users, cmd : Commands, err : Errors]
      <4>1. Users \in 0..Users
        BY Values
      <4>2. QED
        BY <1>1, <4>1 DEF Inv, TypeOK, Issue
    <3>3. holds' \in [Clients -> Commands \cup {"none"}]
      BY <1>1 DEF Inv, TypeOK, Issue
    <3>4. device' \in [cmd : Commands, by : Clients]
      BY <1>1 DEF Issue
    <3>5. QED
      BY <3>1, <3>2, <3>3, <3>4 DEF Inv, TypeOK
  <2>4. Executing(c)'
    BY <1>1, <2>1, <2>2 DEF Inv, TypeOK, Unused, Nobody, Executing, Alone, Issue, Users,
       Commands, Transfers
  <2>5. Results'
    <3>1. \A d \in Clients : d # c => holds'[d] = "none"
      BY <1>1, <2>1 DEF Inv, TypeOK, Unused, Nobody, Issue
    <3>2. holds'[c] = cmd /\ holds[c] \notin Transfers
      BY <1>1 DEF Inv, TypeOK, Issue, Transfers
    <3>3. \A d \in Clients : d # c => holds'[d] = holds[d]
      BY <1>1 DEF Inv, TypeOK, Issue
    <3>4. ASSUME NEW d \in Clients
          PROVE  /\ doing'[d] = "nothing" => holds'[d] = "none"
                 /\ holds'[d] \notin Transfers => result'[d] = answer'[d]
                 /\ ~(holds'[d] \in Transfers /\ done' = <<>>)
      BY <2>2, <3>1, <3>2, <3>3, OneWaits DEF Inv, Results
    <3>5. QED
      BY <3>4 DEF Results
  <2>6. Waiters'
    <3>1. freelist' # 0 /\ waiting' = waiting
      BY <1>1 DEF Issue
    <3>2. \A d \in ToSet(waiting) : d # c /\ d \in Clients
      BY DEF Inv, TypeOK, ToSet
    <3>3. \A d \in ToSet(waiting) : doing'[d] # "nothing" /\ holds'[d] = "none"
      BY <1>1, <3>2 DEF Inv, TypeOK, Waiters, Issue
    <3>4. QED
      BY <3>1, <3>3 DEF Inv, Waiters
  <2>7. QED
    BY <2>3, <2>4, <2>5, <2>6 DEF Inv, Phases
<1>2. CASE /\ ~Available /\ waiting' = Enqueue(c, waiting)
           /\ UNCHANGED <<freelist, entry, device, holds, done>>
  <2>1. TypeOK'
    BY <1>2, EnqueueSpec DEF Inv, TypeOK
  <2>2. Phases'
    BY <1>2 DEF Inv, Phases, Unused, Left, Executing, Ended, Nobody, Alone
  <2>3. Results'
    BY <1>2 DEF Inv, Results
  <2>4. freelist # 0
    BY <1>2 DEF Available
  <2>5. Waiters'
    <3>1. /\ IsInjective(waiting') /\ ToSet(waiting') = ToSet(waiting) \cup {c}
      BY <1>2, EnqueueSpec DEF Inv, TypeOK, Waiters
    <3>2. \A d \in ToSet(waiting) : d # c /\ d \in Clients
      BY DEF Inv, TypeOK, ToSet
    <3>3. \A d \in ToSet(waiting') : doing'[d] # "nothing" /\ holds'[d] = "none"
      BY <1>2, <3>1, <3>2 DEF Inv, Waiters
    <3>4. QED
      BY <1>2, <2>4, <3>1, <3>3 DEF Waiters
  <2>6. QED
    BY <2>1, <2>2, <2>3, <2>5 DEF Inv
<1>3. QED
  BY <1>1, <1>2 DEF TryAlloc

LEMMA CallInv ==
  ASSUME Inv, NEW c \in Clients, NEW cmd \in Transfers, Call(c, cmd)
  PROVE  Inv'
<1>1. holds[c] = "none" /\ c \notin ToSet(waiting)
  BY DEF Inv, Call, Results, Waiters
<1>2. /\ doing' \in [Clients -> Commands \cup {"nothing"}] /\ doing'[c] # "nothing"
      /\ \A d \in Clients : d # c => doing'[d] = doing[d]
  BY DEF Inv, TypeOK, Call, Commands, Transfers
<1>3. QED
  BY <1>1, <1>2, TryAllocInv DEF Call, Commands

LEMMA RetryInv ==
  ASSUME Inv, NEW c \in Clients, Retry(c)
  PROVE  Inv'
<1>1. holds[c] = "none" /\ c \notin ToSet(waiting) /\ doing[c] \in Commands
  BY DEF Retry, Suspended
<1>2. doing[c] # "nothing" /\ doing' = doing
  BY <1>1 DEF Retry, Commands, Transfers
<1>3. QED
  BY <1>1, <1>2, TryAllocInv DEF Inv, TypeOK, Retry

(* A reference less.                                                       *)
LEMMA DroppedSpec ==
  ASSUME TypeOK, entry.refcount # 0
  PROVE  /\ Dropped \in [refcount : 0..Users, cmd : Commands, err : Errors]
         /\ Dropped.refcount = entry.refcount - 1
         /\ Dropped.cmd = entry.cmd /\ Dropped.err = entry.err
BY Values DEF TypeOK, Dropped

(* The signal of ide_cmd_queue_free: whoever it wakes looks at the entry.  *)
LEMMA FreedWaiters ==
  ASSUME Inv, freelist # 0, NEW e, waiting' = Signalled(e),
         freelist' = 0 => e.refcount = 0 /\ done' = <<>>,
         \A d \in ToSet(waiting) : doing'[d] = doing[d] /\ holds'[d] = holds[d]
  PROVE  Waiters' /\ waiting' \in Seq(Clients)
<1>1. /\ waiting' \in Seq(Clients) /\ IsInjective(waiting')
      /\ ToSet(waiting') \subseteq ToSet(waiting)
      /\ e.refcount = 0 /\ waiting # <<>> =>
           Head(waiting) \in ToSet(waiting) \ ToSet(waiting')
      /\ waiting = <<>> => waiting' = <<>>
  BY SignalledSpec DEF Inv, TypeOK, Waiters
<1>2. \A d \in ToSet(waiting) : d \in Clients /\ doing'[d] # "nothing" /\ holds'[d] = "none"
  BY DEF Inv, TypeOK, Waiters, ToSet
<1>3. ASSUME freelist' = 0, waiting' # <<>>
      PROVE  \E d \in Clients : doing'[d] # "nothing" /\ ~Suspended(d)'
  <2>1. Head(waiting) \in ToSet(waiting) \ ToSet(waiting') /\ ToSet(done') = {}
    BY <1>1, <1>3, OneIsIn
  <2>2. QED
    BY <1>2, <2>1 DEF Suspended
<1>4. QED
  BY <1>1, <1>2, <1>3 DEF Waiters

(* A client that runs with the entry: its command has ended.               *)
LEMMA RunsEnded ==
  ASSUME Inv, NEW c \in Clients, holds[c] # "none", ~Suspended(c)
  PROVE  Ended(c) /\ c \notin ToSet(waiting)
<1>1. PICK d \in Clients : Executing(d) \/ Ended(d)
  BY DEF Inv, Phases, Unused, Left, Nobody
<1>2. d = c
  BY <1>1 DEF Executing, Ended, Alone
<1>3. ~Executing(c)
  BY OneIsIn DEF Executing, Suspended
<1>4. QED
  BY <1>1, <1>2, <1>3 DEF Suspended

LEMMA ReturnInv ==
  ASSUME Inv, NEW c \in Clients, Return(c)
  PROVE  Inv'
<1>1. Ended(c) /\ c \notin ToSet(waiting) /\ holds[c] # "none"
  BY RunsEnded DEF Return
<1>2. entry.refcount # 0 /\ freelist = -1 /\ done' = <<>>
  BY <1>1 DEF Ended, Return
<1>3. \A d \in Clients : d # c => /\ holds[d] = "none" /\ holds'[d] = "none"
                                  /\ doing'[d] = doing[d] /\ result'[d] = result[d]
  BY <1>1 DEF Inv, TypeOK, Return, Ended, Alone
<1>4. holds'[c] = "none" /\ doing'[c] = "nothing"
  BY DEF Inv, TypeOK, Return
<1>5. \A d \in ToSet(waiting) : d # c /\ d \in Clients
  BY <1>1 DEF Inv, TypeOK, ToSet
<1>6. Waiters' /\ waiting' \in Seq(Clients)
  <2>1. freelist' = 0 => Dropped.refcount = 0
    BY <1>2 DEF Return, GiveBack, ListAfter
  <2>2. QED
    BY <1>2, <1>3, <1>5, <2>1, FreedWaiters DEF Return, GiveBack
<1>7. TypeOK'
  <2>1. result' \in [Clients -> Errors]
    BY DEF Inv, TypeOK, Return
  <2>2. freelist' \in {-1, 0}
    BY <1>2 DEF Return, GiveBack, ListAfter
  <2>3. /\ holds' \in [Clients -> Commands \cup {"none"}]
        /\ doing' \in [Clients -> Commands \cup {"nothing"}]
    BY DEF Inv, TypeOK, Return
  <2>4. entry' = Dropped /\ UNCHANGED <<done, device, serving, cut, answer>>
    BY DEF Return, GiveBack
  <2>5. QED
    BY <1>2, <1>6, <2>1, <2>2, <2>3, <2>4, DroppedSpec DEF Inv, TypeOK
<1>8. Phases'
  <2>1. Nobody'
    BY <1>3, <1>4 DEF Nobody
  <2>2. entry'.refcount = (IF serving THEN 1 ELSE 0)
    BY <1>1, <1>2, DroppedSpec DEF Inv, Return, GiveBack, Ended
  <2>3. freelist' = IF serving THEN -1 ELSE 0
    BY <1>2, <2>2 DEF Return, GiveBack, ListAfter
  <2>4. QED
    BY <1>1, <1>2, <2>1, <2>2, <2>3 DEF Phases, Unused, Left, Ended, Return
<1>9. Results'
  <2>1. result'[c] = answer[c]
    BY <1>1, <1>2 DEF Inv, TypeOK, Results, Return, Ended, Transfers
  <2>2. answer' = answer /\ "none" \notin Transfers
    BY DEF Return, Transfers
  <2>3. QED
    BY <1>3, <1>4, <2>1, <2>2 DEF Inv, Results
<1>10. QED
  BY <1>6, <1>7, <1>8, <1>9 DEF Inv

LEMMA EndWriteInv ==
  ASSUME Inv, NEW c \in Clients, EndWrite(c)
  PROVE  Inv'
<1>1. /\ Ended(c) /\ c \notin ToSet(waiting) /\ holds[c] = "write"
      /\ holds[c] \in Transfers /\ "none" \notin Transfers /\ "flush" \notin Transfers
  <2>1. holds[c] = "write" /\ ~Suspended(c) /\ holds[c] # "none"
    BY DEF EndWrite
  <2>2. QED
    BY <2>1, RunsEnded DEF Transfers
<1>2. entry.refcount # 0 /\ freelist = -1 /\ done = <<>> /\ device = Idle
  BY <1>1 DEF Ended
<1>3. /\ doing' = [doing EXCEPT ![c] = "flush"] /\ doing'[c] = "flush"
      /\ result' = [result EXCEPT ![c] = entry.err] /\ result'[c] = answer[c]
      /\ UNCHANGED <<serving, cut, answer>>
  BY <1>1, <1>2 DEF Inv, TypeOK, Results, EndWrite
<1>4. \A d \in Clients : d # c => /\ holds[d] = "none" /\ doing'[d] = doing[d]
                                  /\ result'[d] = result[d]
  BY <1>1, <1>3 DEF Inv, TypeOK, Ended, Alone
<1>5. \A d \in ToSet(waiting) : d # c /\ d \in Clients
  BY <1>1 DEF Inv, TypeOK, ToSet
<1>6. /\ doing' \in [Clients -> Commands \cup {"nothing"}]
      /\ result' \in [Clients -> Errors]
      /\ cut' \in BOOLEAN /\ serving' \in BOOLEAN /\ answer' \in [Clients -> Errors]
  BY <1>3, Values DEF Inv, TypeOK
<1>7. ASSUME holds' = [holds EXCEPT ![c] = "none"]
      PROVE  /\ holds' \in [Clients -> Commands \cup {"none"}] /\ Nobody' /\ Results'
  <2>1. \A d \in Clients : holds'[d] = "none"
    BY <1>4, <1>7 DEF Inv, TypeOK
  <2>2. QED
    BY <1>1, <1>3, <1>4, <1>7, <2>1 DEF Inv, TypeOK, Results, Nobody
<1>8. CASE /\ GiveBack(Dropped) /\ Dropped.refcount = 0
           /\ holds' = [holds EXCEPT ![c] = "none"] /\ UNCHANGED <<device, done>>
  <2>1. freelist' = 0 /\ entry' = Dropped /\ entry'.refcount = 0 /\ ~serving
    BY <1>1, <1>2, <1>8, DroppedSpec DEF Inv, TypeOK, GiveBack, ListAfter, Ended
  <2>2. Waiters' /\ waiting' \in Seq(Clients)
    <3>1. \A d \in ToSet(waiting) : doing'[d] = doing[d] /\ holds'[d] = holds[d]
      BY <1>4, <1>5, <1>7, <1>8 DEF Nobody
    <3>2. QED
      BY <1>2, <1>8, <3>1, FreedWaiters DEF GiveBack
  <2>3. Unused'
    BY <1>2, <1>3, <1>7, <1>8, <2>1 DEF Unused
  <2>4. TypeOK'
    BY <1>2, <1>6, <1>7, <1>8, <2>1, <2>2, DroppedSpec DEF Inv, TypeOK
  <2>5. QED
    BY <1>7, <1>8, <2>2, <2>3, <2>4 DEF Inv, Phases
<1>9. CASE Dropped.refcount = 0 /\ Issue(c, "flush") /\ waiting' = Signalled(Dropped)
  <2>1. /\ freelist' = -1 /\ done' = <<c>> /\ done' # <<>> /\ ~serving
        /\ device' = [cmd |-> "flush", by |-> c]
        /\ holds' = [holds EXCEPT ![c] = "flush"]
        /\ entry' = [entry EXCEPT !.refcount = 2, !.cmd = "flush"]
    BY <1>1, <1>2, <1>9, OneWaits, DroppedSpec, Values DEF Inv, TypeOK, Issue, Ended
  <2>2. holds'[c] = "flush" /\ \A d \in Clients : d # c => holds'[d] = "none"
    BY <1>4, <2>1 DEF Inv, TypeOK
  <2>3. Waiters' /\ waiting' \in Seq(Clients)
    <3>1. \A d \in ToSet(waiting) : doing'[d] = doing[d] /\ holds'[d] = holds[d]
      BY <1>4, <1>5, <2>2
    <3>2. QED
      BY <1>2, <1>9, <2>1, <3>1, FreedWaiters
  <2>4. TypeOK'
    <3>1. "flush" \in Commands /\ 2 \in 0..Users
      BY Values
    <3>2. /\ entry' \in [refcount : 0..Users, cmd : Commands, err : Errors]
          /\ holds' \in [Clients -> Commands \cup {"none"}]
          /\ device' \in [cmd : Commands, by : Clients]
          /\ done' \in Seq(Clients)
      <4>1. entry' \in [refcount : 0..Users, cmd : Commands, err : Errors]
        BY <2>1, <3>1 DEF Inv, TypeOK
      <4>2. holds' \in [Clients -> Commands \cup {"none"}]
        BY <2>1, <3>1 DEF Inv, TypeOK
      <4>3. device' \in [cmd : Commands, by : Clients] /\ done' \in Seq(Clients)
        BY <2>1, <3>1
      <4>4. QED
        BY <4>1, <4>2, <4>3
    <3>3. QED
      BY <1>6, <2>1, <2>3, <3>2 DEF TypeOK
  <2>5. Executing(c)'
    <3>1. entry'.refcount = 2 /\ entry'.cmd = "flush"
      BY <2>1 DEF Inv, TypeOK
    <3>2. Alone(c)'
      BY <2>2 DEF Alone
    <3>3. QED
      BY <1>3, <2>1, <2>2, <3>1, <3>2 DEF Executing
  <2>6. Results'
    BY <1>1, <1>3, <1>4, <2>1, <2>2 DEF Inv, Results
  <2>7. QED
    BY <2>3, <2>4, <2>5, <2>6 DEF Inv, Phases
<1>10. CASE /\ Dropped.refcount # 0 /\ entry' = Dropped
            /\ waiting' = Enqueue(c, waiting)
            /\ holds' = [holds EXCEPT ![c] = "none"]
            /\ UNCHANGED <<freelist, device, done>>
  <2>1. serving /\ entry'.refcount = 1
    BY <1>1, <1>2, <1>10, DroppedSpec DEF Inv, Ended
  <2>2. Left'
    BY <1>2, <1>3, <1>7, <1>10, <2>1 DEF Left
  <2>3. /\ IsInjective(waiting') /\ ToSet(waiting') = ToSet(waiting) \cup {c}
        /\ waiting' \in Seq(Clients)
    BY <1>1, <1>10, EnqueueSpec DEF Inv, TypeOK, Waiters
  <2>4. Waiters'
    <3>1. \A d \in ToSet(waiting') : doing'[d] # "nothing" /\ holds'[d] = "none"
      BY <1>3, <1>4, <1>5, <1>7, <1>10, <2>3 DEF Inv, Waiters, Nobody
    <3>2. QED
      BY <1>2, <1>10, <2>3, <3>1 DEF Waiters
  <2>5. TypeOK'
    BY <1>2, <1>6, <1>7, <1>10, <2>3, DroppedSpec DEF Inv, TypeOK
  <2>6. QED
    BY <1>7, <1>10, <2>2, <2>4, <2>5 DEF Inv, Phases
<1>11. QED
  BY <1>8, <1>9, <1>10 DEF EndWrite

(* The interrupt handler runs while the controller executes a command.     *)
LEMMA BusyExecutes ==
  ASSUME Inv, device # Idle
  PROVE  Executing(device.by) /\ device.by \in Clients /\ device.cmd = holds[device.by]
<1>1. PICK c \in Clients : Executing(c) \/ Ended(c)
  BY DEF Inv, Phases, Unused, Left
<1>2. Executing(c) /\ device = [cmd |-> holds[c], by |-> c]
  BY <1>1 DEF Executing, Ended
<1>3. QED
  BY <1>2

LEMMA InterruptFor ==
  ASSUME Inv, NEW err \in Errors, Interrupt(err), NEW c \in Clients, device.by = c
  PROVE  Inv'
<1> DEFINE e == [entry EXCEPT !.err = IF entry.cmd = "flush" THEN @ ELSE err]
<1>1. /\ Executing(c) /\ device.cmd = holds[c]
      /\ device' = Idle
  BY BusyExecutes DEF Interrupt
<1>2. /\ entry.refcount = 2 /\ freelist = -1 /\ ~serving /\ done = <<c>>
      /\ Alone(c) /\ entry.cmd = holds[c] /\ done' = <<>>
  <2>1. Executing(c)
    BY <1>1
  <2>2. entry.refcount = 2 /\ freelist = -1 /\ ~serving /\ done = <<c>>
        /\ Alone(c) /\ entry.cmd = holds[c]
    BY <2>1 DEF Executing
  <2>3. done' = <<>>
    BY <2>2, OneWaits DEF Interrupt, Woken
  <2>4. QED
    BY <2>2, <2>3
<1>3. UNCHANGED <<doing, holds, cut, result>>
  BY DEF Interrupt
<1>4. /\ e \in [refcount : 0..Users, cmd : Commands, err : Errors]
      /\ e.refcount = 2 /\ e.cmd = holds[c]
      /\ holds[c] \in Transfers => e.err = err
  <2>1. e \in [refcount : 0..Users, cmd : Commands, err : Errors]
    BY DEF Inv, TypeOK
  <2>2. e.refcount = 2 /\ e.cmd = holds[c]
    BY <1>2 DEF Inv, TypeOK
  <2>3. holds[c] \in Transfers => entry.cmd # "flush"
    BY <1>2 DEF Transfers
  <2>4. entry.cmd # "flush" => e.err = err
    BY DEF Inv, TypeOK
  <2>5. QED
    BY <2>1, <2>2, <2>3, <2>4
<1>5. answer' = IF holds[c] = "flush" THEN answer ELSE [answer EXCEPT ![c] = err]
  BY <1>1 DEF Interrupt
<1>6. /\ answer' \in [Clients -> Errors]
      /\ \A d \in Clients : holds[d] \notin Transfers => answer'[d] = answer[d]
      /\ \A d \in Clients : holds[d] \in Transfers => d = c /\ answer'[d] = err
  <2>1. holds[c] \in {"read", "write", "flush"}
    BY <1>1, <1>2, Values DEF Inv, TypeOK, Alone
  <2>2. \A d \in Clients : holds[d] \in Transfers => d = c
    BY <1>2 DEF Alone, Transfers
  <2>3. CASE holds[c] = "flush"
    BY <1>5, <2>2, <2>3 DEF Inv, TypeOK, Transfers
  <2>4. CASE holds[c] # "flush"
    BY <1>1, <1>5, <2>1, <2>2, <2>4 DEF Inv, TypeOK, Transfers
  <2>5. QED
    BY <2>3, <2>4
<1>7. ASSUME entry'.err = e.err PROVE Results'
  <2>1. \A d \in Clients : holds[d] \in Transfers => entry'.err = answer'[d]
    BY <1>4, <1>6, <1>7
  <2>2. QED
    BY <1>3, <1>6, <2>1 DEF Inv, Results
<1>8. CASE /\ GiveBack([e EXCEPT !.refcount = @ - 1]) /\ UNCHANGED serving
  <2>1. /\ entry' = [e EXCEPT !.refcount = 1]
        /\ freelist' = -1 /\ waiting' = waiting /\ ~serving'
    <3>1. [e EXCEPT !.refcount = @ - 1] = [e EXCEPT !.refcount = 1]
      <4>1. e.refcount - 1 = 1
        BY <1>4
      <4>2. QED
        BY <4>1
    <3>2. [e EXCEPT !.refcount = 1].refcount = 1
      BY <1>4
    <3>3. QED
      BY <1>2, <1>8, <3>1, <3>2 DEF GiveBack, ListAfter, Signalled
  <2>2. /\ entry' \in [refcount : 0..Users, cmd : Commands, err : Errors]
        /\ entry'.refcount = 1 /\ entry'.cmd = holds[c] /\ entry'.err = e.err
    <3> HIDE DEF e
    <3>1. 1 \in 0..Users
      BY Values
    <3>2. QED
      BY <1>4, <2>1, <3>1
  <2>3. Ended(c)'
    BY <1>1, <1>2, <1>3, <2>1, <2>2 DEF Ended, Alone
  <2>4. TypeOK'
    <3>1. freelist' \in {-1, 0} /\ device' \in {Idle} /\ done' \in Seq(Clients)
      BY <1>1, <1>2, <2>1, Values
    <3>2. /\ serving' \in BOOLEAN /\ answer' \in [Clients -> Errors]
          /\ UNCHANGED <<waiting, doing, holds, cut, result>>
      BY <1>3, <1>6, <1>8, <2>1 DEF Inv, TypeOK
    <3>3. QED
      BY <2>2, <3>1, <3>2 DEF Inv, TypeOK
  <2>5. Waiters'
    BY <1>2, <1>3, <2>1 DEF Inv, Waiters
  <2>6. QED
    BY <1>7, <2>2, <2>3, <2>4, <2>5 DEF Inv, Phases
<1>9. CASE entry' = e /\ serving' = TRUE /\ UNCHANGED <<freelist, waiting>>
  <2>1. Ended(c)'
    BY <1>1, <1>2, <1>3, <1>4, <1>9 DEF Ended, Alone
  <2>2. TypeOK'
    BY <1>1, <1>2, <1>3, <1>4, <1>6, <1>9, Values DEF Inv, TypeOK
  <2>3. Waiters'
    BY <1>2, <1>3, <1>9 DEF Inv, Waiters
  <2>4. QED
    BY <1>7, <1>9, <2>1, <2>2, <2>3 DEF Inv, Phases
<1>10. QED
  BY <1>8, <1>9 DEF Interrupt

LEMMA InterruptInv ==
  ASSUME Inv, NEW err \in Errors, Interrupt(err)
  PROVE  Inv'
BY BusyExecutes, InterruptFor DEF Interrupt

(* The handler frees the entry after the urgent client it woke ran.        *)
LEMMA EndInterruptInv ==
  ASSUME Inv, EndInterrupt
  PROVE  Inv'
<1>1. /\ serving /\ serving' = FALSE /\ entry' = Dropped
      /\ freelist' = ListAfter(Dropped) /\ waiting' = Signalled(Dropped)
      /\ UNCHANGED <<done, doing, holds, device, cut, answer, result>>
  BY DEF EndInterrupt, GiveBack
<1>2. Left \/ \E c \in Clients : Ended(c)
  BY <1>1 DEF Inv, Phases, Unused, Executing
<1>3. freelist = -1 /\ entry.refcount # 0 /\ done = <<>> /\ device = Idle
  BY <1>2 DEF Left, Ended
<1>4. /\ Dropped \in [refcount : 0..Users, cmd : Commands, err : Errors]
      /\ Dropped.refcount = entry.refcount - 1
      /\ Dropped.cmd = entry.cmd /\ Dropped.err = entry.err
  BY <1>3, DroppedSpec DEF Inv
<1>5. freelist' = IF Dropped.refcount = 0 THEN 0 ELSE -1
  BY <1>1, <1>3 DEF ListAfter
<1>6. Waiters' /\ waiting' \in Seq(Clients)
  BY <1>1, <1>3, <1>5, FreedWaiters
<1>7. TypeOK'
  BY <1>1, <1>4, <1>5, <1>6 DEF Inv, TypeOK
<1>8. Phases'
  <2>1. CASE Left
    BY <1>1, <1>4, <1>5, <2>1 DEF Left, Unused, Nobody, Phases
  <2>2. ASSUME NEW c \in Clients, Ended(c) PROVE Ended(c)'
    BY <1>1, <1>4, <1>5, <2>2 DEF Ended, Alone
  <2>3. QED
    BY <1>2, <2>1, <2>2 DEF Phases
<1>9. Results'
  BY <1>1, <1>4 DEF Inv, Results
<1>10. QED
  BY <1>6, <1>7, <1>8, <1>9 DEF Inv

LEMMA InterruptElsewhereInv ==
  ASSUME Inv, InterruptElsewhere
  PROVE  Inv'
<1>1. Executing(device.by) /\ device.by \in Clients
  BY BusyExecutes DEF InterruptElsewhere
<1>2. /\ device' = Idle
      /\ UNCHANGED <<freelist, entry, waiting, done, doing, holds, serving, cut, answer,
                     result>>
  BY DEF InterruptElsewhere
<1>3. \A c \in Clients : Executing(c) => Executing(c)'
  BY <1>2 DEF Executing, Alone
<1>4. TypeOK' /\ Phases'
  BY <1>1, <1>2, <1>3 DEF Inv, TypeOK, Phases
<1>5. Results' /\ Waiters'
  BY <1>2 DEF Inv, Results, Waiters, Suspended
<1>6. QED
  BY <1>4, <1>5 DEF Inv

LEMMA NextInv ==
  ASSUME Inv, [Next]_vars
  PROVE  Inv'
<1>1. ASSUME NEW c \in Clients, NEW cmd \in Transfers, Call(c, cmd) PROVE Inv'
  BY <1>1, CallInv
<1>2. ASSUME NEW c \in Clients, Client(c) PROVE Inv'
  BY <1>2, RetryInv, ReturnInv, EndWriteInv DEF Client
<1>3. ASSUME Controller PROVE Inv'
  BY <1>3, InterruptInv, InterruptElsewhereInv DEF Controller
<1>4. ASSUME EndInterrupt PROVE Inv'
  BY <1>4, EndInterruptInv
<1>5. ASSUME CutIdeSupport \/ UNCHANGED vars PROVE Inv'
  <2>1. /\ UNCHANGED <<freelist, entry, waiting, done, doing, holds, device, serving,
                       answer, result>>
        /\ cut' \in BOOLEAN
    BY <1>5 DEF CutIdeSupport, vars, Inv, TypeOK
  <2>2. TypeOK'
    BY <2>1 DEF Inv, TypeOK
  <2>3. Phases'
    BY <2>1 DEF Inv, Phases, Unused, Left, Executing, Ended, Nobody, Alone
  <2>4. Results' /\ Waiters'
    BY <2>1 DEF Inv, Results, Waiters, Suspended
  <2>5. QED
    BY <2>2, <2>3, <2>4 DEF Inv
<1>6. QED
  BY <1>1, <1>2, <1>3, <1>4, <1>5 DEF Next

LEMMA Safety == Spec => []Inv
<1>1. Inv /\ [Next]_vars => Inv'
  BY NextInv
<1>2. QED
  BY InitInv, <1>1, PTL DEF Spec

-----------------------------------------------------------------------------

(* The refcount stays between none and two, the list has the entry or not, *)
(* and the queues, the calls and their results have their types, however   *)
(* many clients share the queue.                                           *)
THEOREM TypeCorrect == Spec => []TypeOK
<1>1. Inv => TypeOK
  BY DEF Inv
<1>2. QED
  BY Safety, <1>1, PTL

(* A call returns how the controller ended that call's own transfer, though *)
(* the error is left in an entry that another client may take first.       *)
THEOREM ResultIsOwn == Spec => []OwnResult
<1>1. Inv => OwnResult
  <2> SUFFICES ASSUME Inv, NEW c \in Clients, doing[c] = "nothing"
               PROVE  result[c] = answer[c]
    BY DEF OwnResult
  <2>1. holds[c] \notin Transfers
    BY DEF Inv, Results, Transfers
  <2>2. QED
    BY <2>1 DEF Inv, Results
<1>2. QED
  BY Safety, <1>1, PTL

(* How many clients have a command in the entry.                           *)
LEMMA Holders ==
  /\ Nobody => Cardinality({c \in Clients : holds[c] # "none"}) = 0
  /\ \A c \in Clients : Alone(c) => Cardinality({d \in Clients : holds[d] # "none"}) = 1
<1>1. ASSUME Nobody PROVE Cardinality({c \in Clients : holds[c] # "none"}) = 0
  <2>1. {c \in Clients : holds[c] # "none"} = {}
    BY <1>1 DEF Nobody
  <2>2. QED
    BY <2>1, FS_EmptySet
<1>2. ASSUME NEW c \in Clients, Alone(c)
      PROVE  Cardinality({d \in Clients : holds[d] # "none"}) = 1
  <2>1. {d \in Clients : holds[d] # "none"} = {c}
    BY <1>2 DEF Alone
  <2>2. QED
    BY <2>1, FS_Singleton
<1>3. QED
  BY <1>1, <1>2

(* The entry goes back to the list exactly when the last of its two users  *)
(* freed it, in whatever order and however often it changed hands; the     *)
(* controller executes nothing but the command in it; and it is not free   *)
(* with clients that wait for it and nobody who will wake them.            *)
THEOREM EntryIsExact == Spec => []EntryExact
<1>1. Inv => EntryExact
  <2> SUFFICES ASSUME Inv PROVE EntryExact
    OBVIOUS
  <2>1. /\ entry.refcount = Cardinality({c \in Clients : holds[c] # "none"})
                            + Len(done) + (IF serving THEN 1 ELSE 0)
        /\ (freelist = 0) <=> (entry.refcount = 0)
    <3>1. CASE Unused
      BY <3>1, Holders, OneWaits DEF Unused
    <3>2. CASE Left
      BY <3>2, Holders, OneWaits DEF Left
    <3>3. ASSUME NEW c \in Clients, Executing(c) \/ Ended(c)
          PROVE  /\ Cardinality({d \in Clients : holds[d] # "none"}) = 1
                 /\ (freelist = 0) <=> (entry.refcount = 0)
                 /\ entry.refcount = 1 + Len(done) + (IF serving THEN 1 ELSE 0)
      <4>1. Alone(c) /\ freelist = -1
        BY <3>3 DEF Executing, Ended
      <4>2. Cardinality({d \in Clients : holds[d] # "none"}) = 1
        BY <4>1, Holders
      <4>3. entry.refcount = 1 + Len(done) + (IF serving THEN 1 ELSE 0) /\ entry.refcount # 0
        <5>1. CASE Executing(c)
          BY <5>1, OneWaits DEF Executing
        <5>2. CASE Ended(c)
          BY <5>2, OneWaits DEF Ended
        <5>3. QED
          BY <3>3, <5>1, <5>2
      <4>4. QED
        BY <4>1, <4>2, <4>3
    <3>4. QED
      BY <3>1, <3>2, <3>3 DEF Inv, Phases
  <2>2. ASSUME device # Idle
        PROVE  /\ entry.cmd = device.cmd /\ done = <<device.by>> /\ ~serving
               /\ \A c \in Clients :
                    holds[c] = IF c = device.by THEN device.cmd ELSE "none"
    BY <2>2, BusyExecutes DEF Executing, Alone
  <2>3. QED
    BY <2>1, <2>2 DEF EntryExact, Inv, Waiters
<1>2. QED
  BY Safety, <1>1, PTL

=============================================================================

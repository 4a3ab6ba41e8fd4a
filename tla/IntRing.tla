------------------------------- MODULE IntRing -------------------------------
(***************************************************************************)
(* The rings that carry interrupts from the kernel to the Scheme drivers:  *)
(* send_gambit_int of src/rtlib.cpp writes a frame, with interrupts        *)
(* disabled, and the pump of src/scheme/interpreted/gambini.scm reads it,  *)
(* dispatches it and erases it, one cell at a time, with interrupts        *)
(* enabled.  They share the cells and nothing else: neither sees the       *)
(* other's index, and a cell is free when it is 0.                         *)
(*                                                                         *)
(* The parameters of a frame may be 0 too.  That is why the pump erases a  *)
(* frame from its end: its first cell, never 0, protects the rest.         *)
(*                                                                         *)
(* The pump waits for a signal or for 30 seconds, and then serves the two  *)
(* rings in turn until both are empty; here it serves them for ever.       *)
(***************************************************************************)
EXTENDS Integers, SequencesExt

CONSTANTS Rings,       \* the flow-controlled ring and the other one
          Size,        \* Size[r]: the length of the ring r
          Frames,      \* Frames[r]: the frames <<number, n, param 1, .. param n>>
          Controlled,  \* the ring of the IDE interrupts
          NoFrame      \* nothing was dispatched yet

ASSUME RingsAssumption ==
  /\ Controlled \in Rings
  /\ Size \in [Rings -> Nat \ {0}]
  /\ \A r \in Rings : /\ NoFrame \notin Frames[r]
                      /\ \A f \in Frames[r] :
                           /\ f \in Seq(Nat) /\ Len(f) >= 2 /\ Len(f) = 2 + f[2]
                           /\ f[1] # 0 /\ Len(f) <= Size[r]

VARIABLES
  mem,         \* mem[r]: the cells of r
  writer,      \* writer[r]: flow_controlled_writer, flow_uncontrolled_writer
  reader,      \* reader[r]: the pump's reader-offset
  ring,        \* the ring the pump is at: cpmp or upmp
  phase,       \* "fetch" or "erase"
  got,         \* the cells of the frame fetched so far
  erased,      \* how many of them are erased
  dispatched,  \* dispatched[r]: the last frame that r gave to a driver
  raised,      \* the IDE frames raised, their interrupt not acknowledged yet
  handling,    \* those of them that have been dispatched to the driver
  pending      \* pending[r]: the frames written and not dispatched (history)

pumpVars == <<ring, phase, got, erased>>
vars == <<mem, writer, reader, pumpVars, dispatched, raised, handling, pending>>

\* The cell i places after the place p.
Cell(r, p, i) == (p + i) % Size[r]

Init ==
  /\ mem = [r \in Rings |-> [i \in 0..Size[r] - 1 |-> 0]]
  /\ writer = [r \in Rings |-> 0]
  /\ reader = [r \in Rings |-> 0]
  /\ ring = Controlled
  /\ phase = "fetch"
  /\ got = <<>>
  /\ erased = 0
  /\ dispatched = [r \in Rings |-> NoFrame]
  /\ raised = {}
  /\ handling = {}
  /\ pending = [r \in Rings |-> <<>>]

-----------------------------------------------------------------------------
(* send_gambit_int.                                                        *)

\* Mutant: the scout stops one cell early.
FitsButOne(r, f) == \A i \in 0..Len(f) - 2 : mem[r][Cell(r, writer[r], i)] = 0

\* The scout.
Fits(r, f) == \A i \in 0..Len(f) - 1 : mem[r][Cell(r, writer[r], i)] = 0

Store(r, f) ==
  mem' = [mem EXCEPT ![r] = [c \in DOMAIN @ |->
            LET i == (c - writer[r]) % Size[r]
            IN  IF i < Len(f) THEN f[i + 1] ELSE @[c]]]

\* The frame f arrives for the ring r.  A frame that does not fit is discarded.
Send(r, f) ==
  IF Fits(r, f)
  THEN /\ Store(r, f)
       /\ writer' = [writer EXCEPT ![r] = Cell(r, @, Len(f))]
       /\ pending' = [pending EXCEPT ![r] = Append(@, f)]
  ELSE UNCHANGED <<mem, writer, pending>>

\* irq14 and irq15, each of which has a frame of its own: the PIC holds the
\* next one back until the driver has acknowledged this one.
RaiseControlled(f) ==
  /\ f \in Frames[Controlled] \ raised
  /\ raised' = raised \cup {f}
  /\ Send(Controlled, f)
  /\ UNCHANGED <<reader, pumpVars, dispatched, handling>>

\* irq1 and irq4 come when they come.
Raise(r, f) ==
  /\ r # Controlled
  /\ Send(r, f)
  /\ UNCHANGED <<reader, pumpVars, dispatched, raised, handling>>

-----------------------------------------------------------------------------
(* The pump.                                                               *)

Whole == Len(got) >= 2 /\ Len(got) = 2 + got[2]

NextRing == CHOOSE r \in Rings : r # ring \/ Rings = {ring}

\* The ring is empty when the cell of an interrupt number is 0.
Fetch ==
  /\ phase = "fetch" /\ ~Whole
  /\ LET cell == mem[ring][Cell(ring, reader[ring], Len(got))]
     IN  IF got = <<>> /\ cell = 0
         THEN ring' = NextRing /\ UNCHANGED got
         ELSE got' = Append(got, cell) /\ UNCHANGED ring
  /\ UNCHANGED <<mem, writer, reader, phase, erased, dispatched, raised,
                 handling, pending>>

\* dispatch-int
Dispatch ==
  /\ phase = "fetch" /\ Whole
  /\ phase' = "erase"
  /\ dispatched' = [dispatched EXCEPT ![ring] = got]
  /\ pending' = [pending EXCEPT ![ring] = IF @ = <<>> THEN @ ELSE Tail(@)]
  /\ handling' = handling \cup (IF ring = Controlled THEN {got} ELSE {})
  /\ UNCHANGED <<mem, writer, reader, ring, got, erased, raised>>

\* Mutants: from the front; not the last parameter.
EraseForward ==
  /\ phase = "erase" /\ erased < Len(got)
  /\ mem' = [mem EXCEPT ![ring][Cell(ring, reader[ring], erased)] = 0]
  /\ erased' = erased + 1
  /\ UNCHANGED <<writer, reader, ring, phase, got, dispatched, raised,
                 handling, pending>>

EraseAllButLast ==
  /\ phase = "erase" /\ erased < Len(got)
  /\ mem' = [mem EXCEPT ![ring][Cell(ring, reader[ring],
                                     IF erased = 0 THEN 0 ELSE Len(got) - 1 - erased)] = 0]
  /\ erased' = erased + 1
  /\ UNCHANGED <<writer, reader, ring, phase, got, dispatched, raised,
                 handling, pending>>

\* erase-and-move!, the frame's last cell first
Erase ==
  /\ phase = "erase" /\ erased < Len(got)
  /\ mem' = [mem EXCEPT ![ring][Cell(ring, reader[ring], Len(got) - 1 - erased)] = 0]
  /\ erased' = erased + 1
  /\ UNCHANGED <<writer, reader, ring, phase, got, dispatched, raised,
                 handling, pending>>

\* Mutant: the length of the parameters instead of the frame's.
MoveShort ==
  /\ phase = "erase" /\ erased = Len(got)
  /\ reader' = [reader EXCEPT ![ring] = Cell(ring, @, got[2])]
  /\ phase' = "fetch" /\ got' = <<>> /\ erased' = 0
  /\ ring' = NextRing
  /\ UNCHANGED <<mem, writer, dispatched, raised, handling, pending>>

Move ==
  /\ phase = "erase" /\ erased = Len(got)
  /\ reader' = [reader EXCEPT ![ring] = Cell(ring, @, Len(got))]
  /\ phase' = "fetch" /\ got' = <<>> /\ erased' = 0
  /\ ring' = NextRing
  /\ UNCHANGED <<mem, writer, dispatched, raised, handling, pending>>

\* The IDE driver's thread handles a frame: it acknowledges the interrupt,
\* possibly before the pump has erased the frame.
Acknowledge(f) ==
  /\ f \in handling
  /\ handling' = handling \ {f}
  /\ raised' = raised \ {f}
  /\ UNCHANGED <<mem, writer, reader, pumpVars, dispatched, pending>>

-----------------------------------------------------------------------------

Pump == Fetch \/ Dispatch \/ Erase \/ Move

Next ==
  \/ \E f \in Frames[Controlled] : RaiseControlled(f) \/ Acknowledge(f)
  \/ \E r \in Rings : \E f \in Frames[r] : Raise(r, f)
  \/ Pump

Spec == Init /\ [][Next]_vars

\* The pump's thread runs (ReadyRuns of module Scheduler); interrupts need
\* not come.
FairSpec == Spec /\ WF_vars(Pump)

-----------------------------------------------------------------------------
(* Properties.                                                             *)

\* The variables have their types.
TypeOK ==
  /\ \A r \in Rings : /\ mem[r] \in [0..Size[r] - 1 -> Nat]
                      /\ {writer[r], reader[r]} \subseteq 0..Size[r] - 1
                      /\ pending[r] \in Seq(Frames[r])
                      /\ dispatched[r] \in Frames[r] \cup {NoFrame}
  /\ ring \in Rings
  /\ phase \in {"fetch", "erase"}
  /\ got \in Seq(Nat)
  /\ erased \in 0..Len(got)
  /\ handling \subseteq raised /\ raised \subseteq Frames[Controlled]

\* A driver gets the frames that were taken, whole and in order, although a
\* frame can arrive between any two cells that the pump reads or erases.
Fifo == INSTANCE FrameFifo
          WITH queue <- pending,
               out <- [r \in Rings |-> IF dispatched[r] = NoFrame
                                       THEN <<>> ELSE dispatched[r]]

DeliversInOrder == Fifo!Spec

\* An IDE interrupt, without which the driver waits for ever, is never
\* discarded: the small ring is large enough for two controllers.
ControlledTaken ==
  [][\A f \in Frames[Controlled] :
       f \notin raised /\ f \in raised' => f \in ToSet(pending'[Controlled])]_vars

\* A frame that was taken is dispatched.
FramesDispatched ==
  \A r \in Rings : pending[r] # <<>> ~> ring = r /\ phase = "erase"

=============================================================================

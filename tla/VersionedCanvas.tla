-------------------------- MODULE VersionedCanvas --------------------------
(***************************************************************************)
(* What saving promises a user who has the same canvas open in several     *)
(* tabs: each canvas is a versioned register.  Opening creates it blank at *)
(* version 1.  A save replaces it in one atomic step, raises the version   *)
(* by exactly one, and goes through only when its author had seen the very *)
(* canvas it replaces or chose to send no version at all.                  *)
(*                                                                         *)
(* `stored` is the register.  `seen` records, for each canvas a register   *)
(* ever held, how many canvases its author had seen (0: none).             *)
(***************************************************************************)
EXTENDS Naturals, Sequences

CONSTANTS Ids,      \* the registers
          Canvases, \* the canvases a client may save
          Blank,    \* the canvas a register is created with
          None      \* a register nobody has opened yet

VARIABLES stored, seen

Register(version, c) == [version |-> version, nodes |-> c.nodes, edges |-> c.edges]

Init == \E opened \in SUBSET Ids :
            /\ stored = [i \in Ids |-> IF i \in opened THEN Register(1, Blank) ELSE None]
            /\ seen = [i \in Ids |-> IF i \in opened THEN <<0>> ELSE << >>]

Create(i) ==
    /\ stored[i] = None
    /\ stored' = [stored EXCEPT ![i] = Register(1, Blank)]
    /\ seen' = [seen EXCEPT ![i] = <<0>>]

Replace(i, c, s) ==
    /\ stored[i] # None
    /\ s \in {0, Len(seen[i])}
    /\ stored' = [stored EXCEPT ![i] = Register(stored[i].version + 1, c)]
    /\ seen' = [seen EXCEPT ![i] = Append(@, s)]

Next == \E i \in Ids :
            \/ Create(i)
            \/ \E c \in Canvases : \E s \in {0, Len(seen[i])} : Replace(i, c, s)

Spec == Init /\ [][Next]_<<stored, seen>>
=============================================================================

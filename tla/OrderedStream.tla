--------------------------- MODULE OrderedStream ---------------------------
(***************************************************************************)
(* What a partition stream promises, whatever runs behind it: chunks are   *)
(* accepted one by one, they reach the file in exactly the order they were *)
(* accepted in, and the stream is declared good only when every accepted   *)
(* chunk has reached the file.  Once an outcome is returned the file is    *)
(* not touched again.                                                      *)
(***************************************************************************)
EXTENDS Naturals, Sequences

CONSTANT Item           \* what identifies a chunk in the stream

VARIABLES accepted,     \* chunks taken from the capture loop, in order
          stored,       \* chunks committed to the file, in order
          outcome       \* "none" while running, then "ok" or "failed"

absVars == <<accepted, stored, outcome>>

AbsInit == accepted = <<>> /\ stored = <<>> /\ outcome = "none"

Accept(item) ==
    /\ outcome = "none"
    /\ accepted' = Append(accepted, item)
    /\ UNCHANGED <<stored, outcome>>

Store ==
    /\ outcome = "none"
    /\ Len(stored) < Len(accepted)
    /\ stored' = Append(stored, accepted[Len(stored) + 1])
    /\ UNCHANGED <<accepted, outcome>>

Complete ==
    /\ outcome = "none"
    /\ stored = accepted
    /\ outcome' = "ok"
    /\ UNCHANGED <<accepted, stored>>

Abort ==
    /\ outcome = "none"
    /\ outcome' = "failed"
    /\ UNCHANGED <<accepted, stored>>

AbsNext == (\E item \in Item : Accept(item)) \/ Store \/ Complete \/ Abort

AbsSpec == AbsInit /\ [][AbsNext]_absVars
=============================================================================

-------------------------- MODULE MCPhnxContainer --------------------------
(* Two partitions in a file with room for three: one without extents, one with
   a single extent that one or two chunks cover, one with two extents. *)
EXTENDS PhnxContainer

Ext(s, c) == [start |-> s, count |-> c]
Plans == {<<>>, <<Ext(0, 2)>>, <<Ext(0, 1), Ext(2, 2)>>}
OneOrTwo == {1, 2}
=============================================================================

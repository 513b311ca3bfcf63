----------------------------- MODULE ByteStream -----------------------------
(***************************************************************************)
(* What a receiving TCP endpoint promises its application: the bytes of    *)
(* the peer's stream 1 .. Length, in order, each once, with none missing   *)
(* in between.  The stream may be cut off, and then bytes that were not    *)
(* read yet are lost, but nothing arrives any more.                        *)
(***************************************************************************)
EXTENDS Naturals, Sequences

CONSTANT Length

VARIABLES
    unread,   \* bytes accepted from the peer and not read yet
    read,     \* bytes handed to the application
    cut       \* the connection is gone

streamVars == <<unread, read, cut>>

Run(i, n) == [k \in 1 .. n |-> i + k - 1]

StreamInit == unread = <<>> /\ read = <<>> /\ cut = FALSE

Deposit(n) ==
    /\ ~cut
    /\ Len(read) + Len(unread) + n <= Length
    /\ unread' = unread \o Run(Len(read) + Len(unread) + 1, n)
    /\ UNCHANGED <<read, cut>>

Read ==
    /\ ~cut
    /\ read' = read \o unread
    /\ unread' = <<>>
    /\ cut' = cut

Cut ==
    /\ ~cut
    /\ cut' = TRUE
    /\ unread' = <<>>
    /\ read' = read

StreamNext == (\E n \in 1 .. Length : Deposit(n)) \/ Read \/ Cut

StreamSpec == StreamInit /\ [][StreamNext]_streamVars
=============================================================================

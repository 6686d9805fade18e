------------------------- MODULE MCDataAvailability -------------------------
(***************************************************************************)
(* An instance of DataAvailability for TLC: a datum, and one that is the   *)
(* text of the hash of the first twice over.  Where the first is stored    *)
(* twice, the hash of the pair is that of the second datum.                *)
(***************************************************************************)
EXTENDS DataAvailability

CONSTANT datum

MCData == {datum, Joined(Leaf(datum), Leaf(datum))}
=============================================================================

---------------------------- MODULE MCPercolator ----------------------------
(* Small instances of Percolator for TLC. *)
EXTENDS Percolator, TLC

CONSTANTS t1, t2, t3

Keys == {1, 2}
WritersAndReader == {t1, t2, t3}
Scripts == (t1 :> (1 :> "put" @@ 2 :> "put"))
           @@ (t2 :> (1 :> "delete" @@ 2 :> "put"))
           @@ (t3 :> [k \in {} |-> "put"])
ShortScripts == (t1 :> (1 :> "put" @@ 2 :> "put"))
                @@ (t2 :> (2 :> "delete"))
                @@ (t3 :> [k \in {} |-> "put"])
Reads == (t1 :> {}) @@ (t2 :> {}) @@ (t3 :> {1, 2})
GetAndScan == (t1 :> {}) @@ (t2 :> {1}) @@ (t3 :> {1, 2})
Reader == {t3}
OneKeyRanges == {{1}, {2}}
=============================================================================

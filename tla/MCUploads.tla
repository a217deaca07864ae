------------------------------ MODULE MCUploads ------------------------------
(***************************************************************************)
(* Instance of Uploads for TLC.  "foo" is repo-less and was in the host's  *)
(* dnf cache; "foo-bar" is cached and not repo-less, so foo-bar's NEVRA    *)
(* matches "foo" by prefix shortening; "old" claims an upload the snapshot *)
(* arrived with.                                                           *)
(***************************************************************************)
EXTENDS Uploads

CONSTANTS r1, r2, x1

Packages == {"foo", "foo-bar", "old"}
Files == {"foo-1", "foo-2", "foo-bar-1", "old-1"}
Ranks == [f \in Files |-> CASE f = "foo-1" -> 1 [] f = "foo-2" -> 2
                            [] f = "foo-bar-1" -> 3 [] f = "old-1" -> 4]
Matches == [f \in Files |-> IF f = "old-1" THEN "nopackage" ELSE "foo"]
Nevras == [p \in Packages |-> CASE p = "foo" -> "foo-1" [] p = "foo-bar" -> "foo-bar-1"
                                [] p = "old" -> "old-1"]
Cached == [uploaded |-> FALSE, cached |-> TRUE, path |-> "host"]
Entries == [p \in Packages |->
              IF p = "old" THEN [uploaded |-> TRUE, cached |-> TRUE, path |-> "old-1"]
              ELSE Cached]

Requests == {r1, r2}
Exporters == {x1}
=============================================================================

---------------------------- MODULE TorrentStore ----------------------------
(***************************************************************************)
(* What the program promises about the disk, over any number of runs: the  *)
(* bytes of the torrent are put in place once and for good, nothing else   *)
(* is overwritten, and a run that returns leaves the whole torrent.        *)
(***************************************************************************)
CONSTANT Place   \* the bytes of the torrent

VARIABLES bytes,     \* what the files hold at each place
          finished   \* the last run has returned from main

store == <<bytes, finished>>

\* A place is not written yet, or in a file that was there before.
Init ==
  /\ bytes \in [Place -> {"blank", "other"}]
  /\ finished = FALSE

Put ==
  /\ ~finished
  /\ bytes' \in [Place -> {"blank", "other", "right"}]
  /\ \A k \in Place : bytes'[k] # bytes[k] => bytes[k] = "blank" /\ bytes'[k] = "right"
  /\ UNCHANGED finished

Finish ==
  /\ \A k \in Place : bytes[k] = "right"
  /\ finished' = TRUE
  /\ UNCHANGED bytes

StartAgain == finished' = FALSE /\ UNCHANGED bytes

Next == Put \/ Finish \/ StartAgain

Spec == Init /\ [][Next]_store
=============================================================================

---- MODULE MCConnection ----
(***************************************************************************)
(* The requests the model-checked clients choose from.  With a first       *)
(* buffer of 2, a header cap of 4 and a body cap of 5: a request that fits *)
(* the first buffer, a HEAD, one whose body grows the buffer past the      *)
(* header cap, two whose headers exceed the cap (one of them fits a single *)
(* read into a grown buffer), one whose body exceeds its cap, a header     *)
(* that is not UTF-8 and a malformed one.                                  *)
(***************************************************************************)
EXTENDS Connection

MCRequests ==
  { [hdr |-> 1, body |-> 0, kind |-> "plain"],
    [hdr |-> 1, body |-> 0, kind |-> "head"],
    [hdr |-> 3, body |-> 5, kind |-> "plain"],
    [hdr |-> 7, body |-> 0, kind |-> "plain"],
    [hdr |-> 8, body |-> 5, kind |-> "plain"],
    [hdr |-> 1, body |-> 6, kind |-> "plain"],
    [hdr |-> 3, body |-> 1, kind |-> "bad_utf8"],
    [hdr |-> 2, body |-> 0, kind |-> "malformed"] }
====

------------------------------ MODULE Channel -------------------------------
(***************************************************************************)
(* One direction of a relayed connection, as its two ends may see it: the   *)
(* destination gets what the source sent, in order and without a gap, until *)
(* it is told of the end, and nothing after that; an end that is told       *)
(* because the source closed comes after everything the source sent.  Once  *)
(* the encryption is gone from under the reader, a record that was not      *)
(* decrypted may come where a chunk should, or after the last.  Chunks are  *)
(* counted from the first that the destination has not yet taken.  Relay    implements two of them.  *)
(***************************************************************************)
EXTENDS Naturals, Sequences

CONSTANTS Chunks,  \* how many have room between the two ends
          Cipher

VARIABLES sent, fin,  \* what the source has sent, and whether it has closed
          got, end,   \* what the destination got; "none", "clean" or "cut"
          secure      \* what is read is decrypted, or never was encrypted

vars == <<sent, fin, got, end, secure>>

Init ==
  /\ sent = 0 /\ fin = FALSE
  /\ got = <<>> /\ end = "none"
  /\ secure = TRUE

Send ==
  /\ ~fin /\ sent < Chunks
  /\ sent' = sent + 1
  /\ UNCHANGED <<fin, got, end, secure>>

Close ==
  /\ ~fin
  /\ fin' = TRUE
  /\ UNCHANGED <<sent, got, end, secure>>

\* The destination takes its first chunk; the others count one less.
Take ==
  /\ got # <<>>
  /\ got' = [i \in 1..Len(got) - 1 |->
               IF got[i + 1] \in {0, Cipher} THEN got[i + 1] ELSE got[i + 1] - 1]
  /\ sent' = sent - 1
  /\ UNCHANGED <<fin, end, secure>>

\* A record of the encryption itself passes for a chunk.
Stray ==
  /\ end = "none" /\ ~secure
  /\ sent' = sent + 1
  /\ UNCHANGED <<fin, got, end, secure>>

Deliver ==
  /\ end = "none" /\ Len(got) < sent
  /\ \/ got' = Append(got, Len(got) + 1)
     \/ ~secure /\ got' = Append(got, Cipher)
  /\ UNCHANGED <<sent, fin, end, secure>>

EndClean ==
  /\ end = "none" /\ fin /\ Len(got) = sent
  /\ end' = "clean"
  /\ UNCHANGED <<sent, fin, got, secure>>

\* A timeout or an error, with chunks on the way or not.
Cut ==
  /\ end = "none"
  /\ end' = "cut"
  /\ UNCHANGED <<sent, fin, got, secure>>

Expose ==
  /\ secure' = FALSE
  /\ UNCHANGED <<sent, fin, got, end>>

Next == Send \/ Close \/ Take \/ Stray \/ Deliver \/ EndClean \/ Cut \/ Expose

Spec == Init /\ [][Next]_vars
=============================================================================

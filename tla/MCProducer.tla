----------------------------- MODULE MCProducer -----------------------------
(***************************************************************************)
(* Producer with feeds of at most FeedSize entities out of a contract-     *)
(* conforming and a rejected one.                                          *)
(***************************************************************************)
EXTENDS Producer

CONSTANTS good, bad

MCEvent == {good, bad}
MCAccepted == {good}
=============================================================================

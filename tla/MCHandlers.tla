----------------------------- MODULE MCHandlers -----------------------------
(***************************************************************************)
(* Small instances of Handlers: a batch of two requests with a bad line    *)
(* between them, and a stream.                                             *)
(***************************************************************************)
EXTENDS Handlers

CONSTANTS a, e, batch, stream, q1, q2, q3

MCJobs == [c \in Clients |->
    CASE c = batch -> <<q1, BadLine, q2>> [] c = stream -> <<q3>>]
=============================================================================

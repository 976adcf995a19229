------------------------------- MODULE MCTwc -------------------------------
(* Twc.tla with short buffers; the client sends more than the server.      *)
EXTENDS Twc, TLC

MCMaxBytes == "A2B" :> 5 @@ "B2A" :> 1
=============================================================================

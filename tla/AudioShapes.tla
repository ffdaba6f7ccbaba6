----------------------------- MODULE AudioShapes -----------------------------
(***************************************************************************)
(* The requests of the audio PA on streams that are there, each by its     *)
(* shape (Requests!ShapeSet): a copy of the stream is asked, and the       *)
(* client's callback is told the answer. A player is asked synchronously,  *)
(* and the function tells the client itself.                               *)
(***************************************************************************)
StreamRequest ==
    [checks |-> TRUE, keeps |-> TRUE, rejects |-> TRUE, voiced |-> FALSE,
     refusal |-> "return", waits |-> "no", answers |-> <<"callback">>,
     needs |-> "nothing", tail |-> FALSE, frame |-> "none", tells |-> "answer",
     returns |-> "ok", late |-> "timeout"]
PlayerRequest ==
    [StreamRequest EXCEPT !.waits = "forever", !.answers = <<"promise">>, !.tail = TRUE,
                          !.returns = "answer"]
CommandResponse == <<"callback">>

\* By the type of the stream; a stream that is not there is told to the client.
setVolume == {[StreamRequest EXCEPT !.voiced = TRUE], [PlayerRequest EXCEPT !.voiced = TRUE]}
getVolume == {[StreamRequest EXCEPT !.voiced = TRUE], [PlayerRequest EXCEPT !.voiced = TRUE]}
getMute == {[StreamRequest EXCEPT !.voiced = TRUE], [PlayerRequest EXCEPT !.voiced = TRUE]}
setMute == {StreamRequest}
playDtmf == {StreamRequest}
stopDtmf == {StreamRequest}
playSignallingDtmfOnTx ==
    {[StreamRequest EXCEPT !.answers = CommandResponse],
     [StreamRequest EXCEPT !.answers = CommandResponse, !.voiced = TRUE]}
stopSignallingDtmfOnTx == {[StreamRequest EXCEPT !.answers = CommandResponse]}

AudioRequests ==
    setVolume \cup getVolume \cup getMute \cup setMute \cup playDtmf \cup stopDtmf
    \cup playSignallingDtmfOnTx \cup stopSignallingDtmfOnTx

==============================================================================

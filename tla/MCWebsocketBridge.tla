------------------------- MODULE MCWebsocketBridge --------------------------
(* One websocket connection, with a bounded number of messages.            *)
EXTENDS WebsocketBridge, TLC
=============================================================================

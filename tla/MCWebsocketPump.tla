-------------------------- MODULE MCWebsocketPump --------------------------
(* What the remotes send, and the settings.  Three messages one way fill    *)
(* the channel of capacity one while the writer writes and the reader holds *)
(* a message.  By default only what comes from the backend has a timeout.   *)
EXTENDS WebsocketPump

Default == {"backend"}

MCConfigs ==
    { [chaos |-> FALSE, timed |-> Default,
       script |-> [backend |-> <<"data", "data", "data">>, frontend |-> <<>>]],
      [chaos |-> TRUE, timed |-> Default,
       script |-> [backend |-> <<"data", "data">>, frontend |-> <<>>]],
      [chaos |-> FALSE, timed |-> Default,
       script |-> [backend |-> <<"ping", "close">>, frontend |-> <<"data", "pong">>]],
      [chaos |-> FALSE, timed |-> Default,
       script |-> [backend |-> <<>>, frontend |-> <<"data", "data", "data">>]],
      [chaos |-> FALSE, timed |-> Sides,
       script |-> [backend |-> <<>>, frontend |-> <<"data", "data", "data">>]] }
=============================================================================

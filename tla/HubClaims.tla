----------------------------- MODULE HubClaims -----------------------------
(***************************************************************************)
(* What a comment says of the hub and its code does not do.                *)
(***************************************************************************)
EXTENDS Hub

\* client.go:85-86: "closing the send channel cannot race with a Send".  The upgrade
\* handler sends the snapshot from its own goroutine after it has registered the
\* client (websocket_handler.go:105-116), when the hub may already have closed it.
NeverSendsOnClosed == \A c \in Clients : handler[c] # "panicked"

=============================================================================

----------------------------- MODULE PollSocket -----------------------------
(***************************************************************************)
(* A browser's end of the WebSocket: usePollWebSocket keeps one open while *)
(* it is enabled, retries when it drops and gives up after a while.  Its   *)
(* refs are shared by every socket it ever made, and the browser reports   *)
(* what becomes of each of them later.                                     *)
(***************************************************************************)
EXTENDS Naturals

CONSTANTS
    Sockets,     \* bound: the sockets that exist at the same time
    MaxAttempts  \* MAX_ATTEMPTS

ASSUME MaxAttemptsAssumption == MaxAttempts \in Nat /\ "none" \notin Sockets

VARIABLES
    enabled,     \* the effect is set up
    awake,       \* the tab is visible and the browser online
    malformed,   \* the page's address makes no URL: a socket's constructor throws
    socket,      \* each socket's state; one that is closed may be made anew
    socketRef,
    retryTimer,  \* the timer the hook remembers is running
    strays,      \* the timers that run and are forgotten
    attempts,
    everConnected,
    closingDeliberately,
    status

refs == <<socketRef, retryTimer, strays, attempts, everConnected, closingDeliberately>>
pvars == <<enabled, awake, malformed, socket, refs, status>>

PInit ==
    /\ enabled = FALSE /\ awake = TRUE /\ malformed \in BOOLEAN
    /\ socket = [s \in Sockets |-> "closed"]
    /\ socketRef = "none"
    /\ retryTimer = FALSE /\ strays = 0
    /\ attempts = 0 /\ everConnected = FALSE /\ closingDeliberately = FALSE
    /\ status = "disconnected"

-----------------------------------------------------------------------------
(* The hook's functions. *)

\* Mutant: the flag of the last cleanup stays up.
KeepsFlag(flag) == flag

ResetFlag(flag) == FALSE

\* connect makes socket s, leaving the others as they are, or none at all; "ever" is what
\* it finds in everConnected.
connect(s, ever) ==
    /\ retryTimer' = FALSE
    /\ closingDeliberately' = ResetFlag(closingDeliberately)
    /\ \/ /\ malformed
          /\ status' = "disconnected"
          /\ UNCHANGED <<socket, socketRef>>
       \/ /\ ~malformed
          /\ socket[s] = "closed"
          /\ socket' = [socket EXCEPT ![s] = "connecting"]
          /\ socketRef' = s
          /\ status' = IF ever THEN "reconnecting" ELSE "connecting"

\* close(), on the socket the hook remembers.
CloseRef(states) ==
    [s \in Sockets |->
        IF s = socketRef /\ states[s] # "closed" THEN "closing" ELSE states[s]]

\* The effect.  Bound: not while a forgotten timer runs.
Enable(s) ==
    /\ ~enabled /\ strays = 0
    /\ enabled' = TRUE
    /\ attempts' = 0 /\ everConnected' = FALSE
    /\ connect(s, FALSE)
    /\ UNCHANGED <<awake, malformed, strays>>

\* Its cleanup, the poll's page or the permission to see it gone.
Disable ==
    /\ enabled
    /\ enabled' = FALSE
    /\ closingDeliberately' = TRUE
    /\ retryTimer' = FALSE
    /\ socket' = CloseRef(socket)
    /\ socketRef' = "none"
    /\ status' = "disconnected"
    /\ UNCHANGED <<awake, malformed, strays, attempts, everConnected>>

\* setTimeout(connect): a timer goes off; its connect clears the one remembered.
TimerFires(s) ==
    /\ \/ retryTimer /\ UNCHANGED strays
       \/ strays > 0 /\ strays' = strays - 1
    /\ connect(s, everConnected)
    /\ UNCHANGED <<enabled, awake, malformed, attempts, everConnected>>

\* The viewer asks for it.  Bound: not while a forgotten timer runs.
reconnect(s) ==
    /\ enabled /\ strays = 0
    /\ attempts' = 0
    /\ connect(s, everConnected)
    /\ UNCHANGED <<enabled, awake, malformed, strays, everConnected>>

-----------------------------------------------------------------------------
(* What the browser reports. *)

\* onopen.
Opens(s) ==
    /\ socket[s] = "connecting"
    /\ socket' = [socket EXCEPT ![s] = "open"]
    /\ everConnected' = TRUE
    /\ attempts' = 0
    /\ status' = "connected"
    /\ UNCHANGED <<enabled, awake, malformed, socketRef, retryTimer, strays, closingDeliberately>>

\* Mutants: the hook does not say that the socket dropped; it does not count; it makes
\* one attempt too many.
SaysNothing == status
NotCounted(n) == n
PastTheLimit(n) == n > MaxAttempts

Dropped == "reconnecting"

Attempt(n) == n + 1

Exhausted(n) == n >= MaxAttempts

\* onclose, of any socket: the ref is dropped whatever it holds.
Closes(s) ==
    /\ socket[s] # "closed"
    /\ socket' = [socket EXCEPT ![s] = "closed"]
    /\ socketRef' = "none"
    /\ \/ /\ closingDeliberately
          /\ UNCHANGED <<retryTimer, strays, attempts, status>>
       \/ /\ ~closingDeliberately
          /\ Exhausted(attempts)
          /\ status' = "disconnected"
          /\ UNCHANGED <<retryTimer, strays, attempts>>
       \/ /\ ~closingDeliberately
          /\ ~Exhausted(attempts)
          /\ attempts' = Attempt(attempts)
          /\ status' = Dropped
          /\ retryTimer' = TRUE
          /\ strays' = IF retryTimer THEN strays + 1 ELSE strays
    /\ UNCHANGED <<enabled, awake, malformed, everConnected, closingDeliberately>>

\* The browser is offline: the socket is closed before it notices by itself.
GoesOffline ==
    /\ awake
    /\ awake' = FALSE
    /\ socket' = IF enabled THEN CloseRef(socket) ELSE socket
    /\ UNCHANGED <<enabled, malformed, refs, status>>

Hides ==
    /\ awake
    /\ awake' = FALSE
    /\ UNCHANGED <<enabled, malformed, socket, refs, status>>

\* Online, or visible, again: retryNow, if the hook is there and has no socket.
Wakes ==
    /\ ~awake
    /\ awake' = TRUE
    /\ IF enabled /\ socketRef = "none"
       THEN /\ attempts' = 0
            /\ \E s \in Sockets : connect(s, everConnected)
            /\ UNCHANGED <<strays, everConnected>>
       ELSE UNCHANGED <<socket, refs, status>>
    /\ UNCHANGED <<enabled, malformed>>

-----------------------------------------------------------------------------
(* What the hook promises. *)

SocketOK ==
    /\ enabled \in BOOLEAN /\ awake \in BOOLEAN /\ malformed \in BOOLEAN
    /\ socket \in [Sockets -> {"closed", "connecting", "open", "closing"}]
    /\ socketRef \in Sockets \cup {"none"}
    /\ retryTimer \in BOOLEAN /\ strays \in Nat
    /\ attempts \in 0 .. MaxAttempts
    /\ everConnected \in BOOLEAN /\ closingDeliberately \in BOOLEAN
    /\ status \in {"connecting", "connected", "reconnecting", "disconnected"}

\* The badge says "Live" only over a socket that is open, or whose end the browser has
\* not reported, whichever of several the hook remembers (usePollWebSocket.ts:179-193).
BadgeIsHonest ==
    enabled /\ status = "connected" => \E s \in Sockets : socket[s] \in {"open", "closing"}

\* A badge that says the hook is at it means that something will happen: a socket is
\* there to open or close, or a timer runs (usePollWebSocket.ts:6-13).
SomebodyTries ==
    enabled /\ status \in {"connecting", "reconnecting"} =>
        retryTimer \/ strays > 0 \/ \E s \in Sockets : socket[s] # "closed"

=============================================================================

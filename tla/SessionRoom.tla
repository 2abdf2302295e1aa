---------------------------- MODULE SessionRoom ----------------------------
(***************************************************************************)
(* One planning session and those who follow it: the participants, who come*)
(* with invite tokens; the handlers, which write the session and publish   *)
(* it; the screens, which are told over WebSockets; and its deletion in the*)
(* CMS.                                                                    *)
(*                                                                         *)
(* A handler that has written the session publishes the state it has       *)
(* written on the channel of the session (web_api.py,                      *)
(* _http_shared._publish_state).  A screen is given the state when it      *)
(* connects, then subscribes, then forwards what is published              *)
(* (ws_manager.redis_pubsub_listener).                                     *)
(*                                                                         *)
(* A state of the session is the number of the write that made it.  A token*)
(* stands for the key web:<token> of Redis.                                *)
(***************************************************************************)
EXTENDS Naturals, Sequences

CONSTANTS
    Screens,  \* browser tabs with a WebSocket
    Tokens,   \* invite tokens, each minted at most once
    MaxStates \* bound: the writes of the session

ASSUME RoomAssumption == MaxStates \in Nat

VARIABLES
    latest,     \* the last write of the session
    present,    \* its key is in Redis
    publishing, \* writes whose handler is about to publish
    guests,     \* tokens a request under way has resolved
    checked,    \* a task request of the CMS has seen the row
    entry,      \* the row of cms_sessions: "shown" or "deleted"
    valid,      \* tokens in Redis
    minted,     \* history: tokens that were ever minted
    deletion,   \* cms_delete_session: "none", "live", "purge", "done", "failed"
    unscanned,  \* tokens the SCAN of the purge is still to return
    condemned,  \* history: tokens that were valid when the purge began
    screen,     \* the WebSocket of a screen
    shown,      \* the state a screen shows, 0: none or an empty session
    inbox,      \* what its Redis connection has received
    broken,     \* history: screens whose Redis connection has failed
    unheard     \* history: writes whose publication has failed

session  == <<latest, present>>
requests == <<publishing, guests, checked>>
invites  == <<valid, minted>>
deleting == <<entry, deletion, unscanned, condemned>>
sockets  == <<screen, shown, inbox>>
faults   == <<broken, unheard>>
roomVars == <<session, requests, invites, deleting, sockets, faults>>

RoomInit ==
    /\ latest = 0 /\ present = TRUE
    /\ publishing = {} /\ guests = {} /\ checked = FALSE
    /\ valid = {} /\ minted = {}
    /\ entry = "shown" /\ deletion = "none" /\ unscanned = {} /\ condemned = {}
    /\ screen = [s \in Screens |-> "closed"]
    /\ shown = [s \in Screens |-> 0]
    /\ inbox = [s \in Screens |-> <<>>]
    /\ broken = {} /\ unheard = {}

-----------------------------------------------------------------------------
(* The requests.                                                           *)

\* SET of a handler, which publishes it or not.  The key is there again if it
\* was deleted.
SaveState(publishes) ==
    /\ latest < MaxStates
    /\ latest' = latest + 1 /\ present' = TRUE
    /\ publishing' = IF publishes THEN publishing \cup {latest + 1} ELSE publishing

\* The manager plays the session: the route asks for no token and does not mind
\* a deleted row.
ManagerWrites ==
    /\ SaveState(TRUE)
    /\ UNCHANGED <<guests, checked, invites, deleting, sockets, faults>>

\* A state request creates the session it does not find, as the first read of a
\* screen does.
CreateEmpty ==
    /\ ~present
    /\ SaveState(FALSE)
    /\ UNCHANGED <<guests, checked, invites, deleting, sockets, faults>>

\* A participant's request looks its token up...
Resolve(t) ==
    /\ t \in valid
    /\ guests' = guests \cup {t}
    /\ UNCHANGED <<session, publishing, checked, invites, deleting, sockets, faults>>

\* ...and votes: that is published.
Vote(t) ==
    /\ t \in guests
    /\ SaveState(TRUE)
    /\ guests' = guests \ {t}
    /\ UNCHANGED <<checked, invites, deleting, sockets, faults>>

\* Or joins: a second join, with another name or role, is not published.
JoinRoom(t) ==
    /\ t \in guests
    /\ \E added \in BOOLEAN : SaveState(added)
    /\ guests' = guests \ {t}
    /\ UNCHANGED <<checked, invites, deleting, sockets, faults>>

\* A task request of the CMS looks for a row that is not deleted...
CmsLooks ==
    /\ entry = "shown" /\ ~checked
    /\ checked' = TRUE
    /\ UNCHANGED <<session, publishing, guests, invites, deleting, sockets, faults>>

\* ...and edits the queue, which it does not publish.
CmsWrites ==
    /\ checked
    /\ SaveState(FALSE)
    /\ checked' = FALSE
    /\ UNCHANGED <<guests, invites, deleting, sockets, faults>>

\* Or closes the session, and publishes that.
CmsCloses ==
    /\ checked
    /\ SaveState(TRUE)
    /\ checked' = FALSE
    /\ UNCHANGED <<guests, invites, deleting, sockets, faults>>

\* Redis hands the message to those who have subscribed.
Publish(w) ==
    /\ w \in publishing
    /\ publishing' = publishing \ {w}
    /\ inbox' = [s \in Screens |->
                    IF screen[s] = "listening" THEN Append(inbox[s], w) ELSE inbox[s]]
    /\ UNCHANGED <<session, guests, checked, invites, deleting, screen, shown, faults>>

\* A publication that fails is logged; the write stands.
PublishFails(w) ==
    /\ w \in publishing
    /\ publishing' = publishing \ {w}
    /\ unheard' = unheard \cup {w}
    /\ UNCHANGED <<session, guests, checked, invites, deleting, sockets, broken>>

-----------------------------------------------------------------------------
(* The tokens.                                                             *)

\* A token is minted for a chat, whatever has become of the session.  A SCAN
\* under way may or may not return the new key.
Mint(t) ==
    /\ t \notin minted
    /\ minted' = minted \cup {t}
    /\ valid' = valid \cup {t}
    /\ \/ UNCHANGED unscanned
       \/ deletion = "purge" /\ unscanned' = unscanned \cup {t}
    /\ UNCHANGED <<session, requests, entry, deletion, condemned, sockets, faults>>

\* A token is revoked in the CMS, or its eight hours are over.
Revoke(t) ==
    /\ t \in valid
    /\ valid' = valid \ {t}
    /\ UNCHANGED <<session, requests, minted, deleting, sockets, faults>>

-----------------------------------------------------------------------------
(* The deletion.                                                           *)

DeleteRow ==
    /\ entry = "shown" /\ deletion = "none"
    /\ entry' = "deleted" /\ deletion' = "live"
    /\ UNCHANGED <<session, requests, invites, unscanned, condemned, sockets, faults>>

\* The live state is dropped; an error is logged and the deletion goes on with
\* the tokens.
DropLive ==
    /\ deletion = "live"
    /\ present' \in {FALSE, present}
    /\ deletion' = "purge" /\ unscanned' = valid /\ condemned' = valid
    /\ UNCHANGED <<latest, requests, entry, invites, sockets, faults>>

\* Mutant: the loop ends with the first key it deletes, as that of
\* cms_revoke_token does.
PurgeFirst(t) ==
    /\ deletion = "purge" /\ t \in unscanned
    /\ valid' = valid \ {t}
    /\ unscanned' = {}
    /\ UNCHANGED <<session, requests, minted, entry, deletion, condemned, sockets, faults>>

\* A key the SCAN returns is deleted.
Purge(t) ==
    /\ deletion = "purge" /\ t \in unscanned
    /\ valid' = valid \ {t}
    /\ unscanned' = unscanned \ {t}
    /\ UNCHANGED <<session, requests, minted, entry, deletion, condemned, sockets, faults>>

PurgeEnds ==
    /\ deletion = "purge" /\ unscanned = {}
    /\ deletion' = "done"
    /\ UNCHANGED <<session, requests, invites, entry, unscanned, condemned, sockets, faults>>

\* An error ends the purge and is logged.
PurgeFails ==
    /\ deletion = "purge"
    /\ deletion' = "failed" /\ unscanned' = {}
    /\ UNCHANGED <<session, requests, invites, entry, condemned, sockets, faults>>

-----------------------------------------------------------------------------
(* The screens.                                                            *)

SetScreen(s, state) == screen' = [screen EXCEPT ![s] = state]

\* The token is looked up and the socket accepted.
Connect(s) ==
    /\ screen[s] = "closed" /\ valid # {}
    /\ SetScreen(s, "reading")
    /\ UNCHANGED <<session, requests, invites, deleting, shown, inbox, faults>>

\* The state is read and sent.
SendInitial(s) ==
    /\ screen[s] = "reading" /\ present
    /\ SetScreen(s, "subscribing")
    /\ shown' = [shown EXCEPT ![s] = latest]
    /\ UNCHANGED <<session, requests, invites, deleting, inbox, faults>>

Subscribe(s) ==
    /\ screen[s] = "subscribing"
    /\ SetScreen(s, "listening")
    /\ UNCHANGED <<session, requests, invites, deleting, shown, inbox, faults>>

\* Mutant: the listener returns after the message it has waited for.
ForwardOnce(s) ==
    /\ screen[s] = "listening" /\ inbox[s] # <<>>
    /\ shown' = [shown EXCEPT ![s] = Head(inbox[s])]
    /\ inbox' = [inbox EXCEPT ![s] = <<>>]
    /\ SetScreen(s, "deaf")
    /\ UNCHANGED <<session, requests, invites, deleting, faults>>

\* A message is forwarded.  A silence of thirty seconds, which only makes the
\* listener ask again, is no step.
Forward(s) ==
    /\ screen[s] = "listening" /\ inbox[s] # <<>>
    /\ shown' = [shown EXCEPT ![s] = Head(inbox[s])]
    /\ inbox' = [inbox EXCEPT ![s] = Tail(inbox[s])]
    /\ UNCHANGED <<session, requests, invites, deleting, screen, faults>>

\* An error of Redis ends the listener.  Nobody looks at its task: the socket
\* stays open and is pinged.
ListenerFails(s) ==
    /\ screen[s] \in {"subscribing", "listening"}
    /\ SetScreen(s, "deaf")
    /\ inbox' = [inbox EXCEPT ![s] = <<>>]
    /\ broken' = broken \cup {s}
    /\ UNCHANGED <<session, requests, invites, deleting, shown, unheard>>

Closed(s) ==
    /\ SetScreen(s, "closed")
    /\ shown' = [shown EXCEPT ![s] = 0]
    /\ inbox' = [inbox EXCEPT ![s] = <<>>]
    /\ broken' = broken \ {s}

\* The tab is closed, its connection is lost, or the first state could not be
\* sent.
Leave(s) ==
    /\ screen[s] # "closed"
    /\ Closed(s)
    /\ UNCHANGED <<session, requests, invites, deleting, unheard>>

-----------------------------------------------------------------------------
\* The service stops and starts again: requests, sockets and a deletion under
\* way end where they are.
RestartService ==
    /\ publishing' = {} /\ guests' = {} /\ checked' = FALSE
    /\ deletion' = IF deletion \in {"live", "purge"} THEN "failed" ELSE deletion
    /\ unscanned' = {}
    /\ screen' = [s \in Screens |-> "closed"]
    /\ shown' = [s \in Screens |-> 0]
    /\ inbox' = [s \in Screens |-> <<>>]
    /\ broken' = {}
    /\ UNCHANGED <<session, invites, entry, condemned, unheard>>

Handlers ==
    \/ ManagerWrites \/ CreateEmpty \/ CmsLooks \/ CmsWrites \/ CmsCloses
    \/ \E t \in Tokens : Resolve(t) \/ Vote(t) \/ JoinRoom(t)
    \/ \E w \in 1..MaxStates : Publish(w) \/ PublishFails(w)
Invites  == \E t \in Tokens : Mint(t) \/ Revoke(t)
Deletion == DeleteRow \/ DropLive \/ PurgeEnds \/ PurgeFails \/ \E t \in Tokens : Purge(t)
Sockets  ==
    \E s \in Screens :
        \/ Connect(s) \/ SendInitial(s) \/ Subscribe(s)
        \/ Forward(s) \/ ListenerFails(s) \/ Leave(s)

RoomNext == Handlers \/ Invites \/ Deletion \/ Sockets \/ RestartService

\* The event loop runs what can go on: the handler that has its reply and the
\* listener that has a message.  Nobody has to write, mint, connect, delete or
\* leave, and nothing has to fail.
RoomFairness ==
    /\ \A w \in 1..MaxStates : WF_roomVars(Publish(w))
    /\ \A s \in Screens : WF_roomVars(Forward(s))

RoomSpec == RoomInit /\ [][RoomNext]_roomVars /\ RoomFairness

-----------------------------------------------------------------------------
\* "participants lose access immediately when an admin removes the session"
\* (cms/sessions.py): after a purge that met no error none of the tokens there
\* were when it began is valid, whatever was minted, revoked or resolved while
\* it scanned.
TokensEndWithSession == deletion = "done" => valid \cap condemned = {}

\* A state that is about to be published is shown by each screen that listens,
\* unless its tab is closed, the publication or the screen's connection to Redis
\* fails or the service stops: neither earlier messages nor silence nor the
\* deletion of the session ends the listener.
ChangeReachesScreens ==
    \A w \in 1..MaxStates, s \in Screens :
        w \in publishing /\ screen[s] = "listening" ~>
            \/ shown[s] = w \/ screen[s] = "closed"
            \/ s \in broken \/ w \in unheard
=============================================================================

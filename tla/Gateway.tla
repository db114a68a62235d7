------------------------------- MODULE Gateway -------------------------------
(***************************************************************************)
(* The chat WebSockets of services/gateway.  A request whose access token  *)
(* AccessTokens has accepted is upgraded and bridged: ChatWSConnector      *)
(* dials a WebSocket of services/chat for it, registers the pair under the *)
(* user id of the path, in place of an earlier one, and forwards frames in *)
(* both directions until both forwarders have ended.  Then it removes and  *)
(* closes whatever is registered under that user id.                       *)
(*                                                                         *)
(* A forwarder blocks in ReadMessage, without a deadline, and ends when    *)
(* its read or the write of a frame fails.  Frames are not modelled, only  *)
(* that one may come.  A connection has three ends here: the client, the   *)
(* gateway's end of the chat connection, and the chat service's.           *)
(*                                                                         *)
(* Left out: ChatWSConnector.Close, which nothing calls; the context of a  *)
(* bridge, which Disconnect cancels just before it closes the chat end.    *)
(***************************************************************************)
EXTENDS AccessTokens

CONSTANT NoRequest

ASSUME NoRequestAssumption == NoRequest \notin Requests

VARIABLES
  path,        \* the user id in the path of a bridged request
  registered,  \* connections[userID]
  bridged,     \* requests whose Connect has not returned
  client, chat, peer,  \* requests whose ends are open
  up, down,    \* requests whose forwarders run, client to chat and chat to client
  \* history
  replaced     \* bridges that were overwritten in connections

bridge == <<path, registered, bridged, client, chat, peer, up, down, replaced>>
gvars == <<avars, bridge>>

GInit ==
  /\ AInit
  /\ path = [r \in Requests |-> NoUser]
  /\ registered = [u \in Users |-> NoRequest]
  /\ bridged = {} /\ client = {} /\ chat = {} /\ peer = {}
  /\ up = {} /\ down = {} /\ replaced = {}

-----------------------------------------------------------------------------
Open(r, u) ==
  /\ GoOn(r, "over")
  /\ path' = [path EXCEPT ![r] = u]
  /\ registered' = [registered EXCEPT ![u] = r]
  /\ replaced' = replaced \cup ({registered[u]} \ {NoRequest})
  /\ bridged' = bridged \cup {r}
  /\ client' = client \cup {r} /\ chat' = chat \cup {r} /\ peer' = peer \cup {r}
  /\ up' = up \cup {r} /\ down' = down \cup {r}
  /\ UNCHANGED <<now, signed, listed, active, token, out, late, lapsed, admitted>>

\* A route outside the group that wsAuthMiddleware guards.
Connect_Unguarded(r, u) == step[r] = "cleared" /\ Open(r, u)

\* The dial succeeds and the connection is registered.
Connect(r, u) == step[r] = "accepted" /\ Open(r, u)

ClientLeaves(r) ==
  /\ r \in client
  /\ client' = client \ {r}
  /\ UNCHANGED <<avars, path, registered, bridged, chat, peer, up, down, replaced>>

\* The chat service stops or restarts, or wsChatHandler returns because its
\* read failed.
PeerLeaves(r) ==
  /\ r \in peer
  /\ peer' = peer \ {r}
  /\ UNCHANGED <<avars, path, registered, bridged, client, chat, up, down, replaced>>

UpEnds(r) ==
  /\ r \in up
  /\ up' = up \ {r}
  /\ UNCHANGED <<avars, path, registered, bridged, client, chat, peer, down, replaced>>

DownEnds(r) ==
  /\ r \in down
  /\ down' = down \ {r}
  /\ UNCHANGED <<avars, path, registered, bridged, client, chat, peer, up, replaced>>

ChatOpen(r) == r \in chat /\ r \in peer

\* forwardClientToChat: the client has gone, or a frame of it finds no chat.
UpReadFails(r) == r \notin client /\ UpEnds(r)
UpWriteFails(r) == r \in client /\ ~ChatOpen(r) /\ UpEnds(r)

\* A forwarder that does not notice that its own end was closed.
DownReadFails_Peer(r) == r \notin peer /\ r \in chat /\ DownEnds(r)

\* forwardChatToClient: either end of the chat connection was closed, or a
\* frame of the chat finds no client.
DownReadFails(r) == ~ChatOpen(r) /\ DownEnds(r)
DownWriteFails(r) == ChatOpen(r) /\ r \notin client /\ DownEnds(r)

\* A Disconnect that forgets the connection and leaves it open.
Return_NoClose(r) ==
  /\ r \in bridged /\ r \notin up /\ r \notin down
  /\ bridged' = bridged \ {r}
  /\ registered' = [registered EXCEPT ![path[r]] = NoRequest]
  /\ client' = client \ {r}
  /\ UNCHANGED <<avars, path, chat, peer, up, down, replaced>>

\* Both forwarders have ended: Disconnect, and the client's end is closed
\* when the handler returns.
Return(r) ==
  /\ r \in bridged /\ r \notin up /\ r \notin down
  /\ bridged' = bridged \ {r}
  /\ registered' = [registered EXCEPT ![path[r]] = NoRequest]
  /\ chat' = chat \ {registered[path[r]]}
  /\ client' = client \ {r}
  /\ UNCHANGED <<avars, path, peer, up, down, replaced>>

-----------------------------------------------------------------------------
EndStep(r) == ClientLeaves(r) \/ PeerLeaves(r)
ForwarderStep(r) == UpReadFails(r) \/ UpWriteFails(r) \/ DownReadFails(r) \/ DownWriteFails(r)

GNext ==
  \/ ANext /\ UNCHANGED bridge
  \/ \E r \in Requests :
       (\E u \in Users : Connect(r, u)) \/ EndStep(r) \/ ForwarderStep(r) \/ Return(r)

GSpec == GInit /\ [][GNext]_gvars

\* A read that fails returns, and so does Connect.  That a frame comes, that
\* a client leaves or a service stops is nobody's duty.
FairGSpec ==
  /\ GSpec
  /\ \A r \in Requests :
       WF_gvars(UpReadFails(r)) /\ WF_gvars(DownReadFails(r)) /\ WF_gvars(Return(r))

-----------------------------------------------------------------------------
GTypeOK ==
  /\ ATypeOK
  /\ path \in [Requests -> Users \cup {NoUser}]
  /\ \A r \in bridged : path[r] \in Users
  /\ registered \in [Users -> Requests \cup {NoRequest}]
  /\ bridged \subseteq admitted
  /\ client \subseteq bridged /\ up \subseteq bridged /\ down \subseteq bridged
  /\ chat \subseteq Requests /\ peer \subseteq Requests
  /\ replaced \subseteq Requests

\* However connections of a user open, replace each other and end: what is
\* registered is a bridge of that user whose Connect still runs and whose
\* chat end is open, and no chat end is open without being registered, except
\* those that another connection of the user has pushed out of the map.
ConnectionsAccounted ==
  /\ \A u \in Users : registered[u] # NoRequest =>
       registered[u] \in bridged \cap chat /\ path[registered[u]] = u
  /\ \A r \in chat : registered[path[r]] = r \/ r \in replaced

\* A bridge whose client has gone, and whose chat connection one of the two
\* services has closed, comes to its end, the replaced ones included.
DeadBridgesReturn ==
  \A r \in Requests :
    (r \in bridged /\ r \notin client /\ ~ChatOpen(r)) ~> (r \notin bridged)

-----------------------------------------------------------------------------
\* A statement of the repository that the code does not keep: Connect waits
\* "for either direction to close".
EitherDirectionEnds ==
  \A r \in Requests :
    (r \in bridged /\ (r \notin up \/ r \notin down)) ~> (r \notin bridged)
=============================================================================

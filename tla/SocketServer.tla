----------------------------- MODULE SocketServer -----------------------------
(***************************************************************************)
(* SocketServer and SocketClient (signalling/common/socket): a listener    *)
(* with its accepted connections, read in the arbitrary order of a hash    *)
(* map, and the workers that connect to it.  Connections are numbered in   *)
(* the order they are opened; the listener accepts them in that order, so  *)
(* the number is also the token.  A signal takes one read: how it is cut   *)
(* out of a stream of bytes is the subject of Connection.                  *)
(***************************************************************************)
EXTENDS Integers, Sequences

CONSTANTS
  Workers,          \* the workers, one connection each at a time
  Activities,       \* ActivityIds
  ActivitiesOf,     \* worker -> its activities, in the order it announces
  MaxConnections,   \* bound on the connections opened in a behaviour
  Deaths            \* workers may die and be started again

ASSUME ServerAssumption ==
  /\ Workers # {}
  /\ ActivitiesOf \in [Workers -> Seq(Activities)]
  /\ \A a \in Activities : \E w \in Workers :
       \E i \in DOMAIN ActivitiesOf[w] : ActivitiesOf[w][i] = a
  /\ MaxConnections \in Nat
  /\ Deaths \in BOOLEAN

Tokens == 1..MaxConnections

VARIABLES
  bound,      \* the listener exists
  opened,     \* connections opened by clients
  accepted,   \* num_accepted_connections
  owner,      \* connection -> worker
  toServer,   \* connection -> signals written by the worker, not returned
  buffered,   \* connection -> how many of them are in recv_buffer
  readable,   \* connections with stream_readable set
  events,     \* connections with a readiness event that no poll has returned
  closed,     \* connections whose client end is closed
  toClient,   \* connection -> signals written by the server, not read
  said        \* worker -> hellos it has sent on its connection, or Off

serverVars == <<bound, accepted, buffered, readable>>
clientVars == <<opened, owner, closed, said>>
socketVars == <<serverVars, clientVars, events, toServer, toClient>>

Off == -1

Hello(a) == [type |-> "ActivityHello", id |-> a]
Core(a)  == [type |-> "Core", id |-> a]

Hosts(w, a) == \E i \in DOMAIN ActivitiesOf[w] : ActivitiesOf[w][i] = a

SocketInit ==
  /\ bound = FALSE /\ opened = 0 /\ accepted = 0
  /\ owner = [c \in Tokens |-> CHOOSE w \in Workers : TRUE]
  /\ toServer = [c \in Tokens |-> << >>]
  /\ buffered = [c \in Tokens |-> 0]
  /\ readable = {} /\ events = {} /\ closed = {}
  /\ toClient = [c \in Tokens |-> << >>]
  /\ said = [w \in Workers |-> Off]

(* SocketServer::new and with_listener.                                    *)
Bind == ~bound /\ bound' = TRUE

-----------------------------------------------------------------------------
(***************************************************************************)
(* SocketServer::receive.                                                  *)
(***************************************************************************)
(* Mutant: only an event makes a connection readable.                      *)
IsReadableByEvent(c, ready) == c \in ready

(* Connection::is_readable.                                                *)
IsReadable(c, ready) == c \in ready \/ buffered[c] > 0

(* What Connection::read returns: a buffered signal; otherwise what is in  *)
(* the stream, unless its end is reached, which is an error at once.       *)
ReadsError(c, ready)  == buffered[c] = 0 /\ c \in ready /\ c \in closed
ReadsSignal(c, ready) ==
  toServer[c] # << >> /\ (buffered[c] > 0 \/ (c \in ready /\ c \notin closed))

Returns(c, ready) == ReadsError(c, ready) \/ ReadsSignal(c, ready)

(* receive_on_readable_connections finds a readable connection: directly,  *)
(* or in a second pass after a poll.  A read that finds nothing takes the  *)
(* connection's flag, so after a first pass without result only those with *)
(* an event have it.                                                       *)
Polled == \A c \in 1..accepted : ~Returns(c, readable)
Ready  == IF Polled THEN events \cap 1..accepted ELSE readable

(* The poll is edge-triggered: it returns an event once.  All connections  *)
(* that wait are accepted; what has happened on one before is an event     *)
(* from its registration on, so for a later poll.                          *)
Poll ==
  IF Polled THEN accepted' = opened /\ events' = events \ 1..accepted
            ELSE UNCHANGED <<accepted, events>>

(* Connections the pass may have come across before the one it returns.    *)
Drained == {c \in Ready : ~Returns(c, Ready)}

ReceiveSignal(c) ==
  /\ bound /\ c \in 1..accepted /\ IsReadable(c, Ready) /\ ReadsSignal(c, Ready)
  /\ Poll
  /\ toServer' = [toServer EXCEPT ![c] = Tail(@)]
  /\ \E seen \in SUBSET Drained :
       IF buffered[c] > 0
       THEN buffered' = [buffered EXCEPT ![c] = @ - 1] /\ readable' = Ready \ seen
       ELSE /\ buffered' = [buffered EXCEPT ![c] = Len(toServer[c]) - 1]
            /\ readable' = Ready \ (seen \cup {c})
  /\ UNCHANGED <<bound, clientVars, toClient>>

(* Mutant: an error ends the readiness of the stream.                      *)
ReceiveErrorOnce(c) ==
  /\ bound /\ c \in 1..accepted /\ ReadsError(c, Ready)
  /\ Poll
  /\ buffered' = [buffered EXCEPT ![c] = Len(toServer[c])]
  /\ \E seen \in SUBSET Drained : readable' = Ready \ (seen \cup {c})
  /\ UNCHANGED <<bound, clientVars, toServer, toClient>>

(* The end of the stream: what was read before it stays in the buffer, and *)
(* stream_readable stays set, so the error comes again.                    *)
ReceiveError(c) ==
  /\ bound /\ c \in 1..accepted /\ ReadsError(c, Ready)
  /\ Poll
  /\ buffered' = [buffered EXCEPT ![c] = Len(toServer[c])]
  /\ \E seen \in SUBSET Drained : readable' = Ready \ seen
  /\ UNCHANGED <<bound, clientVars, toServer, toClient>>

(* Only connections were accepted, or the timeout has passed.              *)
ReceiveNothing ==
  /\ bound /\ \A c \in 1..accepted : ~Returns(c, Ready)
  /\ Poll
  /\ readable' = {}
  /\ UNCHANGED <<bound, buffered, clientVars, toServer, toClient>>

(* SocketServer::send on an open connection.  A write on a connection that *)
(* the client has closed is lost or fails.                                 *)
Send(c, sig) ==
  toClient' = IF c \in closed THEN toClient ELSE [toClient EXCEPT ![c] = Append(@, sig)]

SendFails(c) == c \in closed

-----------------------------------------------------------------------------
(***************************************************************************)
(* SocketClient.                                                           *)
(***************************************************************************)
(* The connection of a worker that has one: the last it opened.            *)
ConnectionOf(w) ==
  CHOOSE c \in 1..opened : owner[c] = w /\ \A d \in 1..opened : owner[d] = w => d <= c

(* connect tries every 300 ms until the server listens.                    *)
OpenConnection(w) ==
  /\ bound /\ said[w] = Off /\ opened < MaxConnections
  /\ opened' = opened + 1
  /\ owner' = [owner EXCEPT ![opened + 1] = w]
  /\ said' = [said EXCEPT ![w] = 0]
  /\ UNCHANGED <<serverVars, events, closed, toServer, toClient>>

(* ... and then sends the connect signals one after the other.             *)
SayHello(w) ==
  /\ said[w] # Off /\ said[w] < Len(ActivitiesOf[w])
  /\ said' = [said EXCEPT ![w] = @ + 1]
  /\ toServer' = [toServer EXCEPT
                    ![ConnectionOf(w)] = Append(@, Hello(ActivitiesOf[w][said[w] + 1]))]
  /\ events' = events \cup {ConnectionOf(w)}
  /\ UNCHANGED <<serverVars, opened, owner, closed, toClient>>

(* The worker takes a signal and, if it is for an activity, answers.       *)
Answer(w) ==
  /\ said[w] = Len(ActivitiesOf[w])
  /\ LET c == ConnectionOf(w) IN
       /\ toClient[c] # << >>
       /\ toClient' = [toClient EXCEPT ![c] = Tail(@)]
       /\ IF Head(toClient[c]).type = "Core"
          THEN /\ toServer' = [toServer EXCEPT ![c] = Append(@, Head(toClient[c]))]
               /\ events' = events \cup {c}
          ELSE UNCHANGED <<toServer, events>>
  /\ UNCHANGED <<serverVars, clientVars>>

(* The worker dies and closes its connection; it may be started again.     *)
Die(w) ==
  /\ Deaths /\ said[w] # Off
  /\ closed' = closed \cup {ConnectionOf(w)} /\ events' = events \cup {ConnectionOf(w)}
  /\ said' = [said EXCEPT ![w] = Off]
  /\ UNCHANGED <<serverVars, opened, owner, toServer, toClient>>

Client(w) == OpenConnection(w) \/ SayHello(w) \/ Answer(w)
=============================================================================

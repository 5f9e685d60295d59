----------------------------- MODULE UsageEvents ----------------------------
(***************************************************************************)
(* The usage events of API keys, and the process they live in: runServer   *)
(* opens one AMQP channel before it listens, event.Publisher starts a      *)
(* goroutine for each event, and RabbitMQEventHandler publishes it over    *)
(* that channel without confirmation.                                      *)
(*                                                                         *)
(* A goroutine is as far as an event gets on its own: the request does not *)
(* wait for it, nobody reads the error of the publishing, and the channel  *)
(* is opened again only by the next process.                               *)
(***************************************************************************)
CONSTANTS
    Requests,  \* POST requests; each raises one event at most
    Outages    \* what may go wrong: a subset of {"close", "exit"}

VARIABLES
    channel,   \* of the process: "open" or "closed"; "none" when there is no process
    event      \* of a request: "none", "raised" (its goroutine has not published
               \* it), "taken" by the broker, or "lost"

vars == <<channel, event>>

Serving == channel # "none"

\* initBrokerChannel, then ListenAndServe.  Without a broker the process exits and
\* is started again: it stays down for as long as that takes.
Start ==
    /\ channel = "none"
    /\ channel' = "open"
    /\ UNCHANGED event

\* The process dies, and so do its goroutines.
Exit ==
    /\ "exit" \in Outages
    /\ channel' = "none"
    /\ event' = [r \in Requests |-> IF event[r] = "raised" THEN "lost" ELSE event[r]]

\* NotifyAll: go e.notify(event).
NotifyAll(r) ==
    /\ Serving
    /\ event[r] = "none"
    /\ event' = [event EXCEPT ![r] = "raised"]
    /\ UNCHANGED channel

\* The goroutine publishes.  Publish returns nil as soon as the message is on the
\* socket, or else an error that Notify drops.
Notify(r) ==
    /\ event[r] = "raised"
    /\ event' = [event EXCEPT ![r] = IF channel = "open" THEN "taken" ELSE "lost"]
    /\ UNCHANGED channel

\* The broker goes away or closes the channel.  From there on a message is lost on
\* the socket or refused by the client, which makes no difference to anybody.
ChannelCloses ==
    /\ "close" \in Outages
    /\ channel = "open"
    /\ channel' = "closed"
    /\ UNCHANGED event

Init ==
    /\ channel = "none"
    /\ event = [r \in Requests |-> "none"]

Next ==
    \/ Start \/ Exit \/ ChannelCloses
    \/ \E r \in Requests : NotifyAll(r) \/ Notify(r)

Spec == Init /\ [][Next]_vars
=============================================================================

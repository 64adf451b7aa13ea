------------------------------ MODULE EventFeed ------------------------------
(* What the event bus and the WebSocket promise a web client, whatever buffers
   and tasks are between: the host's events are numbered, and a client that has
   joined hears every event after the moment it joined, one by one, in order
   and once, until its feed ends.  Only a new feed may leave events out.    *)
EXTENDS Naturals

CONSTANT Clients

VARIABLES
  log,          \* number of events emitted
  live,         \* [client]: it has a feed
  at            \* [client]: the last event heard, or where its feed began

feedVars == <<log, live, at>>

FeedInit ==
  /\ log = 0
  /\ live = [k \in Clients |-> FALSE]
  /\ at = [k \in Clients |-> 0]

FeedEmit ==
  /\ log' = log + 1
  /\ UNCHANGED <<live, at>>

FeedJoin(k) ==
  /\ ~live[k]
  /\ live' = [live EXCEPT ![k] = TRUE]
  /\ at' = [at EXCEPT ![k] = log]
  /\ UNCHANGED log

FeedHear(k) ==
  /\ live[k]
  /\ at[k] < log
  /\ at' = [at EXCEPT ![k] = @ + 1]
  /\ UNCHANGED <<log, live>>

\* Feeds end together when the host goes down.
FeedEnd(ks) ==
  /\ live' = [k \in Clients |-> live[k] /\ k \notin ks]
  /\ UNCHANGED <<log, at>>

FeedNext ==
  \/ FeedEmit
  \/ \E k \in Clients : FeedJoin(k) \/ FeedHear(k)
  \/ \E ks \in SUBSET Clients : FeedEnd(ks)

FeedSpec == FeedInit /\ [][FeedNext]_feedVars
=============================================================================

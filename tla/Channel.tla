------------------------------- MODULE Channel -------------------------------
(***************************************************************************)
(* What a Channel and the Epoller that watches it do to each other         *)
(* (src/net/Channel.cc, Channel.h, Poller/Epoller.cc), as functions on a   *)
(* record with the channel's fields events, added and index, which may     *)
(* have other fields.  ChannelMap_ and the kernel's interest list hold the *)
(* channel exactly when its index is kAdded.                               *)
(***************************************************************************)
EXTENDS Sequences

Indices == {"kNew", "kAdded", "kDeleted"}

Registered(ch) == ch.index = "kAdded"

\* Channel::update() and Epoller::updateChannel(): a channel that is not in
\* the epoll set is added whatever its events, one that is there leaves it when
\* no event is left.  Either way added_ is set afterwards.
Update(ch) ==
  [ch EXCEPT !.index = IF Registered(ch) /\ ch.events = {} THEN "kDeleted"
                       ELSE "kAdded",
             !.added = TRUE]

EnableReading(ch) == Update([ch EXCEPT !.events = @ \cup {"in"}])
EnableWriting(ch) == Update([ch EXCEPT !.events = @ \cup {"out"}])
DisableWriting(ch) == Update([ch EXCEPT !.events = @ \ {"out"}])

\* Channel::remove() and Epoller::removeChannel(): out of the epoll set, where
\* it is in it; events_ stays as it was
Remove(ch) ==
  IF ch.added THEN [ch EXCEPT !.added = FALSE, !.index = "kDeleted"] ELSE ch

isWriting(ch) == "out" \in ch.events

\* Channel::handleEvent(): the callbacks that one report runs, in order.
Callbacks(revents) ==
  (IF "err" \in revents THEN <<"error">> ELSE <<>>)
  \o (IF "in" \in revents THEN <<"read">> ELSE <<>>)
  \o (IF "hup" \in revents /\ "in" \notin revents THEN <<"error">> ELSE <<>>)
  \o (IF "out" \in revents THEN <<"write">> ELSE <<>>)

\* What epoll_wait may report: errors and hangups always, the rest on demand.
Reports(ch) ==
  {Callbacks(rev) : rev \in SUBSET (ch.events \cup {"err", "hup"})} \ {<<>>}
==============================================================================

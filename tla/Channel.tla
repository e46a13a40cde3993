------------------------------- MODULE Channel -------------------------------
(***************************************************************************)
(* src/net/channel.{h,cpp} and src/net/epoll_poller.cpp: one channel, its  *)
(* entry in the poller's map and in the epoll set, as operators on a       *)
(* record x that has at least the fields                                   *)
(*   events    events_, a subset of {"IN", "OUT"}                          *)
(*   index     index_: "k_new", "k_added" or "k_deleted"                   *)
(*   mapped    is the channel in channels_?                                *)
(*   polled    is its fd in the epoll set?                                 *)
(*   interest  the events epoll was last told                              *)
(*   failed    the asserts that did not hold                               *)
(* The asserts are compiled in: the build never defines NDEBUG.            *)
(***************************************************************************)
EXTENDS Naturals, Sequences

\* assert(ok) at the line of the source that where names.
Assert_(x, ok, where) == IF ok THEN x ELSE [x EXCEPT !.failed = @ \cup {where}]

is_writing(x) == "OUT" \in x.events
is_none_event(x) == x.events = {}

\* Epoll_Poller::update_channel with the epoll_ctl it issues.
update_channel(x) ==
    IF x.index \in {"k_new", "k_deleted"}
    THEN [Assert_(x, x.mapped <=> x.index = "k_deleted", "epoll_poller.cpp:78")
            EXCEPT !.mapped = TRUE, !.index = "k_added",
                   !.polled = TRUE, !.interest = x.events]
    ELSE LET y == Assert_(x, x.mapped, "epoll_poller.cpp:90")
         IN  IF is_none_event(x)
             THEN [y EXCEPT !.polled = FALSE, !.index = "k_deleted"]
             ELSE [y EXCEPT !.interest = x.events]

\* Channel::remove and Epoll_Poller::remove_channel.
remove(x) ==
    [Assert_(Assert_(x, is_none_event(x), "channel.cpp:95"),
             x.mapped /\ x.index # "k_new", "epoll_poller.cpp:107")
        EXCEPT !.mapped = FALSE, !.polled = FALSE, !.index = "k_new"]

enable_reading(x) == update_channel([x EXCEPT !.events = @ \cup {"IN"}])
enable_writing(x) == update_channel([x EXCEPT !.events = @ \cup {"OUT"}])
disable_writing(x) == update_channel([x EXCEPT !.events = @ \ {"OUT"}])
disable_all(x) == update_channel([x EXCEPT !.events = {}])

\* The callbacks handle_event makes, in its order, for what epoll_wait reported.
handle_event(revents_) ==
    LET If(holds, callback_) == IF holds THEN <<callback_>> ELSE <<>>
    IN  If("HUP" \in revents_ /\ "IN" \notin revents_, "close")
        \o If("ERR" \in revents_, "error")
        \o If("IN" \in revents_, "read")
        \o If("OUT" \in revents_, "write")
=============================================================================

----------------------------- MODULE LibraryView -----------------------------
(***************************************************************************)
(* The list of references in the window of the desktop, and the events     *)
(* that keep it up to date (core, emit_event; ffi, subscribe_events;       *)
(* MainWindowViewModel).                                                   *)
(*                                                                         *)
(* A command changes the library and then publishes an event, and plugins  *)
(* publish status messages at any time.  The subscription of the window    *)
(* is a task that takes events from a channel of its own, which drops the  *)
(* oldest when it is full, and posts them to the UI thread.  That thread   *)
(* reads the library anew for each event that is not a status, one part    *)
(* after the other.                                                        *)
(***************************************************************************)
EXTENDS Naturals, Sequences

CONSTANTS
    Changers,  \* threads that change the library
    Contents,  \* what a part of the library can be
    Channel    \* events the channel holds, 256

Views == {"categories", "items"}

VARIABLES
    content,     \* the parts, as the daemon answers them
    changing,    \* the commands that have changed it and not said so yet
    channel,     \* events the subscription has not received: "change", "status"
    subscribed,  \* the subscription's task runs
    posted,      \* events posted to the UI thread
    running,     \* the desktop has the handle of the daemon
    reading,     \* what the UI thread is to read next, or "nothing"
    view,        \* what the window shows
    untold       \* a change since the last refresh was not published, or not received,
                 \* or the refresh failed (history)

events == <<channel, posted>>
desktop == <<running, reading, view>>
viewVars == <<content, changing, events, subscribed, desktop, untold>>

Kinds == {"change", "status"}
Among(s) == {s[k] : k \in DOMAIN s}

ViewType ==
    /\ content \in [Views -> Contents] /\ view \in [Views -> Contents]
    /\ changing \subseteq Changers
    /\ channel \in Seq(Kinds) /\ posted \in Seq(Kinds) /\ Len(channel) <= Channel
    /\ subscribed \in BOOLEAN /\ running \in BOOLEAN /\ untold \in BOOLEAN
    /\ reading \in Views \cup {"nothing"}

\* The window subscribes, then refreshes.
ViewInit ==
    /\ content \in [Views -> Contents] /\ view \in [Views -> Contents]
    /\ changing = {} /\ channel = <<>> /\ posted = <<>>
    /\ subscribed = TRUE /\ running = TRUE
    /\ reading = "categories" /\ untold = FALSE

-----------------------------------------------------------------------------
ChangeLibrary(c, after) ==
    /\ content' = after
    /\ changing' = changing \cup {c}
    /\ UNCHANGED <<events, subscribed, desktop, untold>>

\* A broadcast channel that is full drops its oldest event.
Published(event) ==
    IF Len(channel) < Channel THEN Append(channel, event) ELSE Append(Tail(channel), event)

\* No event that is still to be received or processed tells of a change.
NoneTells(waiting) == "change" \notin Among(waiting) \cup Among(posted)

\* emit_event, at the end of a command.
EmitEvent(c) ==
    /\ c \in changing
    /\ changing' = changing \ {c}
    /\ channel' = IF subscribed THEN Published("change") ELSE channel
    /\ UNCHANGED <<content, posted, subscribed, desktop, untold>>

\* A command that fails half way publishes nothing.
CommandFails(c) ==
    /\ c \in changing
    /\ changing' = changing \ {c} /\ untold' = TRUE
    /\ UNCHANGED <<content, events, subscribed, desktop>>

\* emit_status: a status message can push the event of a change out of the channel.
EmitStatus ==
    /\ subscribed
    /\ channel' = Published("status")
    /\ untold' = (untold \/ (~NoneTells(channel) /\ NoneTells(channel')))
    /\ UNCHANGED <<content, changing, posted, subscribed, desktop>>

\* The task of subscribe_events: the callback posts the event, or throws, which is logged.
Receive(ok) ==
    /\ subscribed /\ channel # <<>>
    /\ channel' = Tail(channel)
    /\ posted' = IF ok THEN Append(posted, Head(channel)) ELSE posted
    /\ untold' = (untold \/ ~ok)
    /\ UNCHANGED <<content, changing, subscribed, desktop>>

-----------------------------------------------------------------------------
(* The UI thread *)

\* Refresh, for an event or for the user.  It reads everything anew.
BeginRefresh ==
    /\ reading' = "categories" /\ untold' = FALSE
    /\ UNCHANGED <<content, changing, channel, subscribed, running, view>>

\* OnEvent: an event that comes after the end is ignored, and a status only shown.
OnEvent ==
    /\ reading = "nothing" /\ posted # <<>>
    /\ posted' = Tail(posted)
    /\ IF running /\ Head(posted) = "change"
       THEN BeginRefresh
       ELSE UNCHANGED <<content, changing, channel, subscribed, desktop, untold>>

UserRefresh ==
    /\ reading = "nothing" /\ running
    /\ BeginRefresh /\ UNCHANGED posted

\* list_categories, then list_items or search.
ReadPart ==
    /\ reading # "nothing"
    /\ view' = [view EXCEPT ![reading] = content[reading]]
    /\ reading' = IF reading = "categories" THEN "items" ELSE "nothing"
    /\ UNCHANGED <<content, changing, events, subscribed, running, untold>>

RefreshFails ==
    /\ reading # "nothing"
    /\ reading' = "nothing" /\ untold' = TRUE
    /\ UNCHANGED <<content, changing, events, subscribed, running, view>>

\* DaemonService.Stop gives up the handle ...
GiveUpHandle ==
    /\ running /\ reading = "nothing"
    /\ running' = FALSE
    /\ UNCHANGED <<content, changing, events, subscribed, reading, view, untold>>

\* ... and shutdown aborts the subscription.
Shutdown ==
    /\ ~running /\ subscribed
    /\ subscribed' = FALSE /\ channel' = <<>>
    /\ UNCHANGED <<content, changing, posted, desktop, untold>>

ViewNext ==
    \/ \E c \in Changers : \/ \E after \in [Views -> Contents] : ChangeLibrary(c, after)
                           \/ EmitEvent(c) \/ CommandFails(c)
    \/ EmitStatus \/ \E ok \in BOOLEAN : Receive(ok)
    \/ OnEvent \/ UserRefresh \/ ReadPart \/ RefreshFails
    \/ GiveUpHandle \/ Shutdown

ViewSpec == ViewInit /\ [][ViewNext]_viewVars

-----------------------------------------------------------------------------
(* When nothing is on its way any more the window shows the library as it  *)
(* is, although events are dropped, a refresh reads part after part, and   *)
(* the library changes in between: events of changes never push each other *)
(* out without a trace, only status messages do.                           *)
ViewFollows ==
    running /\ reading = "nothing" /\ ~untold /\ changing = {} /\ NoneTells(channel) =>
        view = content

(* The window asks nothing of a daemon it has stopped.                     *)
QuietAfterStop == reading # "nothing" => running
=============================================================================

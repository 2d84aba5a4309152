-------------------------- MODULE WebflowActivity --------------------------
(* What a project records of its Webflow site (collector-worker/webflow.ts):
   the activity log, and for every publish it notices the set of activities
   since the publish before.  The nightly sweep, the button of the settings and
   a new connection sync, each in several calls to Webflow and the database,
   and people go on editing and publishing the site meanwhile.

   The activities of the site are numbered by their time.  How much of the log
   one sync reads is not modelled: it reads all there is. *)
EXTENDS FiniteSetsExt, Naturals, Sequences

CONSTANTS Syncs,        \* the syncs that can be under way
          MaxActivity   \* bound on the activities of the site

VARIABLES activity,     \* what happened on the site, "edit" or "publish"
          connection,   \* the row of webflow_connections
          events,       \* webflow_events
          publishSets,  \* publish -> its row and its webflow_publish_events
          syncs,        \* the syncs
          disturbed     \* history: were two syncs under way at once, or did
                        \* one stop between its set and its last write?

activityVars == <<activity, connection, events, publishSets, syncs, disturbed>>

(* No time at all: the site was never published. *)
Never == 0

lastPublished == Max({i \in DOMAIN activity : activity[i] = "publish"} \cup {Never})

Resting == [step |-> "resting"]

(* previous: last_published of the row it read; published: what the site
   answered. *)
At(step, previous, published) ==
    [step |-> step, previous |-> previous, published |-> published]

UnderWay == {s \in Syncs : syncs[s] # Resting}

-----------------------------------------------------------------------------
(* The site was published before; it is not connected, or it is and the second
   publish has its set. *)
InitActivity ==
    /\ activity = <<"publish", "publish">>
    /\ \/ /\ connection = [connected |-> FALSE, last |-> Never]
          /\ events = {}
          /\ publishSets = [i \in {} |-> {}]
       \/ /\ connection = [connected |-> TRUE, last |-> 2]
          /\ events = {1, 2}
          /\ publishSets = [i \in {2} |-> [previous |-> 1, members |-> {2}]]
    /\ syncs = [s \in Syncs |-> Resting]
    /\ disturbed = FALSE

Happens(kind) ==
    /\ Len(activity) < MaxActivity
    /\ activity' = Append(activity, kind)
    /\ UNCHANGED <<connection, events, publishSets, syncs, disturbed>>

disconnectWebflowSite ==
    /\ connection.connected
    /\ connection' = [connected |-> FALSE, last |-> Never]
    /\ UNCHANGED <<activity, events, publishSets, syncs, disturbed>>

(* A new connection, or a new token for the one there is: the site is asked,
   the row takes its last publish, and a short sync follows. *)
validateWebflowSite(s) ==
    /\ syncs[s] = Resting
    /\ syncs' = [syncs EXCEPT ![s] = At("upsert", Never, lastPublished)]
    /\ disturbed' = (disturbed \/ UnderWay # {})
    /\ UNCHANGED <<activity, connection, events, publishSets>>

connectWebflowSite(s) ==
    /\ syncs[s].step = "upsert"
    /\ connection' = [connected |-> TRUE, last |-> syncs[s].published]
    /\ syncs' = [syncs EXCEPT ![s].step = "begin"]
    /\ UNCHANGED <<activity, events, publishSets, disturbed>>

(* syncWebflowActivity: the row is read first... *)
syncWebflowActivity(s) ==
    /\ connection.connected
    /\ syncs[s] = Resting \/ syncs[s].step = "begin"
    /\ syncs' = [syncs EXCEPT ![s] = At("fetch", connection.last, Never)]
    /\ disturbed' = (disturbed \/ UnderWay \ {s} # {})
    /\ UNCHANGED <<activity, connection, events, publishSets>>

(* ...then the activity log, whose events are stored, those that are there
   already once... *)
StoreEvents(s) ==
    /\ syncs[s].step = "fetch"
    /\ events' = events \cup DOMAIN activity
    /\ syncs' = [syncs EXCEPT ![s].step = "site"]
    /\ UNCHANGED <<activity, connection, publishSets, disturbed>>

(* ...and only then the site is asked for its last publish. *)
AskSite(s) ==
    /\ syncs[s].step = "site"
    /\ syncs' = [syncs EXCEPT ![s].step = "set", ![s].published = lastPublished]
    /\ UNCHANGED <<activity, connection, events, publishSets, disturbed>>

MutWindowClosed(set, published) ==     \* the window takes the publish before in
    {i \in events : i >= set.previous /\ i <= published}

(* refreshPublishSet.  A publish the row does not know gets a set that begins
   at the one it knows; the set of the same publish is filled again. *)
window(set, published) == {i \in events : i > set.previous /\ i <= published}

InsertPublishSet(s) ==
    LET at == syncs[s].published
    IN /\ syncs[s].step = "set"
       /\ publishSets' =
             IF /\ syncs[s].previous # Never /\ at # Never
                /\ at \notin DOMAIN publishSets
                /\ syncs[s].previous # at
             THEN [i \in DOMAIN publishSets \cup {at} |->
                      IF i = at THEN [previous |-> syncs[s].previous, members |-> {}]
                      ELSE publishSets[i]]
             ELSE publishSets
       /\ syncs' = [syncs EXCEPT ![s].step = "fill"]
       /\ UNCHANGED <<activity, connection, events, disturbed>>

refreshPublishSet(s) ==
    LET at == syncs[s].published
        fills == syncs[s].previous # Never /\ at \in DOMAIN publishSets
    IN /\ syncs[s].step = "fill"
       /\ IF fills
          THEN publishSets' = [publishSets EXCEPT ![at].members =
                                  window(publishSets[at], at)]
          ELSE UNCHANGED publishSets
       /\ syncs' = [syncs EXCEPT ![s].step = "finish"]
       /\ UNCHANGED <<activity, connection, events, disturbed>>

(* The row takes the publish the site named, if there still is a row. *)
FinishSync(s) ==
    /\ syncs[s].step = "finish"
    /\ connection' = IF connection.connected
                     THEN [connection EXCEPT !.last = syncs[s].published]
                     ELSE connection
    /\ syncs' = [syncs EXCEPT ![s] = Resting]
    /\ UNCHANGED <<activity, events, publishSets, disturbed>>

(* A call fails or the worker dies: the row keeps the publish it knows, also
   when the set of the next one is in. *)
SyncFails(s) ==
    /\ syncs[s] # Resting
    /\ disturbed' = (disturbed \/ syncs[s].step \in {"fill", "finish"})
    /\ syncs' = [syncs EXCEPT ![s] = Resting]
    /\ UNCHANGED <<activity, connection, events, publishSets>>

NextActivity ==
    \/ \E kind \in {"edit", "publish"} : Happens(kind)
    \/ disconnectWebflowSite
    \/ \E s \in Syncs :
          \/ validateWebflowSite(s)
          \/ connectWebflowSite(s)
          \/ syncWebflowActivity(s)
          \/ StoreEvents(s)
          \/ AskSite(s)
          \/ InsertPublishSet(s)
          \/ refreshPublishSet(s)
          \/ FinishSync(s)
          \/ SyncFails(s)

SpecActivity == InitActivity /\ [][NextActivity]_activityVars

-----------------------------------------------------------------------------
(* No activity is counted for two publishes, whatever is published meanwhile
   and wherever connections come and go, unless two syncs were under way at
   once or one stopped with its set inserted and the row not moved on: the next
   set then begins where that one did. *)
CountedOnce ==
    \A i, j \in DOMAIN publishSets :
        i # j /\ publishSets[i].members \cap publishSets[j].members # {}
            => disturbed
=============================================================================

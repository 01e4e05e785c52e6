------------------------------ MODULE TopicTree ------------------------------
(***************************************************************************)
(* The subscription tree (topic/tree.go) as operators on its value.        *)
(*                                                                         *)
(* Filters and topics are sequences of levels, strings.Split(filter, "/"). *)
(* The tree maps the path of each node to its sessionsMap; a session that  *)
(* is not in the map has NoQos there.  The root is not in the domain: no   *)
(* operation puts a session there.                                         *)
(***************************************************************************)
EXTENDS Integers, Sequences

CONSTANTS Sessions   \* the sessions of the broker

NoQos == -1

(* newNode: no session, no child. *)
newNode == [s \in Sessions |-> NoQos]

emptyTree == << >>

Paths(filter) == {SubSeq(filter, 1, n) : n \in 1 .. Len(filter)}

(* Faulty variant: only the last node of the path is created. *)
insertLeafOnly(tree, filter, qos, s) ==
    [p \in DOMAIN tree \cup {filter} |->
        LET node == IF p \in DOMAIN tree THEN tree[p] ELSE newNode
        IN  IF p = filter THEN [node EXCEPT ![s] = qos] ELSE node]

(* insert: creates the nodes that are missing on the way and stores the    *)
(* QoS of the session in the last one.                                     *)
insert(tree, filter, qos, s) ==
    [p \in DOMAIN tree \cup Paths(filter) |->
        LET node == IF p \in DOMAIN tree THEN tree[p] ELSE newNode
        IN  IF p = filter THEN [node EXCEPT ![s] = qos] ELSE node]

(* Add: all filters of a packet under the mutex of the root. *)
Add(tree, subs, s) ==
    LET upTo[n \in 0 .. Len(subs)] ==
          IF n = 0 THEN tree
          ELSE insert(upTo[n - 1], subs[n].filter, subs[n].qos, s)
    IN  upTo[Len(subs)]

(* Remove for one session.  Nodes are never taken out of the tree.         *)
Remove(tree, filter, s) ==
    IF filter \in DOMAIN tree THEN [tree EXCEPT ![filter][s] = NoQos] ELSE tree

(* Faulty variant: the recursion stops at the first level. *)
RemoveSessionShallow(tree, s) ==
    [p \in DOMAIN tree |-> IF Len(p) = 1 THEN [tree[p] EXCEPT ![s] = NoQos] ELSE tree[p]]

RemoveSession(tree, s) ==
    [p \in DOMAIN tree |-> [tree[p] EXCEPT ![s] = NoQos]]

(* Faulty variant: a "#" is only looked at on the last level of the topic. *)
VisitsHashLast(tree, topic) ==
    LET below[p \in DOMAIN tree \cup {<< >>}] ==
          LET rest   == SubSeq(topic, Len(p) + 1, Len(topic))
              Has(x) == Append(p, x) \in DOMAIN tree
              Child(x) == IF ~Has(x) THEN << >>
                          ELSE IF Len(rest) = 1 THEN <<Append(p, x)>>
                          ELSE below[Append(p, x)]
          IN  IF rest = <<"">> THEN << >>
              ELSE IF Len(rest) = 1 THEN Child("#") \o Child("+") \o Child(Head(rest))
              ELSE Child("+") \o Child(Head(rest))
    IN  below[<< >>]

(* _getSessions: the nodes whose sessionsMap is handed to the callback, in *)
(* order.  A rest of the topic that is the empty string returns at once,   *)
(* before any child is looked at.                                          *)
Visits(tree, topic) ==
    LET below[p \in DOMAIN tree \cup {<< >>}] ==
          LET rest   == SubSeq(topic, Len(p) + 1, Len(topic))
              Has(x) == Append(p, x) \in DOMAIN tree
              Child(x) == IF ~Has(x) THEN << >>
                          ELSE IF Len(rest) = 1 THEN <<Append(p, x)>>
                          ELSE below[Append(p, x)]
          IN  IF rest = <<"">> THEN << >>
              ELSE (IF Has("#") THEN <<Append(p, "#")>> ELSE << >>)
                   \o Child("+") \o Child(Head(rest))
    IN  below[<< >>]

(* GetSessions: where several filters match, the one visited last gives    *)
(* the QoS.                                                                *)
GetSessions(tree, topic) ==
    LET nodes   == Visits(tree, topic)
        Hits(s) == {i \in 1 .. Len(nodes) : tree[nodes[i]][s] # NoQos}
        Last(S) == CHOOSE i \in S : \A j \in S : j <= i
    IN  [s \in Sessions |-> IF Hits(s) = {} THEN NoQos ELSE tree[nodes[Last(Hits(s))]][s]]

-----------------------------------------------------------------------------
(* Reference: a filter matches a topic level by level, "+" stands for one  *)
(* level, a final "#" for any number of levels, none included.  This is    *)
(* the rule of MQTT.  IsTopicMatch of the same file, which the lookup does *)
(* not use, lets "a/+" match "a" as well.                                  *)
Matches(filter, topic) ==
    LET last  == Len(filter)
        fixed == IF filter[last] = "#" THEN last - 1 ELSE last
    IN  /\ IF fixed < last THEN Len(topic) >= fixed ELSE Len(topic) = last
        /\ \A i \in 1 .. fixed : filter[i] \in {"+", topic[i]}

(* The matches the tree finds: not "a/#" for the topic "a", and for one    *)
(* that ends in "/" no filter but those whose "#" stands for its last      *)
(* level and at least one more.                                            *)
Findable(filter, topic) ==
    IF topic[Len(topic)] # "" THEN Len(filter) <= Len(topic)
    ELSE filter[Len(filter)] = "#" /\ Len(filter) < Len(topic)
=============================================================================

-------------------------- MODULE SimpleRankProofs --------------------------
(***************************************************************************)
(* The service as a whole, for any numbers of scores, entries, connections *)
(* and restarts: what is proved of the path of a score holds in it, it     *)
(* respects the hub's contract, and peers see scores in causal order.      *)
(***************************************************************************)
EXTENDS SimpleRankProps, ScoreUpdateProofs

USE ScoreUpdateAssumption, SimpleRankAssumption

\* A step of the service is a step of the path of a score, or leaves it alone.
LEMMA StepOfScoreUpdate == [SystemNext]_systemVars => [Next]_vars
<1> SUFFICES ASSUME [SystemNext]_systemVars PROVE [Next]_vars
  OBVIOUS
<1>1. CASE StartProcess
  BY <1>1 DEF StartProcess, Next
<1>2. CASE Background
  BY <1>2 DEF Background, Finish, Next
<1>3. ASSUME NEW u \in Update, Submit(u) PROVE [Next]_vars
  BY <1>3 DEF Submit, Next
<1>4. ASSUME NEW c \in Connection, Subscribe(c) \/ Show(c) PROVE UNCHANGED vars
  BY <1>4 DEF Subscribe, Show
<1>5. CASE UNCHANGED systemVars
  BY <1>5 DEF systemVars
<1> QED
  BY <1>1, <1>2, <1>3, <1>4, <1>5 DEF SystemNext

\* Composing the path of a score with the peers takes nothing from it: every
\* property proved of ScoreUpdate holds of the service.
THEOREM SystemImplementsScoreUpdate == System => Spec
<1>1. SystemInit => Init
  BY DEF SystemInit
<1> QED
  BY <1>1, StepOfScoreUpdate, PTL DEF System, Spec

-----------------------------------------------------------------------------
(* What the steps of the service do to the peers.                          *)

\* The message at a position carries the score announced there.
LEMMA MessageAt ==
  ASSUME NEW s, NEW i \in DOMAIN s
  PROVE  /\ DOMAIN Messages(s) = DOMAIN s
         /\ Messages(s)[i] = [Topic |-> topic, UserID |-> Empty, Message |-> s[i]]
         /\ Messages(s)[i].Message = s[i]
BY DEF Messages

Has(c, x) == \E k \in DOMAIN received[c] : received[c][k] = x

\* What a delivery adds is a score announced after all that was received.
LEMMA ShowEffect ==
  ASSUME NEW c \in Connection, Show(c), announced \in Seq(Update), base \in Nat
  PROVE  \E i \in DOMAIN announced :
           /\ received' = [received EXCEPT ![c] = Append(@, announced[i])]
           /\ \A j \in DOMAIN announced : Has(c, announced[j]) => j < i
<1>1. PICK i \in (base + 1)..Len(announced) : Socket!Deliver(c, i)
  BY DEF Show
<1>2. i \in DOMAIN announced
  OBVIOUS
<1>3. Messages(announced)[i].Message = announced[i]
  BY <1>2, MessageAt
<1>4. received' = [received EXCEPT ![c] = Append(@, announced[i])]
  BY <1>1, <1>3 DEF Socket!Deliver
<1>5. ASSUME NEW j \in DOMAIN announced, Has(c, announced[j]) PROVE j < i
  <2>1. DOMAIN Messages(announced) = DOMAIN announced
        /\ Messages(announced)[j].Message = announced[j]
    BY MessageAt
  <2>2. Socket!Has(c, j)
    BY <1>5, <2>1 DEF Socket!Has, Has
  <2> QED
    BY <1>1, <2>1, <2>2 DEF Socket!Deliver
<1> QED
  BY <1>2, <1>4, <1>5

-----------------------------------------------------------------------------

PeerTypes ==
  /\ asked \in [Connection -> SUBSET {topic}]
  /\ received \in [Connection -> Seq(Update)]
  /\ life \in [Connection -> 0..starts]
  /\ base \in 0..Len(announced)
  /\ seen \in [Update -> SUBSET Update]

\* Nobody has asked or received anything before its process accepted it; a
\* process that runs was started.
AskedFirst ==
  /\ process # "down" => starts > 0
  /\ \A c \in Connection : (asked[c] = {} <=> life[c] = 0)
                           /\ (asked[c] = {} => received[c] = <<>>)

SystemInv == TypeInv /\ PeerTypes /\ AskedFirst

LEMMA SystemTypesInit == SystemInit => SystemInv
<1> SUFFICES ASSUME SystemInit PROVE SystemInv
  OBVIOUS
<1>1. TypeInv
  BY TypeInvInit DEF SystemInit
<1>2. PeerTypes /\ AskedFirst
  BY DEF SystemInit, Init, PeerTypes, AskedFirst
<1> QED
  BY <1>1, <1>2 DEF SystemInv

\* Starts and announcements only grow, and only a start makes a process run.
LEMMA ProcessStep ==
  ASSUME [SystemNext]_systemVars, TypeInv
  PROVE  /\ starts \in Nat /\ starts' >= starts
         /\ Len(announced) \in Nat /\ Len(announced') >= Len(announced)
         /\ (process' # "down" => process # "down" \/ starts' = starts + 1)
<1>1. [Next]_vars
  BY StepOfScoreUpdate
<1>2. starts \in Nat /\ announced \in Seq(Update) /\ Len(announced) \in Nat
  BY DEF TypeInv, TypeOK
<1> USE <1>2
<1>3. CASE Start
  BY <1>3 DEF Start
<1>4. CASE SubscriberStart \/ StartTimeout \/ Crash
  BY <1>4 DEF SubscriberStart, StartTimeout, Crash
<1>5. ASSUME NEW u \in Update, UpdateEntryScore(u) \/ UpdateEntryScoreFails(u)
              \/ Publish(u) \/ PublishFails(u)
      PROVE UNCHANGED <<processVars, announced>>
  BY <1>5 DEF UpdateEntryScore, UpdateEntryScoreFails, Publish, PublishFails, processVars
<1>6. ASSUME NEW u \in Update, Broadcast(u)
      PROVE UNCHANGED processVars /\ Len(announced') = Len(announced) + 1
  BY <1>6 DEF Broadcast
<1>7. CASE Consume
  BY <1>7 DEF Consume, Read, ReadFails, Deliver, Record, RecordFails, Ack, processVars
<1>8. CASE UNCHANGED vars
  BY <1>8 DEF vars, processVars
<1> QED
  BY <1>1, <1>3, <1>4, <1>5, <1>6, <1>7, <1>8 DEF Next, processVars

LEMMA SystemTypesNext == SystemInv /\ [SystemNext]_systemVars => SystemInv'
<1> SUFFICES ASSUME SystemInv, [SystemNext]_systemVars PROVE SystemInv'
  OBVIOUS
<1>1. TypeInv'
  BY StepOfScoreUpdate, TypeInvNext DEF SystemInv
<1>2. /\ starts \in Nat /\ starts' \in Nat /\ starts' >= starts
      /\ Len(announced) \in Nat /\ Len(announced') \in Nat
      /\ Len(announced') >= Len(announced)
      /\ (process' # "down" => process # "down" \/ starts' = starts + 1)
  <2>1. starts' \in Nat /\ Len(announced') \in Nat
    BY <1>1 DEF TypeInv, TypeOK
  <2> QED
    BY <2>1, ProcessStep DEF SystemInv
<1>3. process' # "down" => starts' > 0
  BY <1>2 DEF SystemInv, AskedFirst
<1>4. ASSUME UNCHANGED peerVars, base' \in {base, Len(announced)}
      PROVE /\ life' \in [Connection -> 0..starts'] /\ base' \in 0..Len(announced')
            /\ AskedFirst'
  BY <1>2, <1>3, <1>4 DEF SystemInv, PeerTypes, AskedFirst, peerVars
<1>5. CASE StartProcess
  <2>1. UNCHANGED peerVars /\ base' = Len(announced) /\ seen' = seen
    BY <1>5 DEF StartProcess
  <2> QED
    BY <1>1, <1>4, <2>1 DEF SystemInv, PeerTypes, peerVars
<1>6. CASE Background
  <2>1. UNCHANGED peerVars /\ base' = base /\ seen' = seen
    BY <1>6 DEF Background
  <2> QED
    BY <1>1, <1>4, <2>1 DEF SystemInv, PeerTypes, peerVars
<1>7. ASSUME NEW u \in Update, Submit(u) PROVE SystemInv'
  <2>1. UNCHANGED peerVars /\ base' = base /\ seen' = [seen EXCEPT ![u] = Shown]
    BY <1>7 DEF Submit
  <2>2. Shown \in SUBSET Update
    BY DEF Shown, SystemInv, PeerTypes
  <2>3. seen' \in [Update -> SUBSET Update]
    BY <2>1, <2>2 DEF SystemInv, PeerTypes
  <2> QED
    BY <1>1, <1>4, <2>1, <2>3 DEF SystemInv, PeerTypes, peerVars
<1>8. ASSUME NEW c \in Connection, Subscribe(c) PROVE SystemInv'
  <2>1. /\ process = "up" /\ life[c] = 0
        /\ life' = [life EXCEPT ![c] = starts]
        /\ asked' = [asked EXCEPT ![c] = @ \cup {topic}]
        /\ UNCHANGED <<received, base, seen, starts, announced>>
    BY <1>8 DEF Subscribe, Socket!Ask, vars, processVars
  <2>2. starts > 0
    BY <2>1 DEF SystemInv, AskedFirst
  <2>3. PeerTypes'
    BY <1>2, <2>1 DEF SystemInv, PeerTypes
  <2>4. AskedFirst'
    <3>1. life'[c] # 0 /\ asked'[c] # {}
      BY <1>2, <2>1, <2>2 DEF SystemInv, PeerTypes
    <3>2. \A d \in Connection : d # c => life'[d] = life[d] /\ asked'[d] = asked[d]
      BY <2>1 DEF SystemInv, PeerTypes
    <3> QED
      BY <1>3, <2>1, <3>1, <3>2 DEF SystemInv, AskedFirst
  <2> QED
    BY <1>1, <2>3, <2>4 DEF SystemInv
<1>9. ASSUME NEW c \in Connection, Show(c) PROVE SystemInv'
  <2>1. announced \in Seq(Update) /\ base \in Nat
    BY DEF SystemInv, PeerTypes, TypeInv, TypeOK
  <2>2. PICK i \in DOMAIN announced :
          received' = [received EXCEPT ![c] = Append(@, announced[i])]
    BY <1>9, <2>1, ShowEffect
  <2>3. UNCHANGED <<asked, life, base, seen, starts, announced>>
    BY <1>9 DEF Show, Socket!Deliver, vars, processVars
  <2>4. life[c] = starts /\ starts > 0
    BY <1>9 DEF Show, SystemInv, AskedFirst
  <2>5. asked[c] # {}
    BY <1>2, <2>4 DEF SystemInv, AskedFirst
  <2>6. announced[i] \in Update
    BY <2>1
  <2>7. received' \in [Connection -> Seq(Update)]
    BY <2>2, <2>6 DEF SystemInv, PeerTypes
  <2>8. PeerTypes'
    BY <2>3, <2>7 DEF SystemInv, PeerTypes
  <2>9. AskedFirst'
    <3>1. \A d \in Connection : d # c => received'[d] = received[d]
      BY <2>2 DEF SystemInv, PeerTypes
    <3> QED
      BY <1>3, <2>3, <2>5, <3>1 DEF SystemInv, AskedFirst
  <2> QED
    BY <1>1, <2>8, <2>9 DEF SystemInv
<1>10. CASE UNCHANGED systemVars
  <2>1. UNCHANGED peerVars /\ base' = base /\ seen' = seen
    BY <1>10 DEF systemVars
  <2> QED
    BY <1>1, <1>4, <2>1 DEF SystemInv, PeerTypes, peerVars
<1> QED
  BY <1>5, <1>6, <1>7, <1>8, <1>9, <1>10 DEF SystemNext

-----------------------------------------------------------------------------
(* Causal order.  The announced scores are numbered; peers receive them in *)
(* the order of their numbers, and what was seen before a score came in    *)
(* has a smaller number than the score, once it has one.                   *)

\* A score is announced at most once, and only after it was submitted.
AnnouncedOnce ==
  /\ \A i, j \in DOMAIN announced : announced[i] = announced[j] => i = j
  /\ \A u \in broadcasting : ~In(u, announced) /\ request[u] # "new"
  /\ \A i \in DOMAIN announced : request[announced[i]] # "new"

SeenFirst ==
  /\ \A u \in Update : \A x \in seen[u] : In(x, announced)
  /\ \A i, j \in DOMAIN announced : announced[i] \in seen[announced[j]] => i < j

ShownInOrder ==
  \A c \in Connection :
    /\ \A k \in DOMAIN received[c] : In(received[c][k], announced)
    /\ \A l \in DOMAIN received[c] : \A k \in 1..(l - 1) :
         \A i, j \in DOMAIN announced :
           announced[i] = received[c][k] /\ announced[j] = received[c][l] => i < j

OrderInv == SystemInv /\ AnnouncedOnce /\ SeenFirst /\ ShownInOrder

LEMMA OrderInit == SystemInit => OrderInv
<1> SUFFICES ASSUME SystemInit PROVE OrderInv
  OBVIOUS
<1>1. announced = <<>> /\ broadcasting = {} /\ seen = [u \in Update |-> {}]
      /\ received = [c \in Connection |-> <<>>]
  BY DEF SystemInit, Init
<1>2. AnnouncedOnce /\ SeenFirst /\ ShownInOrder
  BY <1>1 DEF AnnouncedOnce, SeenFirst, ShownInOrder
<1> QED
  BY <1>2, SystemTypesInit DEF OrderInv

\* Nothing is announced, submitted or received.
Calm ==
  /\ UNCHANGED <<announced, request, seen, received>>
  /\ broadcasting' \subseteq broadcasting

LEMMA CalmNext ==
  ASSUME OrderInv, Calm PROVE AnnouncedOnce' /\ SeenFirst' /\ ShownInOrder'
<1> USE DEF Calm, In
<1>1. AnnouncedOnce'
  BY DEF OrderInv, AnnouncedOnce
<1>2. SeenFirst'
  BY DEF OrderInv, SeenFirst
<1>3. ShownInOrder'
  BY DEF OrderInv, ShownInOrder
<1> QED
  BY <1>1, <1>2, <1>3

LEMMA SubmitInOrder ==
  ASSUME OrderInv, NEW u \in Update, Submit(u)
  PROVE  AnnouncedOnce' /\ SeenFirst' /\ ShownInOrder'
<1>1. /\ request[u] = "new" /\ UNCHANGED <<announced, received>>
      /\ broadcasting' \subseteq broadcasting \cup {u}
      /\ request'[u] # "new"
      /\ \A v \in Update : v # u => request'[v] = request[v]
      /\ seen' = [seen EXCEPT ![u] = Shown]
  BY DEF Submit, UpdateEntryScore, UpdateEntryScoreFails, peerVars, OrderInv,
         SystemInv, TypeInv, TypeOK
<1>2. announced \in Seq(Update) /\ broadcasting \in SUBSET Update
      /\ seen \in [Update -> SUBSET Update]
  BY DEF OrderInv, SystemInv, TypeInv, TypeOK, PeerTypes
<1>3. \A i \in DOMAIN announced : announced[i] \in Update /\ announced[i] # u
  BY <1>1, <1>2 DEF OrderInv, AnnouncedOnce
<1>4. AnnouncedOnce'
  BY <1>1, <1>2, <1>3 DEF OrderInv, AnnouncedOnce, In
<1>5. \A x \in Shown : In(x, announced)
  BY DEF Shown, OrderInv, ShownInOrder
<1>6. SeenFirst'
  <2>1. seen'[u] = Shown /\ \A v \in Update : v # u => seen'[v] = seen[v]
    BY <1>1, <1>2
  <2> QED
    BY <1>1, <1>3, <1>5, <2>1 DEF OrderInv, SeenFirst, In
<1>7. ShownInOrder'
  BY <1>1 DEF OrderInv, ShownInOrder, In
<1> QED
  BY <1>4, <1>6, <1>7

LEMMA BroadcastInOrder ==
  ASSUME OrderInv, NEW u \in Update, Broadcast(u), UNCHANGED <<seen, received>>
  PROVE  AnnouncedOnce' /\ SeenFirst' /\ ShownInOrder'
<1>1. /\ announced \in Seq(Update) /\ Len(announced) \in Nat
      /\ seen \in [Update -> SUBSET Update]
  BY DEF OrderInv, SystemInv, TypeInv, TypeOK, PeerTypes
<1>2. /\ u \in broadcasting /\ broadcasting' = broadcasting \ {u}
      /\ announced' = Append(announced, u) /\ UNCHANGED request
  BY DEF Broadcast, scoreVars
<1> DEFINE n == Len(announced) + 1
<1>3. /\ DOMAIN announced = 1..Len(announced) /\ DOMAIN announced' = 1..n
      /\ announced'[n] = u
      /\ \A i \in DOMAIN announced : announced'[i] = announced[i] /\ announced[i] \in Update
  BY <1>1, <1>2
<1>4. \A x : In(x, announced') <=> In(x, announced) \/ x = u
  BY <1>1, <1>2, InAppend
<1>5. ~In(u, announced) /\ request[u] # "new"
  BY <1>2 DEF OrderInv, AnnouncedOnce
<1>6. \A i \in DOMAIN announced' : i \in DOMAIN announced \/ i = n
  BY <1>1, <1>3
<1>7. \A i \in DOMAIN announced : i < n /\ announced[i] # u
  BY <1>1, <1>3, <1>5 DEF In
<1> HIDE DEF n
<1>8. AnnouncedOnce'
  <2>1. \A i, j \in DOMAIN announced' : announced'[i] = announced'[j] => i = j
    BY <1>3, <1>6, <1>7 DEF OrderInv, AnnouncedOnce
  <2>2. \A v \in broadcasting' : ~In(v, announced') /\ request'[v] # "new"
    BY <1>2, <1>4 DEF OrderInv, AnnouncedOnce
  <2>3. \A i \in DOMAIN announced' : request'[announced'[i]] # "new"
    BY <1>2, <1>3, <1>5, <1>6 DEF OrderInv, AnnouncedOnce
  <2> QED
    BY <2>1, <2>2, <2>3 DEF AnnouncedOnce
<1>9. SeenFirst'
  <2>1. \A v \in Update : \A x \in seen'[v] : In(x, announced) /\ In(x, announced')
    BY <1>4 DEF OrderInv, SeenFirst
  <2>2. \A i, j \in DOMAIN announced' : announced'[i] \in seen'[announced'[j]] => i < j
    <3> SUFFICES ASSUME NEW i \in DOMAIN announced', NEW j \in DOMAIN announced',
                        announced'[i] \in seen'[announced'[j]]
                 PROVE  i < j
      OBVIOUS
    <3>1. announced'[j] \in Update
      BY <1>3, <1>6
    <3>2. i # n
      BY <1>3, <1>5, <2>1, <3>1
    <3>3. i \in DOMAIN announced /\ announced'[i] = announced[i]
      BY <1>3, <1>6, <3>2
    <3>4. CASE j = n
      BY <1>7, <3>3, <3>4
    <3>5. CASE j \in DOMAIN announced
      <4>1. announced[i] \in seen[announced[j]]
        BY <1>3, <3>3, <3>5
      <4> QED
        BY <3>3, <3>5, <4>1 DEF OrderInv, SeenFirst
    <3> QED
      BY <1>6, <3>4, <3>5
  <2> QED
    BY <2>1, <2>2 DEF SeenFirst
<1>10. ShownInOrder'
  <2> SUFFICES ASSUME NEW c \in Connection
               PROVE  /\ \A k \in DOMAIN received[c] : In(received[c][k], announced')
                      /\ \A l \in DOMAIN received[c] : \A k \in 1..(l - 1) :
                           \A i, j \in DOMAIN announced' :
                             announced'[i] = received[c][k] /\ announced'[j] = received[c][l]
                               => i < j
    BY DEF ShownInOrder
  <2>1. received[c] \in Seq(Update)
    BY DEF OrderInv, SystemInv, PeerTypes
  <2>2. \A k \in DOMAIN received[c] : In(received[c][k], announced) /\ received[c][k] # u
    BY <1>5 DEF OrderInv, ShownInOrder
  <2>3. ASSUME NEW l \in DOMAIN received[c], NEW k \in 1..(l - 1),
               NEW i \in DOMAIN announced', NEW j \in DOMAIN announced',
               announced'[i] = received[c][k], announced'[j] = received[c][l]
        PROVE  i < j
    <3>1. k \in DOMAIN received[c]
      BY <2>1
    <3>2. i \in DOMAIN announced /\ j \in DOMAIN announced
      BY <1>3, <1>6, <2>2, <2>3, <3>1
    <3>3. announced[i] = received[c][k] /\ announced[j] = received[c][l]
      BY <1>3, <2>3, <3>2
    <3> QED
      BY <3>2, <3>3 DEF OrderInv, ShownInOrder
  <2> QED
    BY <1>4, <2>2, <2>3
<1> QED
  BY <1>8, <1>9, <1>10

LEMMA ShowInOrder ==
  ASSUME OrderInv, NEW c \in Connection, Show(c)
  PROVE  AnnouncedOnce' /\ SeenFirst' /\ ShownInOrder'
<1>1. announced \in Seq(Update) /\ base \in Nat /\ received \in [Connection -> Seq(Update)]
  BY DEF OrderInv, SystemInv, PeerTypes, TypeInv, TypeOK
<1>2. PICK n \in DOMAIN announced :
        /\ received' = [received EXCEPT ![c] = Append(@, announced[n])]
        /\ \A j \in DOMAIN announced : Has(c, announced[j]) => j < n
  BY <1>1, ShowEffect
<1>3. UNCHANGED <<announced, request, broadcasting, seen>>
  BY DEF Show, vars, scoreVars
<1>4. AnnouncedOnce' /\ SeenFirst'
  BY <1>3 DEF OrderInv, AnnouncedOnce, SeenFirst, In
<1>5. ASSUME NEW d \in Connection, d # c
      PROVE received'[d] = received[d]
  BY <1>1, <1>2, <1>5
<1> DEFINE m == Len(received[c]) + 1
<1>6. /\ DOMAIN received[c] = 1..Len(received[c]) /\ Len(received[c]) \in Nat
      /\ DOMAIN received'[c] = 1..m
      /\ received'[c][m] = announced[n]
      /\ \A k \in DOMAIN received[c] : received'[c][k] = received[c][k]
  <2>1. received'[c] = Append(received[c], announced[n]) /\ announced[n] \in Update
    BY <1>1, <1>2
  <2>2. received[c] \in Seq(Update)
    BY <1>1
  <2> QED
    BY <2>1, <2>2
<1>7. \A k \in DOMAIN received'[c] : k \in DOMAIN received[c] \/ k = m
  BY <1>6
<1>8. \A l \in DOMAIN received'[c] : \A k \in 1..(l - 1) : k \in DOMAIN received[c]
  BY <1>6
<1> HIDE DEF m
<1>9. \A k \in DOMAIN received'[c] : In(received'[c][k], announced)
  BY <1>6, <1>7 DEF OrderInv, ShownInOrder, In
<1>10. ASSUME NEW l \in DOMAIN received'[c], NEW k \in 1..(l - 1),
              NEW i \in DOMAIN announced, NEW j \in DOMAIN announced,
              announced[i] = received'[c][k], announced[j] = received'[c][l]
       PROVE  i < j
  <2>1. k \in DOMAIN received[c] /\ announced[i] = received[c][k]
    BY <1>6, <1>8, <1>10
  <2>2. CASE l = m
    <3>1. j = n
      BY <1>6, <1>10, <2>2 DEF OrderInv, AnnouncedOnce
    <3>2. Has(c, announced[i])
      BY <2>1 DEF Has
    <3> QED
      BY <1>2, <3>1, <3>2
  <2>3. CASE l \in DOMAIN received[c]
    <3>1. announced[j] = received[c][l]
      BY <1>6, <1>10, <2>3
    <3> QED
      BY <2>1, <2>3, <3>1 DEF OrderInv, ShownInOrder
  <2> QED
    BY <1>7, <2>2, <2>3
<1>11. ShownInOrder'
  <2> SUFFICES ASSUME NEW d \in Connection
               PROVE  /\ \A k \in DOMAIN received'[d] : In(received'[d][k], announced)
                      /\ \A l \in DOMAIN received'[d] : \A k \in 1..(l - 1) :
                           \A i, j \in DOMAIN announced :
                             announced[i] = received'[d][k] /\ announced[j] = received'[d][l]
                               => i < j
    BY <1>3 DEF ShownInOrder, In
  <2>1. CASE d = c
    BY <1>9, <1>10, <2>1
  <2>2. CASE d # c
    BY <1>5, <2>2 DEF OrderInv, ShownInOrder
  <2> QED
    BY <2>1, <2>2
<1> QED
  BY <1>4, <1>11

\* A step of the path of a score that neither submits nor announces.
LEMMA BackgroundIsCalm ==
  ASSUME Background PROVE Calm \/ \E u \in Update : Broadcast(u)
<1>1. UNCHANGED <<seen, received>>
  BY DEF Background, peerVars
<1>2. CASE SubscriberStart \/ StartTimeout \/ Crash
  BY <1>1, <1>2 DEF SubscriberStart, StartTimeout, Crash, Calm, scoreVars
<1>3. CASE Consume
  BY <1>1, <1>3 DEF Consume, Read, ReadFails, Deliver, Record, RecordFails, Ack, Calm, scoreVars
<1>4. ASSUME NEW u \in Update, Publish(u) \/ PublishFails(u) PROVE Calm
  BY <1>1, <1>4 DEF Publish, PublishFails, Calm, scoreVars
<1> QED
  BY <1>2, <1>3, <1>4 DEF Background, Finish

LEMMA OrderNext == OrderInv /\ [SystemNext]_systemVars => OrderInv'
<1> SUFFICES ASSUME OrderInv, [SystemNext]_systemVars
             PROVE  AnnouncedOnce' /\ SeenFirst' /\ ShownInOrder'
  BY SystemTypesNext DEF OrderInv
<1>1. CASE StartProcess
  BY <1>1, CalmNext DEF StartProcess, Start, Calm, peerVars, scoreVars
<1>2. CASE Background
  <2>1. UNCHANGED <<seen, received>>
    BY <1>2 DEF Background, peerVars
  <2> QED
    BY <1>2, <2>1, BackgroundIsCalm, CalmNext, BroadcastInOrder
<1>3. ASSUME NEW u \in Update, Submit(u)
      PROVE  AnnouncedOnce' /\ SeenFirst' /\ ShownInOrder'
  BY <1>3, SubmitInOrder
<1>4. ASSUME NEW c \in Connection, Subscribe(c) PROVE Calm
  BY <1>4 DEF Subscribe, Socket!Ask, Calm, vars, scoreVars
<1>5. ASSUME NEW c \in Connection, Show(c)
      PROVE  AnnouncedOnce' /\ SeenFirst' /\ ShownInOrder'
  BY <1>5, ShowInOrder
<1>6. CASE UNCHANGED systemVars
  BY <1>6, CalmNext DEF Calm, systemVars, vars, peerVars, scoreVars
<1> QED
  BY <1>1, <1>2, <1>3, <1>4, <1>5, <1>6, CalmNext DEF SystemNext

LEMMA CausalOrderHolds == OrderInv => CausalOrder
<1> SUFFICES ASSUME OrderInv, NEW c \in Connection, NEW l \in DOMAIN received[c],
                    NEW k \in 1..(l - 1), received[c][l] \in seen[received[c][k]]
             PROVE  FALSE
  BY DEF CausalOrder
<1>1. received[c] \in Seq(Update) /\ announced \in Seq(Update)
  BY DEF OrderInv, SystemInv, PeerTypes, TypeInv, TypeOK
<1>2. k \in DOMAIN received[c]
  BY <1>1
<1>3. PICK i \in DOMAIN announced : announced[i] = received[c][k]
  BY <1>2 DEF OrderInv, ShownInOrder, In
<1>4. PICK j \in DOMAIN announced : announced[j] = received[c][l]
  BY DEF OrderInv, ShownInOrder, In
<1>5. i < j
  BY <1>3, <1>4 DEF OrderInv, ShownInOrder
<1>6. j < i
  BY <1>3, <1>4 DEF OrderInv, SeenFirst
<1>7. i \in Nat /\ j \in Nat
  BY <1>1
<1> QED
  BY <1>5, <1>6, <1>7

LEMMA OrderInvCorrect == System => []OrderInv
BY OrderInit, OrderNext, PTL DEF System

\* A score that somebody submitted after seeing another one is shown to nobody
\* before it: the hub had accepted what was seen, and the contract keeps the
\* order in which the hub accepts, although events are broadcast by goroutines
\* of their own.
THEOREM CausalOrderCorrect == System => []CausalOrder
BY OrderInvCorrect, CausalOrderHolds, PTL

-----------------------------------------------------------------------------
(* The contract of the hub.                                                *)

LEMMA ContractInit == SystemInit => Socket!Init
<1> SUFFICES ASSUME SystemInit PROVE Socket!Init
  OBVIOUS
<1>1. announced = <<>>
  BY DEF SystemInit, Init
<1>2. Messages(announced) = <<>>
  BY <1>1 DEF Messages
<1> QED
  BY <1>2 DEF SystemInit, Socket!Init

LEMMA ContractAccept ==
  ASSUME OrderInv, NEW u \in Update, Broadcast(u), UNCHANGED <<asked, received>>
  PROVE  Socket!Next
<1>1. announced \in Seq(Update) /\ Len(announced) \in Nat
      /\ announced' = Append(announced, u) /\ u \in broadcasting
  BY DEF OrderInv, SystemInv, TypeInv, TypeOK, Broadcast
<1> DEFINE message == [Topic |-> topic, UserID |-> Empty, Message |-> u]
<1>2. message \in Socket!BroadcastMessage
  BY DEF Socket!BroadcastMessage
<1>3. \A i \in DOMAIN Messages(announced) : Messages(announced)[i].Message # message.Message
  <2>1. ~In(u, announced)
    BY <1>1 DEF OrderInv, AnnouncedOnce
  <2> QED
    BY <2>1, MessageAt DEF In, Messages
<1>4. Messages(announced)' = Append(Messages(announced), message)
  <2>1. Messages(announced) \in Seq(Socket!BroadcastMessage)
        /\ Len(Messages(announced)) = Len(announced)
    <3>1. \A v \in Update : [Topic |-> topic, UserID |-> Empty, Message |-> v]
                              \in Socket!BroadcastMessage
      BY DEF Socket!BroadcastMessage
    <3> QED
      BY <1>1, <3>1 DEF Messages
  <2>2. \A i \in 1..Len(announced) : announced'[i] = announced[i]
    BY <1>1
  <2>3. announced'[Len(announced) + 1] = u /\ DOMAIN announced' = 1..(Len(announced) + 1)
    BY <1>1
  <2>4. Messages(announced)' = [i \in 1..(Len(announced) + 1) |->
           [Topic |-> topic, UserID |-> Empty, Message |-> announced'[i]]]
    BY <2>3 DEF Messages
  <2>5. Messages(announced) = [i \in 1..Len(announced) |->
           [Topic |-> topic, UserID |-> Empty, Message |-> announced[i]]]
    BY <1>1 DEF Messages
  <2> QED
    BY <1>1, <1>2, <2>1, <2>2, <2>3, <2>4, <2>5
<1>5. Socket!Accept(message)
  BY <1>3, <1>4 DEF Socket!Accept
<1> QED
  BY <1>2, <1>5 DEF Socket!Next

LEMMA ContractNext ==
  OrderInv /\ [SystemNext]_systemVars => [Socket!Next]_(Socket!vars)
<1> SUFFICES ASSUME OrderInv, [SystemNext]_systemVars
             PROVE  Socket!Next \/ UNCHANGED Socket!vars
  OBVIOUS
<1>1. ASSUME UNCHANGED <<announced, asked, received>> PROVE UNCHANGED Socket!vars
  BY <1>1 DEF Socket!vars, Messages
<1>2. CASE StartProcess
  BY <1>1, <1>2 DEF StartProcess, Start, peerVars
<1>3. CASE Background
  <2>1. UNCHANGED <<asked, received>>
    BY <1>3 DEF Background, peerVars
  <2>2. CASE Calm
    BY <1>1, <2>1, <2>2 DEF Calm
  <2> QED
    BY <1>3, <2>1, <2>2, BackgroundIsCalm, ContractAccept
<1>4. ASSUME NEW u \in Update, Submit(u) PROVE UNCHANGED Socket!vars
  BY <1>1, <1>4 DEF Submit, UpdateEntryScore, UpdateEntryScoreFails, peerVars
<1>5. ASSUME NEW c \in Connection, Subscribe(c) PROVE Socket!Next
  BY <1>5 DEF Subscribe, Socket!Next
<1>6. ASSUME NEW c \in Connection, Show(c) PROVE Socket!Next
  <2>1. announced \in Seq(Update) /\ base \in Nat
    BY DEF OrderInv, SystemInv, PeerTypes, TypeInv, TypeOK
  <2>2. PICK i \in (base + 1)..Len(announced) : Socket!Deliver(c, i)
    BY <1>6 DEF Show
  <2>3. i \in DOMAIN Messages(announced)
    BY <2>1 DEF Messages
  <2> QED
    BY <2>2, <2>3 DEF Socket!Next
<1>7. CASE UNCHANGED systemVars
  BY <1>1, <1>7 DEF systemVars, vars, peerVars
<1> QED
  BY <1>2, <1>3, <1>4, <1>5, <1>6, <1>7 DEF SystemNext

\* The service meets the hub's contract: the path of a score hands each event
\* to the hub once, which is what the contract asks of its callers, and peers
\* receive what it allows.
THEOREM SocketContractCorrect == System => SocketContract
<1>1. SystemInit => Socket!Init
  BY ContractInit
<1>2. OrderInv /\ [SystemNext]_systemVars => [Socket!Next]_(Socket!vars)
  BY ContractNext
<1> QED
  BY <1>1, <1>2, OrderInvCorrect, PTL DEF System, SocketContract, Socket!Spec
=============================================================================

-------------------------- MODULE Programs_proofs --------------------------
(***************************************************************************)
(* The example programs and demonstration nodes keep their promises for    *)
(* every configuration, command line and number of threads: the inductive  *)
(* invariant of each program, then the theorems on their compositions.     *)
(***************************************************************************)
EXTENDS ParameterApps, Ros2Demos, FiniteSetTheorems, WellFoundedInduction, TLAPS

-----------------------------------------------------------------------------
(***************************************************************************)
(* Sequences.                                                              *)
(***************************************************************************)

(* An element of a sequence is in its set.                                 *)
LEMMA ElementIs ==
    ASSUME NEW S, NEW s \in Seq(S), NEW i \in 1..Len(s)
    PROVE  s[i] \in S
  OBVIOUS

(* The first element of a sequence is taken.                               *)
LEMMA TailIs ==
    ASSUME NEW S, NEW s \in Seq(S), s # <<>>
    PROVE  /\ Head(s) \in S /\ Head(s) = s[1]
           /\ Tail(s) \in Seq(S)
           /\ Len(s) \in Nat \ {0} /\ Len(Tail(s)) = Len(s) - 1
           /\ \A i \in 1..Len(Tail(s)) : Tail(s)[i] = s[i + 1]
  OBVIOUS

(* An element is appended to a sequence.                                   *)
LEMMA AppendIs ==
    ASSUME NEW S, NEW s \in Seq(S), NEW x \in S
    PROVE  /\ Append(s, x) \in Seq(S) /\ Append(s, x) # <<>>
           /\ Len(s) \in Nat /\ Len(Append(s, x)) = Len(s) + 1
           /\ Append(s, x)[Len(s) + 1] = x
           /\ \A i \in 1..Len(s) : Append(s, x)[i] = s[i]
  OBVIOUS

-----------------------------------------------------------------------------
(***************************************************************************)
(* Numbers in four bytes.                                                  *)
(***************************************************************************)

(* Quotient and remainder.                                                 *)
LEMMA QuotientRemainder ==
    ASSUME NEW m \in Nat \ {0}, NEW x \in Nat
    PROVE  /\ x \div m \in Nat /\ x % m \in 0..(m - 1)
           /\ x = m * (x \div m) + (x % m)
  <1>1. m \in Nat /\ m > 0
    OBVIOUS
  <1>2. x \div m \in Int
    BY <1>1
  <1>3. x % m \in 0..(m - 1)
    BY <1>1
  <1>4. x = m * (x \div m) + (x % m)
    BY <1>1
  <1>5. x \div m >= 0
    <2> DEFINE d == x \div m
    <2> SUFFICES ASSUME d < 0 PROVE FALSE
      BY <1>2
    <2>1. m * d <= -m
      <3>1. d \in Int /\ -d >= 1
        BY <1>2
      <3> HIDE DEF d
      <3> QED  BY <1>1, <3>1
    <2> HIDE DEF d
    <2> QED  BY <1>1, <1>2, <1>3, <1>4, <2>1 DEF d
  <1> QED  BY <1>2, <1>3, <1>4, <1>5

(* Multiples of m are at least m apart.                                    *)
LEMMA MultiplesApart ==
    ASSUME NEW m \in Nat \ {0}, NEW p \in Nat, NEW q \in Nat, p < q
    PROVE  m * q >= m * p + m
  <1>1. m * (q - p) >= m
    OBVIOUS
  <1>2. m * (q - p) = m * q - m * p /\ m * q \in Nat /\ m * p \in Nat
    OBVIOUS
  <1> QED  BY <1>1, <1>2

(* They are the only ones.                                                 *)
LEMMA QuotientUnique ==
    ASSUME NEW m \in Nat \ {0}, NEW x \in Nat, NEW q \in Nat, NEW r \in 0..(m - 1),
           x = m * q + r
    PROVE  x \div m = q /\ x % m = r
  <1> DEFINE d == x \div m
             e == x % m
  <1>1. d \in Nat /\ e \in 0..(m - 1) /\ x = m * d + e
    BY QuotientRemainder
  <1>2. m * d \in Nat /\ m * q \in Nat
    BY <1>1
  <1> HIDE DEF d, e
  <1>3. ~(q < d)
    <2> SUFFICES ASSUME q < d PROVE FALSE
      OBVIOUS
    <2>1. m * d >= m * q + m
      BY <1>1, MultiplesApart
    <2> QED  BY <1>1, <1>2, <2>1
  <1>4. ~(d < q)
    <2> SUFFICES ASSUME d < q PROVE FALSE
      OBVIOUS
    <2>1. m * q >= m * d + m
      BY <1>1, MultiplesApart
    <2> QED  BY <1>1, <1>2, <2>1
  <1>5. d = q
    BY <1>1, <1>3, <1>4
  <1>6. e = r
    BY <1>1, <1>2, <1>5
  <1> QED  BY <1>5, <1>6 DEF d, e

(* Dividing twice is dividing by the product.                              *)
LEMMA DivideTwice ==
    ASSUME NEW m \in Nat \ {0}, NEW b \in Nat \ {0}, NEW x \in Nat
    PROVE  x \div (m * b) = (x \div m) \div b
  <1> DEFINE y == x \div m
             r == x % m
             z == y \div b
             s == y % b
  <1>1. y \in Nat /\ r \in 0..(m - 1) /\ x = m * y + r
    BY QuotientRemainder
  <1>2. z \in Nat /\ s \in 0..(b - 1) /\ y = b * z + s
    BY <1>1, QuotientRemainder
  <1> HIDE DEF y, r, z, s
  <1>3. m * b \in Nat \ {0}
    OBVIOUS
  <1>4. m * y = m * (b * z) + m * s
    BY <1>2
  <1>5. m * (b * z) = (m * b) * z
    BY <1>2
  <1>6. m * s \in Nat /\ (m * b) * z \in Nat
    BY <1>2, <1>3
  <1>7. m * s + m <= m * b
    BY <1>2, MultiplesApart
  <1>8. m * s + r \in 0..(m * b - 1)
    BY <1>1, <1>3, <1>6, <1>7
  <1>9. x = (m * b) * z + (m * s + r)
    BY <1>1, <1>4, <1>5, <1>6
  <1>10. x \div (m * b) = z
    BY <1>2, <1>3, <1>8, <1>9, QuotientUnique
  <1> QED  BY <1>10 DEF z, y

(* The four bytes of a number below B * B * B * B, the most significant    *)
(* one first, are the number.                                              *)
LEMMA FourBytes ==
    ASSUME NEW B \in Nat \ {0}, NEW x \in Nat, x < B * B * B * B
    PROVE  ((x \div (B * B * B)) % B) * (B * B * B) + ((x \div (B * B)) % B) * (B * B)
             + ((x \div B) % B) * B + (x % B) = x
  <1> DEFINE a == x \div B
             b == a \div B
             c == b \div B
             r == x % B
             s == a % B
             t == b % B
  <1>1. /\ B * B \in Nat \ {0} /\ B * B * B \in Nat \ {0}
    OBVIOUS
  <1>2. /\ x \div (B * B) = b
    BY DivideTwice
  <1>3. x \div (B * B * B) = c
    BY <1>1, <1>2, DivideTwice
  <1>4. a \in Nat /\ r \in 0..(B - 1) /\ x = B * a + r
    BY QuotientRemainder
  <1>5. b \in Nat /\ s \in 0..(B - 1) /\ a = B * b + s
    BY <1>4, QuotientRemainder
  <1>6. c \in Nat /\ t \in 0..(B - 1) /\ b = B * c + t
    BY <1>5, QuotientRemainder
  <1> HIDE DEF a, b, c, r, s, t
  <1>7. B * a = (B * B) * b + B * s
    BY <1>5
  <1>8. (B * B) * b = (B * B * B) * c + (B * B) * t
    BY <1>6
  <1>9. x = c * (B * B * B) + t * (B * B) + s * B + r
    BY <1>4, <1>5, <1>6, <1>7, <1>8
  <1>10. c < B
    <2> SUFFICES ASSUME c >= B PROVE FALSE
      BY <1>6
    <2>1. (B * B * B) * c >= (B * B * B) * B
      <3>1. CASE c = B
        BY <1>1, <3>1
      <3>2. CASE B < c
        <4>1. (B * B * B) * c >= (B * B * B) * B + B * B * B
          BY <1>1, <1>6, <3>2, MultiplesApart
        <4> QED  BY <1>1, <1>6, <4>1
      <3> QED  BY <1>6, <3>1, <3>2
    <2>2. c * (B * B * B) = (B * B * B) * c /\ c * (B * B * B) \in Nat
      BY <1>6, <1>1
    <2>3. t * (B * B) \in Nat /\ s * B \in Nat
      BY <1>1, <1>5, <1>6
    <2> QED  BY <1>4, <1>9, <2>1, <2>2, <2>3
  <1>11. c % B = c
    <2>1. c = B * 0 + c /\ c \in 0..(B - 1) /\ 0 \in Nat
      BY <1>6, <1>10
    <2> QED  BY <1>6, <2>1, QuotientUnique
  <1> DEFINE p3 == (x \div (B * B * B)) % B
             p2 == (x \div (B * B)) % B
             p1 == (x \div B) % B
             p0 == x % B
  <1>12. p3 = c /\ p2 = t /\ p1 = s /\ p0 = r
    BY <1>2, <1>3, <1>11 DEF a, r, s, t
  <1> SUFFICES p3 * (B * B * B) + p2 * (B * B) + p1 * B + p0 = x
    OBVIOUS
  <1> HIDE DEF p3, p2, p1, p0
  <1> QED  BY <1>9, <1>12

-----------------------------------------------------------------------------
(***************************************************************************)
(* The managed node and its clients.                                       *)
(***************************************************************************)
States == {"unconfigured", "inactive", "active", "finalized"}
Changes == {"configure", "activate", "deactivate", "cleanup", "unconfigured_shutdown"}

NodeRecord == [state : States, pub : BOOLEAN, timer : BOOLEAN, activated : BOOLEAN]
RequestRecord == [from : LifecycleClients, number : Nat, call : Changes \cup {"get_state"}]
UnderScript == {"change", "await change", "get", "await state", "sleep"}
ScriptRecord == [at : UnderScript \cup {"interrupted", "completed", "returned"},
                 it : Nat, sent : Nat]
ClientRecord == [ok : BOOLEAN, main : {"spin", "join", "ended"}, woken : BOOLEAN]

LifecycleType ==
    /\ node \in NodeRecord
    /\ requests \in Seq(RequestRecord)
    /\ topic \in Seq({"active"})
    /\ script \in [LifecycleClients -> ScriptRecord]
    /\ status \in [LifecycleClients -> {"running", "interrupted", "completed"}]
    /\ client \in [LifecycleClients -> ClientRecord]
    /\ answer \in [LifecycleClients -> {"none", "success", "refused"}]

(* The publisher is activated in the state "active" and in no other, the   *)
(* timer runs only with a publisher, and what is heard was sent then.      *)
PublishesActive ==
    /\ node.activated <=> node.state = "active"
    /\ node.timer => node.pub
    /\ heard \subseteq {"active"}

(* A request still waited for is the transition its client is at.          *)
InTurn(r, s) ==
    /\ r.number <= s.sent
    /\ r.number = s.sent /\ s.at = "await change" => r.call = Transitions[s.it]

RequestsInTurn ==
    /\ \A i \in 1..Len(requests) : InTurn(requests[i], script[requests[i].from])
    /\ \A c \in LifecycleClients :
         script[c].at \in UnderScript => script[c].it \in 1..7

(* The client knows that its shutdown of the node succeeded.               *)
ShutDown(c) ==
    \/ status[c] = "completed"
    \/ script[c].at = "completed"
    \/ /\ script[c].it = 7
       /\ \/ script[c].at \in {"get", "await state", "sleep"}
          \/ script[c].at = "await change" /\ answer[c] = "success"

OneShutsDown ==
    \A c \in LifecycleClients : ShutDown(c) =>
        /\ node.state = "finalized"
        /\ \A d \in LifecycleClients \ {c} : ~ShutDown(d)

LifecycleInv == LifecycleType /\ PublishesActive /\ RequestsInTurn /\ OneShutsDown

(* The seven transitions of the script.                                    *)
LEMMA TransitionFacts ==
    /\ Len(Transitions) = 7
    /\ Transitions[7] = "unconfigured_shutdown"
    /\ \A k \in 1..7 : Transitions[k] \in Changes
  BY DEF Transitions, Changes

(* A transition starts where the state machine allows it, never from the   *)
(* final state, and ends with the publisher as its state demands.          *)
LEMMA RunFacts ==
    ASSUME NEW n \in NodeRecord,
           n.activated <=> n.state = "active", n.timer => n.pub,
           NEW t \in Changes, Moves(t).from = n.state
    PROVE  /\ Run(t, n) \in NodeRecord
           /\ Run(t, n).activated <=> Run(t, n).state = "active"
           /\ Run(t, n).timer => Run(t, n).pub
           /\ n.state # "finalized"
           /\ t = "unconfigured_shutdown" => Run(t, n).state = "finalized"
  <1>1. CASE t = "configure"
    BY <1>1 DEF Run, Moves, OnConfigure, States, NodeRecord
  <1>2. CASE t = "activate"
    BY <1>2 DEF Run, Moves, OnActivate, States, NodeRecord
  <1>3. CASE t = "deactivate"
    BY <1>3 DEF Run, Moves, OnDeactivate, States, NodeRecord
  <1>4. CASE t = "cleanup"
    BY <1>4 DEF Run, Moves, OnCleanup, States, NodeRecord
  <1>5. CASE t = "unconfigured_shutdown"
    BY <1>5 DEF Run, Moves, OnShutdown, States, NodeRecord
  <1> QED
    BY <1>1, <1>2, <1>3, <1>4, <1>5 DEF Changes

(* The node is not configured yet, and no client has asked for anything.   *)
LEMMA LifecycleInitInv == LifecycleInit => LifecycleInv
  <1> SUFFICES ASSUME LifecycleInit PROVE LifecycleInv
    OBVIOUS
  <1>1. LifecycleType
    BY DEF LifecycleInit, LifecycleType, NodeRecord, States, ScriptRecord, UnderScript, ClientRecord
  <1>2. PublishesActive
    BY DEF LifecycleInit, PublishesActive
  <1>3. /\ requests = <<>>
        /\ \A c \in LifecycleClients : script[c].at = "change" /\ script[c].it = 1
                                      /\ status[c] = "running"
    BY DEF LifecycleInit
  <1>4. RequestsInTurn /\ OneShutsDown
    <2>1. RequestsInTurn
      BY <1>3 DEF RequestsInTurn
    <2>2. OneShutsDown
      BY <1>3 DEF OneShutsDown, ShutDown
    <2> QED  BY <2>1, <2>2
  <1> QED
    BY <1>1, <1>2, <1>4 DEF LifecycleInv

(* A step that leaves the node alone and adds no client to those that know *)
(* of its shutdown keeps the shutdown unique.                              *)
LEMMA ShutDownKept ==
    ASSUME OneShutsDown, node' = node,
           \A c \in LifecycleClients : ShutDown(c)' => ShutDown(c)
    PROVE  OneShutsDown'
  BY DEF OneShutsDown

(* The executor serves a request.                                          *)
LEMMA ServeRequestInv ==
    ASSUME LifecycleInv, ServeRequest
    PROVE  LifecycleInv'
  <1> DEFINE r == Head(requests)
             allowed == r.call # "get_state" /\ Moves(r.call).from = node.state
             given == IF r.call = "get_state" \/ allowed THEN "success" ELSE "refused"
  <1>1. /\ r \in RequestRecord
        /\ requests' \in Seq(RequestRecord)
        /\ Len(requests') = Len(requests) - 1
        /\ \A i \in 1..Len(requests') : requests'[i] = requests[i + 1]
        /\ Len(requests) \in Nat \ {0} /\ r = requests[1]
        /\ UNCHANGED <<topic, heard, script, status, client>>
    BY TailIs DEF LifecycleInv, LifecycleType, ServeRequest
  <1>2. /\ node' = IF allowed THEN Run(r.call, node) ELSE node
        /\ answer' = Answers(r, given)
    BY DEF ServeRequest
  <1>a. r.from \in LifecycleClients /\ r.call \in Changes \cup {"get_state"}
    BY <1>1 DEF RequestRecord
  <1>b. given \in {"none", "success", "refused"}
    OBVIOUS
  <1> HIDE DEF r, given
  <1>3. /\ answer' \in [LifecycleClients -> {"none", "success", "refused"}]
        /\ \A c \in LifecycleClients :
              \/ answer'[c] = answer[c]
              \/ c = r.from /\ script[c].sent = r.number /\ answer'[c] = given
    <2>1. answer \in [LifecycleClients -> {"none", "success", "refused"}]
      BY DEF LifecycleInv, LifecycleType
    <2>2. CASE script[r.from].sent = r.number
      <3>1. answer' = [answer EXCEPT ![r.from] = given]
        BY <1>2, <2>2 DEF Answers
      <3>2. answer' \in [LifecycleClients -> {"none", "success", "refused"}]
        BY <1>a, <1>b, <2>1, <3>1
      <3>3. \A c \in LifecycleClients : IF c = r.from THEN answer'[c] = given
                                        ELSE answer'[c] = answer[c]
        BY <2>1, <3>1
      <3> QED  BY <2>2, <3>2, <3>3
    <2>3. CASE script[r.from].sent # r.number
      <3>1. answer' = answer
        BY <1>2, <2>3 DEF Answers
      <3> QED  BY <2>1, <3>1
    <2> QED  BY <2>2, <2>3
  <1>4. /\ node' \in NodeRecord
        /\ node'.activated <=> node'.state = "active"
        /\ node'.timer => node'.pub
        /\ allowed => node.state # "finalized"
        /\ allowed /\ r.call = "unconfigured_shutdown" => node'.state = "finalized"
    <2>1. CASE allowed
      BY <1>a, <1>2, <2>1, RunFacts DEF LifecycleInv, LifecycleType, PublishesActive
    <2>2. CASE ~allowed
      BY <1>2, <2>2 DEF LifecycleInv, LifecycleType, PublishesActive
    <2> QED  BY <2>1, <2>2
  <1>5. LifecycleType' /\ PublishesActive'
    BY <1>1, <1>3, <1>4 DEF LifecycleInv, LifecycleType, PublishesActive
  <1>6. RequestsInTurn'
    <2>1. ASSUME NEW i \in 1..Len(requests')
          PROVE  i + 1 \in 1..Len(requests) /\ requests'[i] = requests[i + 1]
      BY <1>1
    <2> QED  BY <1>1, <2>1 DEF LifecycleInv, RequestsInTurn
  <1>7. ASSUME NEW c \in LifecycleClients, ShutDown(c)', ~ShutDown(c)
        PROVE  c = r.from /\ allowed /\ node'.state = "finalized"
    <2>1. /\ script[c].it = 7 /\ script[c].at = "await change"
          /\ answer'[c] = "success" /\ answer[c] # "success"
      BY <1>1, <1>7 DEF ShutDown
    <2>2. c = r.from /\ script[c].sent = r.number /\ (r.call = "get_state" \/ allowed)
      BY <1>3, <2>1 DEF given
    <2>3. r.call = "unconfigured_shutdown"
      <3>1. 1 \in 1..Len(requests)
        BY <1>1
      <3>2. InTurn(r, script[c])
        BY <1>1, <2>2, <3>1 DEF LifecycleInv, RequestsInTurn
      <3> QED  BY <2>1, <2>2, <3>2, TransitionFacts DEF InTurn
    <2> QED  BY <1>4, <2>2, <2>3
  <1>8. OneShutsDown'
    <2>1. CASE \E c \in LifecycleClients : ShutDown(c)
      <3>1. ~allowed /\ node' = node
        BY <1>2, <1>4, <2>1 DEF LifecycleInv, OneShutsDown
      <3> QED  BY <1>7, <3>1, ShutDownKept DEF LifecycleInv
    <2>2. CASE \A c \in LifecycleClients : ~ShutDown(c)
      BY <1>7, <2>2 DEF OneShutsDown
    <2> QED  BY <2>1, <2>2
  <1> QED  BY <1>5, <1>6, <1>8 DEF LifecycleInv

(* The timer of the node, and the subscriber.                              *)
LEMMA TopicInv ==
    ASSUME LifecycleInv, PublishOnTimer \/ DataCallback
    PROVE  LifecycleInv'
  <1>1. UNCHANGED <<node, requests, script, status, client, answer>>
    BY DEF PublishOnTimer, DataCallback
  <1>2. topic' \in Seq({"active"}) /\ heard' \subseteq {"active"}
    <2>1. CASE PublishOnTimer
      <3> DEFINE kept == IF Len(topic) = MaxTopic THEN Tail(topic) ELSE topic
      <3>1. CASE node.pub /\ node.activated
        <4>1. kept \in Seq({"active"})
          <5>1. topic \in Seq({"active"}) /\ (Len(topic) = MaxTopic => topic # <<>>)
            BY MaxTopicAssumption DEF LifecycleInv, LifecycleType
          <5> QED  BY <5>1, TailIs
        <4>2. node.state = "active" /\ topic' = Append(kept, node.state) /\ heard' = heard
          BY <2>1, <3>1 DEF PublishOnTimer, LifecycleInv, PublishesActive
        <4> HIDE DEF kept
        <4> QED  BY <4>1, <4>2, AppendIs DEF LifecycleInv, PublishesActive
      <3>2. CASE ~(node.pub /\ node.activated)
        BY <2>1, <3>2 DEF PublishOnTimer, LifecycleInv, LifecycleType, PublishesActive
      <3> QED  BY <3>1, <3>2
    <2>2. CASE DataCallback
      <3>1. /\ topic \in Seq({"active"}) /\ topic # <<>> /\ topic' = Tail(topic)
            /\ heard' = heard \cup {Head(topic)} /\ heard \subseteq {"active"}
        BY <2>2 DEF DataCallback, LifecycleInv, LifecycleType, PublishesActive
      <3>2. Head(topic) \in {"active"} /\ Tail(topic) \in Seq({"active"})
        BY <3>1, TailIs
      <3> QED  BY <3>1, <3>2
    <2> QED  BY <2>1, <2>2
  <1>3. LifecycleType' /\ PublishesActive' /\ RequestsInTurn'
    BY <1>1, <1>2 DEF LifecycleInv, LifecycleType, PublishesActive, RequestsInTurn
  <1>4. OneShutsDown'
    BY <1>1, ShutDownKept DEF LifecycleInv, ShutDown
  <1> QED  BY <1>3, <1>4 DEF LifecycleInv

(* A step of a client's script that sends nothing: it goes on, to anything *)
(* but the wait for a transition.                                          *)
LEMMA ScriptGoesOn ==
    ASSUME LifecycleInv, NEW c \in LifecycleClients,
           UNCHANGED <<node, requests, topic, heard>>,
           script' \in [LifecycleClients -> ScriptRecord],
           status' \in [LifecycleClients -> {"running", "interrupted", "completed"}],
           client' \in [LifecycleClients -> ClientRecord],
           answer' \in [LifecycleClients -> {"none", "success", "refused"}],
           \A d \in LifecycleClients \ {c} :
              script'[d] = script[d] /\ status'[d] = status[d] /\ answer'[d] = answer[d],
           script'[c].sent = script[c].sent, script'[c].at # "await change",
           script'[c].at \in UnderScript => script'[c].it \in 1..7,
           ShutDown(c)' => ShutDown(c)
    PROVE  LifecycleInv'
  <1>1. LifecycleType' /\ PublishesActive'
    BY DEF LifecycleInv, LifecycleType, PublishesActive
  <1>2. ASSUME NEW i \in 1..Len(requests')
        PROVE  InTurn(requests'[i], script'[requests'[i].from])
    <2> DEFINE r == requests[i]
    <2>1. requests \in Seq(RequestRecord) /\ i \in 1..Len(requests) /\ requests' = requests
      BY <1>2 DEF LifecycleInv, LifecycleType
    <2>2. r \in RequestRecord
      BY <2>1, ElementIs
    <2>3. InTurn(r, script[r.from])
      BY <2>1 DEF LifecycleInv, RequestsInTurn
    <2> HIDE DEF r
    <2>4. InTurn(r, script'[r.from])
      <3>1. r.from \in LifecycleClients
        BY <2>2 DEF RequestRecord
      <3>2. CASE r.from = c
        BY <2>3, <3>2 DEF InTurn
      <3>3. CASE r.from # c
        BY <2>3, <3>1, <3>3
      <3> QED  BY <3>2, <3>3
    <2> QED  BY <2>1, <2>4 DEF r
  <1>3. \A d \in LifecycleClients : script'[d].at \in UnderScript => script'[d].it \in 1..7
    BY DEF LifecycleInv, RequestsInTurn
  <1>4. RequestsInTurn'
    BY <1>2, <1>3 DEF RequestsInTurn
  <1>5. \A d \in LifecycleClients : ShutDown(d)' => ShutDown(d)
    BY DEF ShutDown
  <1> QED  BY <1>1, <1>4, <1>5, ShutDownKept DEF LifecycleInv

(* A call is sent, or the service does not appear.                         *)
LEMMA CallServiceInv ==
    ASSUME LifecycleInv, NEW c \in LifecycleClients, CallService(c)
    PROVE  LifecycleInv'
  <1>1. /\ script[c].at \in {"change", "get"} /\ script[c].it \in 1..7
        /\ answer' = [answer EXCEPT ![c] = "none"]
        /\ UNCHANGED <<node, topic, heard, status, client>>
    BY DEF CallService, LifecycleInv, RequestsInTurn, UnderScript
  <1>2. /\ answer' \in [LifecycleClients -> {"none", "success", "refused"}]
        /\ answer'[c] = "none"
        /\ \A d \in LifecycleClients \ {c} : answer'[d] = answer[d]
    BY <1>1 DEF LifecycleInv, LifecycleType
  <1>3. script \in [LifecycleClients -> ScriptRecord]
    BY DEF LifecycleInv, LifecycleType
  <1>4. CASE Break(c) /\ UNCHANGED requests
    <2>1. script' = [script EXCEPT ![c].at = "interrupted"]
      BY <1>4 DEF Break
    <2>2. /\ script' \in [LifecycleClients -> ScriptRecord]
          /\ script'[c].at = "interrupted" /\ script'[c].sent = script[c].sent
          /\ \A d \in LifecycleClients \ {c} : script'[d] = script[d]
      BY <1>3, <2>1 DEF ScriptRecord, UnderScript
    <2>3. ShutDown(c)' => ShutDown(c)
      BY <1>1, <2>2 DEF ShutDown
    <2> QED
      BY <1>1, <1>2, <1>4, <2>2, <2>3, ScriptGoesOn DEF LifecycleInv, LifecycleType, UnderScript
  <1>5. CASE ~(Break(c) /\ UNCHANGED requests)
    <2> DEFINE number == script[c].sent + 1
               r == [from |-> c, number |-> number,
                     call |-> IF script[c].at = "get" THEN "get_state"
                              ELSE Transitions[script[c].it]]
    <2>1. /\ requests' = Append(requests, r)
          /\ script' = [script EXCEPT ![c].sent = number,
                          ![c].at = IF @ = "get" THEN "await state" ELSE "await change"]
      BY <1>5 DEF CallService
    <2>a. number \in Nat /\ script[c].sent \in Nat
      BY <1>3 DEF ScriptRecord
    <2>b. Transitions[script[c].it] \in Changes
      BY <1>1, TransitionFacts
    <2>2. r \in RequestRecord
      BY <2>a, <2>b DEF RequestRecord
    <2>c. r.from = c /\ r.number = number
          /\ (script[c].at = "change" => r.call = Transitions[script[c].it])
      OBVIOUS
    <2>3. /\ script'[c].sent = number /\ script'[c].it = script[c].it
          /\ script'[c].at = IF script[c].at = "get" THEN "await state" ELSE "await change"
          /\ \A d \in LifecycleClients \ {c} : script'[d] = script[d]
          /\ script' \in [LifecycleClients -> ScriptRecord]
      BY <1>3, <2>1, <2>a DEF ScriptRecord, UnderScript
    <2> HIDE DEF r, number
    <2>d. requests \in Seq(RequestRecord)
      BY DEF LifecycleInv, LifecycleType
    <2>e. /\ requests' \in Seq(RequestRecord) /\ Len(requests') = Len(requests) + 1
          /\ Len(requests) \in Nat
          /\ requests'[Len(requests) + 1] = r
          /\ \A i \in 1..Len(requests) : requests'[i] = requests[i]
      BY <2>1, <2>2, <2>d, AppendIs
    <2>4. LifecycleType' /\ PublishesActive'
      BY <1>1, <1>2, <2>e, <2>3 DEF LifecycleInv, LifecycleType, PublishesActive
    <2>5. ASSUME NEW i \in 1..Len(requests')
          PROVE  InTurn(requests'[i], script'[requests'[i].from])
      <3>1. CASE i = Len(requests) + 1
        <4>1. requests'[i] = r
          BY <2>e, <3>1
        <4>2. script'[c].at = "await change" => script[c].at = "change"
          BY <1>1, <2>3
        <4>3. InTurn(r, script'[c])
          <5>1. r.number = script'[c].sent /\ script'[c].sent \in Nat
            BY <2>3, <2>a, <2>c
          <5>2. script'[c].at = "await change" => r.call = Transitions[script'[c].it]
            BY <2>3, <2>c, <4>2
          <5>3. r.number <= script'[c].sent
            BY <5>1
          <5> QED  BY <5>2, <5>3 DEF InTurn
        <4> QED  BY <2>c, <4>1, <4>3
      <3>2. CASE i # Len(requests) + 1
        <4> DEFINE q == requests[i]
        <4>1. i \in 1..Len(requests) /\ requests'[i] = q
          BY <2>5, <2>e, <3>2
        <4>2. q \in RequestRecord
          BY <2>d, <4>1, ElementIs
        <4>3. q.from \in LifecycleClients /\ q.number \in Nat
          BY <4>2 DEF RequestRecord
        <4>4. InTurn(q, script[q.from])
          BY <4>1 DEF LifecycleInv, RequestsInTurn
        <4> HIDE DEF q
        <4>5. CASE q.from = c
          <5>1. q.number <= script[c].sent
            BY <4>4, <4>5 DEF InTurn
          <5>2. q.number <= script'[c].sent /\ q.number # script'[c].sent
            <6>1. script'[c].sent = script[c].sent + 1
              BY <2>3 DEF number
            <6> QED  BY <2>a, <4>3, <5>1, <6>1
          <5>3. InTurn(q, script'[c])
            BY <5>2 DEF InTurn
          <5> QED  BY <4>1, <4>5, <5>3
        <4>6. CASE q.from # c
          BY <2>3, <4>1, <4>3, <4>4, <4>6
        <4> QED  BY <4>5, <4>6
      <3> QED  BY <3>1, <3>2
    <2>f. \A d \in LifecycleClients : script'[d].at \in UnderScript => script'[d].it \in 1..7
      BY <1>1, <2>3 DEF LifecycleInv, RequestsInTurn
    <2>6. RequestsInTurn'
      BY <2>5, <2>f DEF RequestsInTurn
    <2>7. \A d \in LifecycleClients : ShutDown(d)' => ShutDown(d)
      BY <1>1, <1>2, <2>3 DEF ShutDown
    <2> QED  BY <1>1, <2>4, <2>6, <2>7, ShutDownKept DEF LifecycleInv
  <1> QED  BY <1>4, <1>5

(* An answer is taken or given up, the next transition is due, and the     *)
(* outcome is reported: a client learns of its shutdown from the answer    *)
(* alone.                                                                  *)
LEMMA ScriptInv ==
    ASSUME LifecycleInv, NEW c \in LifecycleClients,
           AwaitAnswer(c) \/ NextTransition(c) \/ ReportStatus(c)
    PROVE  LifecycleInv'
  <1> DEFINE Outcomes == {"running", "interrupted", "completed"}
  <1>1. /\ script \in [LifecycleClients -> ScriptRecord]
        /\ status \in [LifecycleClients -> Outcomes]
        /\ client \in [LifecycleClients -> ClientRecord]
        /\ answer \in [LifecycleClients -> {"none", "success", "refused"}]
        /\ script[c].at \in UnderScript => script[c].it \in 1..7
    BY DEF LifecycleInv, LifecycleType, RequestsInTurn
  <1>2. UNCHANGED <<node, requests, topic, heard, answer>>
    BY DEF AwaitAnswer, NextTransition, ReportStatus
  <1>3. CASE AwaitAnswer(c)
    <2>1. /\ script[c].at \in {"await state", "await change"}
          /\ UNCHANGED <<status, client>>
          /\ \/ script' = [script EXCEPT ![c].at = "interrupted"]
             \/ /\ answer[c] = "success"
                /\ script' = [script EXCEPT ![c].at = IF @ = "await change" THEN "get" ELSE "sleep"]
      BY <1>3 DEF AwaitAnswer, Break
    <2>2. /\ script' \in [LifecycleClients -> ScriptRecord]
          /\ \A d \in LifecycleClients \ {c} : script'[d] = script[d]
          /\ script'[c].sent = script[c].sent /\ script'[c].it = script[c].it
          /\ \/ script'[c].at = "interrupted"
             \/ answer[c] = "success" /\ script'[c].at \in {"get", "sleep"}
      <3>1. CASE script' = [script EXCEPT ![c].at = "interrupted"]
        BY <1>1, <3>1 DEF ScriptRecord, UnderScript
      <3>2. CASE script' = [script EXCEPT ![c].at = IF @ = "await change" THEN "get" ELSE "sleep"]
                 /\ answer[c] = "success"
        BY <1>1, <3>2 DEF ScriptRecord, UnderScript
      <3> QED  BY <2>1, <3>1, <3>2
    <2>3. script[c].it \in 1..7
      BY <1>1, <2>1 DEF UnderScript
    <2>4. ShutDown(c)' => ShutDown(c)
      BY <1>2, <2>1, <2>2 DEF ShutDown
    <2> QED  BY <1>1, <1>2, <2>1, <2>2, <2>3, <2>4, ScriptGoesOn
  <1>4. CASE NextTransition(c)
    <2>1. /\ script[c].at = "sleep"
          /\ script' = [script EXCEPT ![c].it = @ + 1,
                          ![c].at = IF script[c].it = 7 THEN "completed" ELSE "change"]
          /\ UNCHANGED <<status, client>>
      BY <1>4, TransitionFacts DEF NextTransition
    <2>2. script[c].it \in 1..7
      BY <1>1, <2>1 DEF UnderScript
    <2>3. /\ script' \in [LifecycleClients -> ScriptRecord]
          /\ \A d \in LifecycleClients \ {c} : script'[d] = script[d]
          /\ script'[c].sent = script[c].sent /\ script'[c].it = script[c].it + 1
          /\ script'[c].at = IF script[c].it = 7 THEN "completed" ELSE "change"
      <3> DEFINE next == IF script[c].it = 7 THEN "completed" ELSE "change"
                 it == script[c].it + 1
      <3>1. /\ script' = [script EXCEPT ![c].it = it, ![c].at = next]
            /\ next \in {"completed", "change"} /\ it \in Nat
        BY <2>1, <2>2
      <3> HIDE DEF next, it
      <3>2. /\ script' \in [LifecycleClients -> ScriptRecord]
            /\ \A d \in LifecycleClients \ {c} : script'[d] = script[d]
            /\ script'[c].sent = script[c].sent /\ script'[c].it = it
            /\ script'[c].at = next
        BY <1>1, <3>1 DEF ScriptRecord, UnderScript
      <3> QED  BY <3>2 DEF next, it
    <2>4. ShutDown(c)' => ShutDown(c)
      BY <1>2, <2>1, <2>2, <2>3 DEF ShutDown
    <2>5. script'[c].at # "await change"
          /\ (script'[c].at \in UnderScript => script'[c].it \in 1..7)
      BY <2>2, <2>3 DEF UnderScript
    <2> QED  BY <1>1, <1>2, <2>1, <2>3, <2>4, <2>5, ScriptGoesOn
  <1>5. CASE ReportStatus(c)
    <2>1. /\ script[c].at \in {"interrupted", "completed"}
          /\ status' = [status EXCEPT ![c] = script[c].at]
          /\ script' = [script EXCEPT ![c].at = "returned"]
          /\ client' = [client EXCEPT ![c].woken = TRUE]
      BY <1>5 DEF ReportStatus
    <2>2. /\ script' \in [LifecycleClients -> ScriptRecord]
          /\ \A d \in LifecycleClients \ {c} : script'[d] = script[d]
          /\ script'[c].sent = script[c].sent /\ script'[c].at = "returned"
      BY <1>1, <2>1 DEF ScriptRecord, UnderScript
    <2>3. /\ status' \in [LifecycleClients -> Outcomes] /\ status'[c] = script[c].at
          /\ \A d \in LifecycleClients \ {c} : status'[d] = status[d]
      BY <1>1, <2>1
    <2>4. client' \in [LifecycleClients -> ClientRecord]
      BY <1>1, <2>1 DEF ClientRecord
    <2>5. ShutDown(c)' => ShutDown(c)
      BY <2>1, <2>2, <2>3 DEF ShutDown
    <2> QED  BY <1>1, <1>2, <2>2, <2>3, <2>4, <2>5, ScriptGoesOn DEF UnderScript
  <1> QED  BY <1>3, <1>4, <1>5

(* main, wake_executor and a signal touch the client only.                 *)
LEMMA ClientMainInv ==
    ASSUME LifecycleInv, NEW c \in LifecycleClients,
           ClientMain(c) \/ InterruptClient(c)
    PROVE  LifecycleInv'
  <1>1. UNCHANGED <<node, requests, topic, heard, script, status, answer>>
    BY DEF ClientMain, WakeExecutor, JoinScript, InterruptClient
  <1>2. client' \in [LifecycleClients -> ClientRecord]
    <2>1. client \in [LifecycleClients -> ClientRecord]
      BY DEF LifecycleInv, LifecycleType
    <2> QED
      BY <2>1 DEF ClientMain, WakeExecutor, JoinScript, InterruptClient, ClientRecord
  <1>3. LifecycleType' /\ PublishesActive' /\ RequestsInTurn'
    BY <1>1, <1>2 DEF LifecycleInv, LifecycleType, PublishesActive, RequestsInTurn
  <1>4. \A d \in LifecycleClients : ShutDown(d)' => ShutDown(d)
    BY <1>1 DEF ShutDown
  <1> QED  BY <1>1, <1>3, <1>4, ShutDownKept DEF LifecycleInv

(* Every step of the node and of its clients keeps the invariant.          *)
LEMMA LifecycleNextInv == LifecycleInv /\ [LifecycleNextState]_lifecycleVars => LifecycleInv'
  <1> SUFFICES ASSUME LifecycleInv, [LifecycleNextState]_lifecycleVars PROVE LifecycleInv'
    OBVIOUS
  <1>1. CASE LifecycleNextState
    BY <1>1, ServeRequestInv, TopicInv, CallServiceInv, ScriptInv, ClientMainInv
       DEF LifecycleNextState, LifecycleNode, Script
  <1>2. CASE UNCHANGED lifecycleVars
    BY <1>2 DEF lifecycleVars, LifecycleInv, LifecycleType, PublishesActive, RequestsInTurn,
                OneShutsDown, ShutDown
  <1> QED  BY <1>1, <1>2

(* The invariant gives what is claimed of the life of the node.            *)
LEMMA LifecycleInvImplies == LifecycleInv => CompletedMeansFinalized /\ HeardWhileActive
  BY DEF LifecycleInv, OneShutsDown, ShutDown, PublishesActive, CompletedMeansFinalized,
         HeardWhileActive

-----------------------------------------------------------------------------
(***************************************************************************)
(* The action nodes.                                                       *)
(***************************************************************************)
Results == {"succeeded", "canceled", "rejected"}
GoalRecord ==
    [wants : Int, at : {"requested", "executing", "canceling", "dropped"} \cup Results,
     i : Nat, late : BOOLEAN, sequence : Seq(Int), version : Int, told : BOOLEAN]

ActionType ==
    /\ actionServer \in [at : {"spin", "ended"}, ok : BOOLEAN, version : Int]
    /\ timer \in [ActionClients -> BOOLEAN]
    /\ goals \in [ActionClients -> Seq(GoalRecord)]

(* The numbers of a sequence are those of an int32_t, and each is the sum  *)
(* of the two before it as long as none has wrapped.                       *)
Int32 == -(IntMax + 1)..IntMax
Sums(s) ==
    /\ \A k \in 1..Len(s) : s[k] \in Int32
    /\ \A n \in 3..Len(s) : (\A k \in 1..n : s[k] >= 0) => s[n] = s[n - 1] + s[n - 2]

(* A goal of a client: how far its thread can be, and what its sequence    *)
(* then is.                                                                *)
Iterations(a, r) == IF a = "firmware" THEN Phases + 1 ELSE r.wants
GoodGoal(a, c, r) ==
    /\ r.wants = Wanted[c]
    /\ r.i >= 1
    /\ r.i = 1 \/ r.i <= Iterations(a, r)
    /\ r.late \/ r.at = "succeeded" => r.i >= Iterations(a, r)
    /\ r.at = "rejected" /\ a = "firmware" => r.wants = r.version
    /\ a = "fibonacci" => Len(r.sequence) = r.i + 1
    /\ Sums(r.sequence)

GoodGoals == \A c \in ActionClients : \A g \in 1..Len(goals[c]) : GoodGoal(action, c, goals[c][g])

GoalsInSequence ==
    \A c \in ActionClients : \A g \in 1..Len(goals[c]) :
        GoalOver(goals[c][g]) \/ (g = Len(goals[c]) /\ ~timer[c])

(* The version of the server was installed by a goal that succeeded.       *)
VersionEarned ==
    \/ actionServer.version = InitialVersion
    \/ \E c \in ActionClients : \E g \in 1..Len(goals[c]) :
          goals[c][g].at = "succeeded" /\ goals[c][g].wants = actionServer.version

ActionInv == ActionType /\ GoodGoals /\ GoalsInSequence /\ VersionEarned

(* No goal has been sent yet.                                              *)
LEMMA ActionInitInv == ActionInit => ActionInv
  <1> SUFFICES ASSUME ActionInit PROVE ActionInv
    OBVIOUS
  <1>1. /\ actionServer = [at |-> "spin", ok |-> TRUE, version |-> 0]
        /\ timer = [c \in ActionClients |-> TRUE]
        /\ goals = [c \in ActionClients |-> <<>>]
    BY DEF ActionInit, InitialVersion
  <1>2. ActionType
    BY <1>1 DEF ActionType
  <1>3. \A c \in ActionClients : Len(goals[c]) = 0
    BY <1>1
  <1>4. GoodGoals /\ GoalsInSequence /\ VersionEarned
    BY <1>1, <1>3 DEF GoodGoals, GoalsInSequence, VersionEarned, InitialVersion
  <1> QED  BY <1>2, <1>4 DEF ActionInv

(* A goal is replaced: the other goals stay.                               *)
LEMMA SetGoal ==
    ASSUME ActionType, NEW c \in ActionClients, NEW g \in 1..Len(goals[c]), NEW r \in GoalRecord,
           Set(c, g, r)
    PROVE  /\ goals' \in [ActionClients -> Seq(GoalRecord)]
           /\ goals'[c][g] = r
           /\ \A d \in ActionClients : Len(goals'[d]) = Len(goals[d])
           /\ \A d \in ActionClients : \A h \in 1..Len(goals[d]) :
                 d # c \/ h # g => goals'[d][h] = goals[d][h]
  <1>1. goals \in [ActionClients -> Seq(GoalRecord)] /\ goals' = [goals EXCEPT ![c][g] = r]
    BY DEF ActionType, Set
  <1> DEFINE s == goals[c]
             t == [s EXCEPT ![g] = r]
  <1>2. s \in Seq(GoalRecord)
    BY <1>1
  <1>3. /\ t \in Seq(GoalRecord) /\ Len(t) = Len(s) /\ t[g] = r
        /\ \A h \in 1..Len(s) : h # g => t[h] = s[h]
    BY <1>2
  <1>4. goals' = [goals EXCEPT ![c] = t]
    BY <1>1
  <1> HIDE DEF t
  <1> QED  BY <1>1, <1>3, <1>4

(* A goal that is not over moves on.                                       *)
LEMMA GoalMoves ==
    ASSUME ActionInv, NEW c \in ActionClients, NEW g \in 1..Len(goals[c]),
           NEW r \in GoalRecord, Set(c, g, r), GoodGoal(action, c, r), UNCHANGED action,
           ~GoalOver(goals[c][g]),
           goals[c][g].at = "succeeded" => r.at = "succeeded" /\ r.wants = goals[c][g].wants,
           NEW b \in BOOLEAN, timer' = [timer EXCEPT ![c] = b], b => GoalOver(r),
           actionServer' \in [at : {"spin", "ended"}, ok : BOOLEAN, version : Int],
           \/ actionServer'.version = actionServer.version
           \/ r.at = "succeeded" /\ r.wants = actionServer'.version
    PROVE  ActionInv'
  <1>1. /\ goals' \in [ActionClients -> Seq(GoalRecord)]
        /\ goals'[c][g] = r
        /\ \A d \in ActionClients : Len(goals'[d]) = Len(goals[d])
        /\ \A d \in ActionClients : \A h \in 1..Len(goals[d]) :
              d # c \/ h # g => goals'[d][h] = goals[d][h]
    BY SetGoal DEF ActionInv
  <1>2. timer \in [ActionClients -> BOOLEAN]
    BY DEF ActionInv, ActionType
  <1>3. /\ timer' \in [ActionClients -> BOOLEAN] /\ timer'[c] = b
        /\ \A d \in ActionClients \ {c} : timer'[d] = timer[d]
    BY <1>2
  <1>4. ActionType'
    BY <1>1, <1>3 DEF ActionType
  <1>5. GoodGoals'
    <2>1. ASSUME NEW d \in ActionClients, NEW h \in 1..Len(goals'[d])
          PROVE  GoodGoal(action, d, goals'[d][h])
      <3>1. h \in 1..Len(goals[d])
        BY <1>1, <2>1
      <3>2. GoodGoal(action, d, goals[d][h])
        BY <3>1 DEF ActionInv, GoodGoals
      <3> QED  BY <1>1, <3>1, <3>2
    <2> QED  BY <2>1 DEF GoodGoals
  <1>6. ASSUME NEW d \in ActionClients, NEW h \in 1..Len(goals'[d])
        PROVE  GoalOver(goals'[d][h]) \/ (h = Len(goals'[d]) /\ ~timer'[d])
    <2>1. h \in 1..Len(goals[d])
      BY <1>1, <1>6
    <2>2. GoalOver(goals[d][h]) \/ (h = Len(goals[d]) /\ ~timer[d])
      BY <2>1 DEF ActionInv, GoalsInSequence
    <2>3. g = Len(goals[c])
      BY DEF ActionInv, GoalsInSequence
    <2>4. CASE d # c
      BY <1>1, <1>3, <2>1, <2>2, <2>4
    <2>5. CASE d = c /\ h # g
      BY <1>1, <2>1, <2>2, <2>3, <2>5
    <2>6. CASE d = c /\ h = g
      BY <1>1, <1>3, <2>3, <2>6
    <2> QED  BY <2>4, <2>5, <2>6
  <1>7. GoalsInSequence'
    BY <1>6 DEF GoalsInSequence
  <1>8. VersionEarned'
    <2>1. CASE actionServer'.version = actionServer.version
      <3>1. CASE actionServer.version = InitialVersion
        BY <2>1, <3>1 DEF VersionEarned, InitialVersion
      <3>2. CASE actionServer.version # InitialVersion
        <4>1. PICK d \in ActionClients : \E h \in 1..Len(goals[d]) :
                goals[d][h].at = "succeeded" /\ goals[d][h].wants = actionServer.version
          BY <3>2 DEF ActionInv, VersionEarned
        <4>2. PICK h \in 1..Len(goals[d]) :
                goals[d][h].at = "succeeded" /\ goals[d][h].wants = actionServer.version
          BY <4>1
        <4>3. h \in 1..Len(goals'[d])
          BY <1>1, <4>2
        <4>4. goals'[d][h].at = "succeeded" /\ goals'[d][h].wants = actionServer.version
          BY <1>1, <4>2
        <4> QED  BY <2>1, <4>3, <4>4 DEF VersionEarned
      <3> QED  BY <3>1, <3>2
    <2>2. CASE r.at = "succeeded" /\ r.wants = actionServer'.version
      BY <1>1, <2>2 DEF VersionEarned
    <2> QED  BY <2>1, <2>2
  <1> QED  BY <1>4, <1>5, <1>7, <1>8 DEF ActionInv

(* A sequence that gets the next sum keeps its form.                       *)
LEMMA SumAppended ==
    ASSUME NEW s \in Seq(Int), Sums(s), NEW i \in Nat, i >= 1, Len(s) = i + 1
    PROVE  /\ Append(s, Plus(s[i + 1], s[i])) \in Seq(Int)
           /\ Len(Append(s, Plus(s[i + 1], s[i]))) = i + 2
           /\ Sums(Append(s, Plus(s[i + 1], s[i])))
  <1> DEFINE a == s[i]
             b == s[i + 1]
             x == Plus(b, a)
             t == Append(s, x)
  <1>1. a \in Int32 /\ b \in Int32
    BY DEF Sums
  <1>2. /\ x \in Int32
        /\ a >= 0 /\ b >= 0 /\ x >= 0 => x = a + b
    <2> HIDE DEF a, b
    <2>1. CASE b + a > IntMax
      <3>1. x = b + a - 2 * (IntMax + 1)
        BY <1>1, <2>1, ActionAssumption DEF Plus, Int32
      <3> QED  BY <1>1, <2>1, <3>1, ActionAssumption DEF Int32
    <2>2. CASE b + a < -(IntMax + 1)
      <3>1. x = b + a + 2 * (IntMax + 1)
        BY <1>1, <2>2, ActionAssumption DEF Plus, Int32
      <3> QED  BY <1>1, <2>2, <3>1, ActionAssumption DEF Int32
    <2>3. CASE b + a \in Int32
      <3>1. x = b + a
        BY <1>1, <2>3, ActionAssumption DEF Plus, Int32
      <3> QED  BY <1>1, <2>3, <3>1, ActionAssumption DEF Int32
    <2> QED  BY <1>1, <2>1, <2>2, <2>3, ActionAssumption DEF Int32
  <1> HIDE DEF x
  <1>3. x \in Int
    BY <1>2, ActionAssumption DEF Int32
  <1>4. /\ t \in Seq(Int) /\ Len(t) = i + 2 /\ t[i + 2] = x
        /\ \A k \in 1..(i + 1) : t[k] = s[k]
    BY <1>3, AppendIs
  <1> HIDE DEF t
  <1>5. \A k \in 1..Len(t) : t[k] \in Int32
    BY <1>2, <1>4 DEF Sums
  <1>6. ASSUME NEW n \in 3..Len(t), \A k \in 1..n : t[k] >= 0
        PROVE  t[n] = t[n - 1] + t[n - 2]
    <2>1. CASE n = i + 2
      <3>1. t[n] = x /\ t[n - 1] = b /\ t[n - 2] = a
        <4>1. n - 1 = i + 1 /\ n - 2 = i /\ i \in 1..(i + 1) /\ i + 1 \in 1..(i + 1)
          BY <2>1
        <4> QED  BY <1>4, <2>1, <4>1
      <3>2. a >= 0 /\ b >= 0 /\ x >= 0
        <4>1. n \in 1..n /\ n - 1 \in 1..n /\ n - 2 \in 1..n
          BY <1>6
        <4> QED  BY <1>6, <3>1, <4>1
      <3>3. a \in Int /\ b \in Int
        BY <1>1, ActionAssumption DEF Int32
      <3> QED  BY <1>2, <3>1, <3>2, <3>3
    <2>2. CASE n # i + 2
      <3>1. n \in 3..Len(s) /\ \A k \in 1..n : t[k] = s[k]
        BY <1>4, <1>6, <2>2
      <3>2. s[n] = s[n - 1] + s[n - 2]
        BY <1>6, <3>1 DEF Sums
      <3> QED  BY <3>1, <3>2
    <2> QED  BY <2>1, <2>2
  <1>7. Sums(t)
    BY <1>5, <1>6 DEF Sums
  <1> QED  BY <1>4, <1>7 DEF t, x

(* A new goal of a client whose timer runs, or the server is not there.    *)
LEMMA SendGoalInv ==
    ASSUME ActionInv, NEW c \in ActionClients, SendGoal(c)
    PROVE  ActionInv'
  <1> DEFINE r == NewGoal(c)
  <1>1. /\ timer[c] /\ timer' = [timer EXCEPT ![c] = FALSE]
        /\ UNCHANGED <<action, actionServer>>
    BY DEF SendGoal
  <1>2. /\ timer \in [ActionClients -> BOOLEAN]
        /\ goals \in [ActionClients -> Seq(GoalRecord)]
        /\ actionServer \in [at : {"spin", "ended"}, ok : BOOLEAN, version : Int]
    BY DEF ActionInv, ActionType
  <1>3. /\ timer' \in [ActionClients -> BOOLEAN] /\ timer'[c] = FALSE
        /\ \A d \in ActionClients \ {c} : timer'[d] = timer[d]
    BY <1>1, <1>2
  <1>4. /\ \A g \in 1..Len(goals[c]) : GoalOver(goals[c][g])
        /\ \A d \in ActionClients \ {c} : \A g \in 1..Len(goals[d]) :
             GoalOver(goals[d][g]) \/ (g = Len(goals[d]) /\ ~timer[d])
    BY <1>1 DEF ActionInv, GoalsInSequence
  <1>5. CASE UNCHANGED goals
    <2>1. ActionType' /\ GoodGoals' /\ VersionEarned'
      BY <1>1, <1>2, <1>3, <1>5
         DEF ActionInv, ActionType, GoodGoals, VersionEarned, InitialVersion
    <2>2. GoalsInSequence'
      BY <1>3, <1>4, <1>5 DEF GoalsInSequence
    <2> QED  BY <2>1, <2>2 DEF ActionInv
  <1>6. CASE goals' = [goals EXCEPT ![c] = Append(@, NewGoal(c))]
    <2>1. r = [wants |-> Wanted[c], at |-> "requested", i |-> 1, late |-> FALSE,
               sequence |-> <<0, 1>>, version |-> 0, told |-> FALSE]
      BY DEF NewGoal, InitialVersion
    <2> HIDE DEF r
    <2>2. <<0, 1>> \in Seq(Int) /\ Len(<<0, 1>>) = 2
      OBVIOUS
    <2>3. r \in GoalRecord
      BY <2>1, <2>2, ActionAssumption DEF GoalRecord, Results
    <2>4. GoodGoal(action, c, r)
      <3>1. Sums(<<0, 1>>)
        BY ActionAssumption DEF Sums, Int32
      <3> QED  BY <2>1, <2>2, <3>1 DEF GoodGoal
    <2>5. /\ goals'[c] \in Seq(GoalRecord)
          /\ Len(goals[c]) \in Nat /\ Len(goals'[c]) = Len(goals[c]) + 1
          /\ goals'[c][Len(goals[c]) + 1] = r
          /\ \A g \in 1..Len(goals[c]) : goals'[c][g] = goals[c][g]
      BY <1>2, <1>6, <2>3, AppendIs DEF r
    <2>6. /\ goals' \in [ActionClients -> Seq(GoalRecord)]
          /\ \A d \in ActionClients \ {c} : goals'[d] = goals[d]
      BY <1>2, <1>6, <2>5
    <2>7. ActionType'
      BY <1>1, <1>2, <1>3, <2>6 DEF ActionType
    <2>8. ASSUME NEW d \in ActionClients, NEW g \in 1..Len(goals'[d])
          PROVE  /\ GoodGoal(action, d, goals'[d][g])
                 /\ GoalOver(goals'[d][g]) \/ (g = Len(goals'[d]) /\ ~timer'[d])
      <3>2. CASE d # c
        <4>1. goals'[d] = goals[d] /\ timer'[d] = timer[d] /\ g \in 1..Len(goals[d])
          BY <1>3, <2>6, <2>8, <3>2
        <4> QED  BY <1>4, <3>2, <4>1 DEF ActionInv, GoodGoals
      <3>3. CASE d = c /\ g = Len(goals[c]) + 1
        BY <1>3, <2>4, <2>5, <3>3
      <3>4. CASE d = c /\ g # Len(goals[c]) + 1
        <4>1. g \in 1..Len(goals[c]) /\ goals'[c][g] = goals[c][g]
          BY <2>5, <2>8, <3>4
        <4>2. GoodGoal(action, c, goals[c][g]) /\ GoalOver(goals[c][g])
          BY <1>4, <4>1 DEF ActionInv, GoodGoals
        <4> QED  BY <3>4, <4>1, <4>2
      <3> QED  BY <3>2, <3>3, <3>4
    <2>9. GoodGoals' /\ GoalsInSequence'
      BY <1>1, <2>8 DEF GoodGoals, GoalsInSequence
    <2>10. VersionEarned'
      <3>1. CASE actionServer.version = InitialVersion
        BY <1>1, <3>1 DEF VersionEarned, InitialVersion
      <3>2. CASE actionServer.version # InitialVersion
        <4>1. PICK d \in ActionClients : \E h \in 1..Len(goals[d]) :
                goals[d][h].at = "succeeded" /\ goals[d][h].wants = actionServer.version
          BY <3>2 DEF ActionInv, VersionEarned
        <4>2. PICK h \in 1..Len(goals[d]) :
                goals[d][h].at = "succeeded" /\ goals[d][h].wants = actionServer.version
          BY <4>1
        <4>3. h \in 1..Len(goals'[d]) /\ goals'[d][h] = goals[d][h]
          BY <2>5, <2>6, <4>2
        <4> QED  BY <1>1, <4>2, <4>3 DEF VersionEarned
      <3> QED  BY <3>1, <3>2
    <2> QED  BY <2>7, <2>9, <2>10 DEF ActionInv
  <1> QED  BY <1>5, <1>6 DEF SendGoal

(* The server answers, iterates, finishes; the client hears the result.    *)
LEMMA GoalStepsInv ==
    ASSUME ActionInv, NEW c \in ActionClients, NEW g, GoalSteps(c, g) \/ HandleCancel(c, g)
    PROVE  ActionInv'
  <1> DEFINE r == goals[c][g]
             Server == [at : {"spin", "ended"}, ok : BOOLEAN, version : Int]
  <1>1. /\ timer \in [ActionClients -> BOOLEAN]
        /\ goals[c] \in Seq(GoalRecord)
        /\ actionServer \in Server /\ actionServer.version \in Int
    BY DEF ActionInv, ActionType
  <1>2. g \in 1..Len(goals[c]) /\ UNCHANGED action
    <2>1. g \in DOMAIN goals[c]
      BY DEF GoalSteps, HandleGoal, HandleCancel, Execute, Iterate, TestOk, Succeed, Running,
             ResultCallback, Goal
    <2>2. UNCHANGED action
      BY DEF GoalSteps, HandleGoal, HandleCancel, Execute, Iterate, TestOk, Succeed,
             ResultCallback
    <2> QED  BY <1>1, <2>1, <2>2
  <1>3. r \in GoalRecord /\ GoodGoal(action, c, r)
    BY <1>1, <1>2, ElementIs DEF ActionInv, GoodGoals
  <1>4. timer[c] \in BOOLEAN /\ timer = [timer EXCEPT ![c] = timer[c]]
    BY <1>1
  <1>5. ~GoalOver(r) => ~timer[c]
    BY <1>2 DEF ActionInv, GoalsInSequence
  <1>6. LastIteration(c, g) = Iterations(action, r)
    BY DEF LastIteration, Iterations
  <1> HIDE DEF r
  <1>7. ASSUME NEW q \in GoalRecord, Set(c, g, q), GoodGoal(action, c, q), ~GoalOver(r),
               r.at # "succeeded", UNCHANGED <<actionServer, timer>>
        PROVE  ActionInv'
    <2>1. timer' = [timer EXCEPT ![c] = timer[c]] /\ actionServer' \in Server
          /\ actionServer'.version = actionServer.version /\ (timer[c] => GoalOver(q))
      BY <1>1, <1>4, <1>5, <1>7
    <2>2. ~GoalOver(goals[c][g]) /\ goals[c][g].at # "succeeded"
      BY <1>7 DEF r
    <2> QED  BY <1>2, <1>4, <1>7, <2>1, <2>2, GoalMoves
  <1>8. CASE HandleGoal(c, g)
    <2> DEFINE q == [r EXCEPT !.version = actionServer.version,
                        !.at = IF Rejects(r.wants) THEN "rejected" ELSE "executing"]
    <2>1. /\ r.at = "requested" /\ Set(c, g, q) /\ UNCHANGED <<actionServer, timer>>
      BY <1>8 DEF HandleGoal, r
    <2>2. q \in GoalRecord
      BY <1>1, <1>3 DEF GoalRecord, Results
    <2>3. GoodGoal(action, c, q)
      <3>1. /\ q.wants = r.wants /\ q.i = r.i /\ q.late = r.late /\ q.sequence = r.sequence
            /\ q.version = actionServer.version /\ q.at # "succeeded"
            /\ q.at = "rejected" /\ action = "firmware" => r.wants = actionServer.version
        BY <1>3 DEF GoalRecord, Rejects
      <3> QED  BY <1>3, <2>1, <3>1 DEF GoodGoal, Iterations
    <2> HIDE DEF q
    <2> QED  BY <1>7, <2>1, <2>2, <2>3 DEF GoalOver
  <1>9. CASE HandleCancel(c, g)
    <2> DEFINE q == [r EXCEPT !.at = "canceling"]
    <2>1. /\ r.at = "executing" /\ Set(c, g, q) /\ UNCHANGED <<actionServer, timer>>
      BY <1>9 DEF HandleCancel, r
    <2>2. q \in GoalRecord /\ GoodGoal(action, c, q)
      BY <1>3 DEF GoalRecord, GoodGoal, Iterations
    <2> HIDE DEF q
    <2> QED  BY <1>7, <2>1, <2>2 DEF GoalOver
  <1>10. CASE Iterate(c, g)
    <2>1. /\ r.at \in {"executing", "canceling"} /\ ~r.late /\ r.i < Iterations(action, r)
          /\ UNCHANGED <<actionServer, timer>>
      BY <1>6, <1>10 DEF Iterate, Running, r
    <2>2. CASE r.at = "canceling"
      <3> DEFINE q == [r EXCEPT !.at = "canceled"]
      <3>1. Set(c, g, q)
        BY <1>10, <2>2 DEF Iterate, r
      <3>2. q \in GoalRecord /\ GoodGoal(action, c, q)
        BY <1>3 DEF GoalRecord, Results, GoodGoal, Iterations
      <3> HIDE DEF q
      <3> QED  BY <1>7, <2>1, <3>1, <3>2 DEF GoalOver
    <2>3. CASE r.at # "canceling"
      <3> DEFINE s == IF action = "fibonacci"
                      THEN Append(r.sequence, Plus(r.sequence[r.i + 1], r.sequence[r.i]))
                      ELSE r.sequence
                 q == [r EXCEPT !.i = @ + 1, !.sequence = s]
      <3>1. Set(c, g, q)
        BY <1>10, <2>3 DEF Iterate, r
      <3>2. s \in Seq(Int) /\ Sums(s) /\ (action = "fibonacci" => Len(s) = r.i + 2)
        <4>1. r.sequence \in Seq(Int) /\ r.i \in Nat
          BY <1>3 DEF GoalRecord
        <4> QED  BY <1>3, <4>1, SumAppended DEF GoodGoal
      <3> HIDE DEF s
      <3>3. q \in GoalRecord
        <4>1. r.i + 1 \in Nat
          BY <1>3 DEF GoalRecord
        <4> QED  BY <1>3, <3>2, <4>1 DEF GoalRecord
      <3>4. /\ q.i = r.i + 1 /\ q.sequence = s /\ q.wants = r.wants /\ q.late = r.late
            /\ q.at = r.at /\ q.version = r.version
        BY <1>3 DEF GoalRecord
      <3>5. /\ r.i \in Nat /\ r.wants \in Int /\ Iterations(action, r) \in Int
            /\ Iterations(action, q) = Iterations(action, r)
        BY <1>3, <3>4, ActionAssumption DEF GoalRecord, Iterations
      <3> HIDE DEF q
      <3>6. GoodGoal(action, c, q)
        BY <1>3, <2>1, <3>2, <3>4, <3>5 DEF GoodGoal
      <3> QED  BY <1>7, <2>1, <3>1, <3>3, <3>6 DEF GoalOver
    <2> QED  BY <2>2, <2>3
  <1>11. CASE TestOk(c, g)
    <2> DEFINE q == IF Ok THEN [r EXCEPT !.late = TRUE] ELSE [r EXCEPT !.at = "dropped"]
    <2>1. /\ r.at \in {"executing", "canceling"} /\ ~r.late
          /\ ~(r.i < Iterations(action, r) /\ Ok)
          /\ Set(c, g, q) /\ UNCHANGED <<actionServer, timer>>
      BY <1>6, <1>11 DEF TestOk, Running, r
    <2>2. q \in GoalRecord
      BY <1>3 DEF GoalRecord
    <2>3. r.i \in Nat /\ Iterations(action, r) \in Int
      BY <1>3, ActionAssumption DEF GoalRecord, Iterations
    <2>4. GoodGoal(action, c, q)
      <3>1. CASE Ok
        BY <1>3, <2>1, <2>3, <3>1 DEF GoalRecord, GoodGoal, Iterations
      <3>2. CASE ~Ok
        BY <1>3, <2>1, <3>2 DEF GoalRecord, GoodGoal, Iterations
      <3> QED  BY <3>1, <3>2
    <2> HIDE DEF q
    <2> QED  BY <1>7, <2>1, <2>2, <2>4 DEF GoalOver
  <1>12. CASE Succeed(c, g)
    <2> DEFINE q == [r EXCEPT !.at = "succeeded"]
    <2>1. /\ r.at \in {"executing", "canceling"} /\ r.late /\ Set(c, g, q) /\ UNCHANGED timer
          /\ actionServer' = [actionServer EXCEPT
                                !.version = IF action = "firmware" THEN r.wants ELSE @]
      BY <1>12 DEF Succeed, Running, r
    <2>2. q \in GoalRecord /\ r.wants \in Int
      BY <1>3 DEF GoalRecord, Results
    <2>3. GoodGoal(action, c, q) /\ q.at = "succeeded" /\ q.wants = r.wants
      BY <1>3, <2>1 DEF GoalRecord, GoodGoal, Iterations
    <2>4. /\ actionServer' \in Server
          /\ actionServer'.version = actionServer.version \/ actionServer'.version = r.wants
      BY <1>1, <2>1, <2>2
    <2>5. ~GoalOver(goals[c][g]) /\ goals[c][g].at # "succeeded"
      BY <2>1 DEF r, GoalOver
    <2>6. timer' = [timer EXCEPT ![c] = timer[c]] /\ ~timer[c]
      BY <1>4, <1>5, <2>1, <2>5 DEF r
    <2> HIDE DEF q
    <2>7. \/ actionServer'.version = actionServer.version
          \/ q.at = "succeeded" /\ q.wants = actionServer'.version
      BY <2>3, <2>4
    <2> QED  BY <1>2, <1>4, <2>1, <2>2, <2>3, <2>4, <2>5, <2>6, <2>7, GoalMoves
  <1>13. CASE ResultCallback(c, g)
    <2> DEFINE q == [r EXCEPT !.told = TRUE]
               b == timer[c] \/ r.at = "succeeded"
    <2>1. /\ r.at \in Results /\ ~r.told /\ Set(c, g, q) /\ UNCHANGED actionServer
          /\ timer' = [timer EXCEPT ![c] = b]
      BY <1>13 DEF ResultCallback, r, Results
    <2>2. q \in GoalRecord /\ q.told /\ q.at = r.at /\ q.wants = r.wants
      BY <1>3 DEF GoalRecord
    <2>3. GoodGoal(action, c, q)
      BY <1>3 DEF GoalRecord, GoodGoal, Iterations
    <2>4. b \in BOOLEAN
      BY <1>4
    <2>5. GoalOver(q) /\ ~GoalOver(goals[c][g])
      BY <2>1, <2>2 DEF GoalOver, Results, r
    <2>6. goals[c][g].at = "succeeded" => q.at = "succeeded" /\ q.wants = goals[c][g].wants
      BY <2>2 DEF r
    <2> HIDE DEF q, b
    <2> QED  BY <1>1, <1>2, <2>1, <2>2, <2>3, <2>4, <2>5, <2>6, GoalMoves
  <1> QED
    BY <1>8, <1>9, <1>10, <1>11, <1>12, <1>13 DEF GoalSteps, Execute

(* A signal to the server and its end.                                     *)
LEMMA ServerEndsInv ==
    ASSUME ActionInv, InterruptServer \/ EndServer
    PROVE  ActionInv'
  <1>1. UNCHANGED <<action, timer, goals>>
    BY DEF InterruptServer, EndServer
  <1>2. actionServer \in [at : {"spin", "ended"}, ok : BOOLEAN, version : Int]
    BY DEF ActionInv, ActionType
  <1>3. /\ actionServer' \in [at : {"spin", "ended"}, ok : BOOLEAN, version : Int]
        /\ actionServer'.version = actionServer.version
    BY <1>2 DEF InterruptServer, EndServer
  <1> QED
    BY <1>1, <1>3 DEF ActionInv, ActionType, GoodGoals, GoalsInSequence, VersionEarned,
                      InitialVersion

(* Every step of the action server and of its clients keeps the invariant. *)
LEMMA ActionNextInv == ActionInv /\ [ActionNextState]_actionVars => ActionInv'
  <1> SUFFICES ASSUME ActionInv, [ActionNextState]_actionVars PROVE ActionInv'
    OBVIOUS
  <1>1. CASE ActionNextState
    BY <1>1, ServerEndsInv, SendGoalInv, GoalStepsInv DEF ActionNextState
  <1>2. CASE UNCHANGED actionVars
    BY <1>2 DEF actionVars, ActionInv, ActionType, GoodGoals, GoalsInSequence, VersionEarned,
                InitialVersion
  <1> QED  BY <1>1, <1>2

(* The invariant gives what is claimed of goals and their results.         *)
LEMMA ActionInvImplies == ActionInv => OneGoalAtATime /\ ResultsAreEarned
  <1> SUFFICES ASSUME ActionInv PROVE OneGoalAtATime /\ ResultsAreEarned
    OBVIOUS
  <1>1. \A c \in ActionClients : goals[c] \in Seq(GoalRecord) /\ DOMAIN goals[c] = 1..Len(goals[c])
    BY DEF ActionInv, ActionType
  <1>2. OneGoalAtATime
    BY <1>1 DEF ActionInv, GoalsInSequence, OneGoalAtATime
  <1>3. actionServer.version # InitialVersion =>
          \E c \in ActionClients : \E g \in DOMAIN goals[c] :
             goals[c][g].at = "succeeded" /\ goals[c][g].wants = actionServer.version
    BY <1>1 DEF ActionInv, VersionEarned
  <1>4. ASSUME NEW c \in ActionClients, NEW g \in DOMAIN goals[c]
        PROVE  LET r == goals[c][g] s == r.sequence IN
               /\ r.at = "succeeded" => r.i >= LastIteration(c, g)
               /\ r.at = "rejected" /\ action = "firmware" => r.wants = r.version
               /\ r.at = "succeeded" /\ action = "fibonacci" /\ r.wants > 0 => Len(s) = r.wants + 1
               /\ \A n \in 3..Len(s) : (\A k \in 1..n : s[k] >= 0) => s[n] = s[n - 1] + s[n - 2]
    <2> DEFINE r == goals[c][g]
    <2>1. g \in 1..Len(goals[c])
      BY <1>1, <1>4
    <2>2. r \in GoalRecord /\ GoodGoal(action, c, r)
      BY <1>1, <2>1, ElementIs DEF ActionInv, GoodGoals
    <2>3. LastIteration(c, g) = Iterations(action, r)
      BY DEF LastIteration, Iterations
    <2> HIDE DEF r
    <2>4. r.i \in Nat /\ r.wants \in Int
      BY <2>2 DEF GoalRecord
    <2>5. /\ r.at = "succeeded" => r.i >= Iterations(action, r)
          /\ r.at = "rejected" /\ action = "firmware" => r.wants = r.version
      BY <2>2 DEF GoodGoal
    <2>6. r.at = "succeeded" /\ action = "fibonacci" /\ r.wants > 0
            => Len(r.sequence) = r.wants + 1
      BY <2>2, <2>4 DEF GoodGoal, Iterations
    <2>7. Sums(r.sequence)
      BY <2>2 DEF GoodGoal
    <2> QED  BY <2>3, <2>5, <2>6, <2>7 DEF r, Sums
  <1> QED  BY <1>2, <1>3, <1>4 DEF ResultsAreEarned

-----------------------------------------------------------------------------
(***************************************************************************)
(* The nodes that publish, subscribe and call a service.                   *)
(***************************************************************************)

(* The ramps move in steps that divide their turning points, so that they  *)
(* meet 0 on the way down, and turn in time on the way up.                 *)
OnRamp(r, stride, last, top) ==
    /\ \E k \in 0..last : r.count = stride * k
    /\ r.oper => r.count <= top
Ramps == [count : 0..(SizeMax - 1), oper : BOOLEAN, speed : Int, start : 0..(SizeMax - 1)]
RampInv ==
    /\ ramp \in Ramps
    /\ demo = "publisher" => OnRamp(ramp, 5, 42, 200) /\ ramp.speed \in 0..2200
    /\ demo = "combined" /\ ramp.start = 0 => OnRamp(ramp, 50, 22, 1000)

ParamsInv == params \in [scale : 0..10, step : 0..10] /\ members = params

(* As long as callbacks do not overlap, a thread that is about to push its *)
(* id is not known, and what is shown is a position in known_thread_ids.   *)
IdsKept ==
    /\ threadAt \in [Threads -> {"idle", "find", "push"}]
    /\ \A t, u \in Threads : threadAt[t] # "idle" /\ threadAt[u] # "idle" => t = u
    /\ ids \in Seq(Threads)
    /\ \A i, j \in 1..Len(ids) : ids[i] = ids[j] => i = j
    /\ \A t \in Threads : threadAt[t] = "push" => \A k \in 1..Len(ids) : ids[k] # t
    /\ DOMAIN shownIds = Threads
    /\ \A t \in Threads : \A i \in shownIds[t] :
          i + 1 \in 1..Len(ids) /\ ids[i + 1] = t /\ i \in Nat
IdsInv == overlap \/ IdsKept

(* Requests and answers carry the sensor that the call of their number     *)
(* chose.                                                                  *)
Chosen(combined, n) == IF n = 0 THEN "temperature" ELSE Sensor(combined, n)
Sensors == {"steering_angle", "temperature", "unknown_sensor_id"}
Queues == Seq(Nat \X Sensors)
AnswerSets == SUBSET (Nat \X {"failed", "unknown", "calibrated"})
ServiceInv ==
    /\ service \in [combined : BOOLEAN, up : BOOLEAN, ok : BOOLEAN,
                    at : {"construct", "callback", "spin", "ended"}, counter : Nat,
                    wants : Sensors, queue : Queues, answers : AnswerSets]
    /\ service.wants = Chosen(service.combined, service.counter)
    /\ \A k \in 1..Len(service.queue) :
          service.queue[k][2] = Chosen(service.combined, service.queue[k][1])
    /\ \A a \in service.answers :
          a[2] = Calibrate(service.combined, Chosen(service.combined, a[1]))

(* What a topic keeps is a value of its range with its bytes.              *)
PortRange(t) == PortConfig[t].min..PortConfig[t].max
PortKept(t) == {<<>>} \cup {<<[bytes |-> ToUint32Bytes(raw), raw |-> raw]>> : raw \in PortRange(t)}
PortHeard(t) == SUBSET {[value |-> raw, raw |-> raw] : raw \in PortRange(t)}
PortType(t) == [value : PortRange(t), kept : PortKept(t), heard : PortHeard(t)]
PortInv == DOMAIN port = Topics /\ \A t \in Topics : port[t] \in PortType(t)

DemoInv == RampInv /\ ParamsInv /\ IdsInv /\ ServiceInv /\ PortInv

(* Where the nodes begin.                                                  *)
LEMMA DemoInitInv == DemoInit => DemoInv
  <1> SUFFICES ASSUME DemoInit PROVE DemoInv
    OBVIOUS
  <1>1. RampInv
    <2>1. SizeMax \in Nat /\ SizeMax > 1100 /\ InitialCounts \subseteq 0..(SizeMax - 1)
      BY DemoAssumption
    <2>2. CASE demo = "combined"
      <3>1. PICK n \in InitialCounts, up \in BOOLEAN :
               ramp = [count |-> n, oper |-> up, speed |-> 0, start |-> n]
        BY <2>2 DEF DemoInit
      <3>2. n \in 0..(SizeMax - 1)
        BY <2>1
      <3>3. n = 0 => OnRamp(ramp, 50, 22, 1000)
        BY <3>1 DEF OnRamp
      <3> QED  BY <2>2, <3>1, <3>2, <3>3 DEF RampInv, Ramps
    <2>3. CASE demo # "combined"
      <3>1. ramp = [count |-> 0, oper |-> TRUE, speed |-> 0, start |-> 0]
        BY <2>3 DEF DemoInit
      <3>2. OnRamp(ramp, 5, 42, 200)
        BY <3>1 DEF OnRamp
      <3> QED  BY <2>1, <2>3, <3>1, <3>2 DEF RampInv, Ramps
    <2> QED  BY <2>2, <2>3
  <1>2. ParamsInv
    BY DEF DemoInit, ParamsInv
  <1>3. IdsInv
    <2>1. ids = <<>> /\ threadAt = [t \in Threads |-> "idle"] /\ shownIds = [t \in Threads |-> {}]
      BY DEF DemoInit
    <2>2. ids \in Seq(Threads) /\ Len(ids) = 0
      BY <2>1
    <2>3. IdsKept
      BY <2>1, <2>2 DEF IdsKept
    <2> QED  BY <2>3 DEF IdsInv
  <1>4. ServiceInv
    <2>1. PICK both \in BOOLEAN :
             service = [combined |-> both, up |-> FALSE, ok |-> TRUE, at |-> "construct",
                        counter |-> 0, wants |-> "temperature", queue |-> <<>>, answers |-> {}]
      BY DEF DemoInit
    <2>2. <<>> \in Queues /\ {} \in AnswerSets /\ "temperature" \in Sensors /\ Len(<<>>) = 0
      BY DEF Queues, AnswerSets, Sensors
    <2>3. Chosen(both, 0) = "temperature"
      BY DEF Chosen
    <2> QED  BY <2>1, <2>2, <2>3 DEF ServiceInv
  <1>5. PortInv
    <2>1. port = [t \in Topics |-> [value |-> PortConfig[t].min, kept |-> <<>>, heard |-> {}]]
      BY DEF DemoInit
    <2>2. ASSUME NEW t \in Topics PROVE port[t] \in PortType(t)
      <3>1. PortConfig[t].min \in PortRange(t)
        BY DemoAssumption DEF Topics, PortRange
      <3>2. <<>> \in PortKept(t) /\ {} \in PortHeard(t)
        BY DEF PortKept, PortHeard
      <3> QED  BY <2>1, <3>1, <3>2 DEF PortType
    <2> QED  BY <2>1, <2>2 DEF PortInv
  <1> QED  BY <1>1, <1>2, <1>3, <1>4, <1>5 DEF DemoInv

(* A ramp moves up or down and turns: between 0 and its top the sum never  *)
(* wraps.                                                                  *)
RampStep(r, q, up, down, top) ==
    /\ q \in Ramps /\ q.start = r.start
    /\ (r.count + up < SizeMax /\ (r.oper \/ r.count = 0))
          => (q.count = r.count + up /\ (q.oper => q.count <= top))
    /\ (r.count >= down /\ ~(r.oper \/ r.count = 0))
          => (q.count = r.count - down /\ ~q.oper)
(* This is what Ramp does.                                                 *)
LEMMA RampTurns ==
    ASSUME NEW r \in Ramps, NEW up \in Nat, NEW down \in Nat, NEW top \in Nat
    PROVE  RampStep(r, Ramp(r, up, down, top), up, down, top)
  <1> DEFINE rising == r.oper \/ r.count = 0
             sum == r.count + (IF rising THEN up ELSE -down)
             moved == sum % SizeMax
             turn == (rising /\ moved <= top)
             q == Ramp(r, up, down, top)
  <1>1. SizeMax \in Nat \ {0}
    BY DemoAssumption
  <1>2. r.count \in 0..(SizeMax - 1) /\ r.oper \in BOOLEAN
    BY DEF Ramps
  <1>3. sum \in Int
    BY <1>1, <1>2
  <1>4. moved \in 0..(SizeMax - 1)
    <2> HIDE DEF sum
    <2> QED  BY <1>1, <1>3
  <1>5. sum \in 0..(SizeMax - 1) => moved = sum
    <2> HIDE DEF sum
    <2> SUFFICES ASSUME sum \in 0..(SizeMax - 1) PROVE moved = sum
      OBVIOUS
    <2>1. sum \in Nat /\ sum = SizeMax * 0 + sum /\ 0 \in Nat
      BY <1>1
    <2> QED  BY <1>1, <2>1, QuotientUnique
  <1>6. turn \in BOOLEAN
    OBVIOUS
  <1>7. q = [r EXCEPT !.count = moved, !.oper = turn]
    BY DEF Ramp
  <1>8. /\ rising => sum = r.count + up
        /\ ~rising => sum = r.count - down
    BY <1>1, <1>2
  <1> HIDE DEF moved, turn, sum, q
  <1>9. /\ q \in Ramps /\ q.start = r.start
        /\ q.count = moved /\ q.oper = turn
    BY <1>4, <1>6, <1>7 DEF Ramps
  <1>10. ASSUME r.count + up < SizeMax, rising
         PROVE  moved = r.count + up /\ turn = (r.count + up <= top)
    <2>1. moved = r.count + up
      BY <1>1, <1>2, <1>5, <1>8, <1>10
    <2> QED  BY <1>10, <2>1 DEF turn
  <1>11. ASSUME r.count >= down, ~rising
         PROVE  moved = r.count - down /\ turn = FALSE
    <2>1. moved = r.count - down
      BY <1>1, <1>2, <1>5, <1>8, <1>11
    <2> QED  BY <1>11, <2>1 DEF turn
  <1>12. RampStep(r, q, up, down, top)
    BY <1>9, <1>10, <1>11 DEF RampStep
  <1> QED  BY <1>12 DEF q

(* The ramp of the publisher, and the speed it publishes.                  *)
LEMMA OnTimerInv ==
    ASSUME DemoInv, OnTimer
    PROVE  DemoInv'
  <1> DEFINE r == PublisherRamp(ramp)
             speed == r.count * members.scale
                        + (IF members.scale = 0 THEN 0 ELSE 10 * members.step)
  <1>1. /\ demo = "publisher" /\ ramp' = [r EXCEPT !.speed = speed]
        /\ UNCHANGED <<demo, params, members, service, ids, threadAt, shownIds, overlap, port>>
    BY DEF OnTimer
  <1>2. /\ ramp \in Ramps /\ OnRamp(ramp, 5, 42, 200)
        /\ members \in [scale : 0..10, step : 0..10] /\ SizeMax \in Nat /\ SizeMax > 1100
    BY <1>1, DemoAssumption DEF DemoInv, RampInv, ParamsInv
  <1>3. PICK k \in 0..42 : ramp.count = 5 * k
    BY <1>2 DEF OnRamp
  <1>4. /\ r \in Ramps
        /\ (ramp.oper \/ ramp.count = 0)
              => (r.count = ramp.count + 10 /\ (r.oper => r.count <= 200))
        /\ ~(ramp.oper \/ ramp.count = 0) => (r.count = ramp.count - 5 /\ ~r.oper)
    <2>1. r = Ramp(ramp, 10, 5, 200)
      BY DEF PublisherRamp
    <2>2. ramp.count + 10 < SizeMax
      BY <1>2, <1>3
    <2>3. ~(ramp.oper \/ ramp.count = 0) => ramp.count >= 5
      BY <1>3
    <2> HIDE DEF r
    <2>4. RampStep(ramp, r, 10, 5, 200)
      BY <1>2, <2>1, RampTurns
    <2> QED  BY <2>2, <2>3, <2>4 DEF RampStep
  <1> HIDE DEF r
  <1>5. /\ r.oper => r.count <= 200
        /\ \E m \in 0..42 : r.count = 5 * m
    <2>1. CASE ramp.oper \/ ramp.count = 0
      <3>1. k <= 40
        BY <1>2, <1>3, <2>1 DEF OnRamp
      <3>2. k + 2 \in 0..42 /\ r.count = 5 * (k + 2)
        BY <1>3, <1>4, <2>1, <3>1
      <3> QED  BY <1>4, <2>1, <3>2
    <2>2. CASE ~(ramp.oper \/ ramp.count = 0)
      <3>1. k - 1 \in 0..42 /\ r.count = 5 * (k - 1)
        BY <1>3, <1>4, <2>2
      <3> QED  BY <1>4, <2>2, <3>1
    <2> QED  BY <2>1, <2>2
  <1>6. speed \in 0..2200
    <2>1. r.count \in 0..210 /\ members.scale \in 0..10 /\ members.step \in 0..10
      BY <1>2, <1>5
    <2> DEFINE product == r.count * members.scale
               offset == IF members.scale = 0 THEN 0 ELSE 10 * members.step
    <2>2. product \in 0..2100
      BY <2>1
    <2>3. offset \in 0..100
      BY <2>1
    <2>4. speed = product + offset
      OBVIOUS
    <2> HIDE DEF product, offset, speed
    <2> QED  BY <2>2, <2>3, <2>4
  <1> HIDE DEF speed
  <1>7. /\ ramp' \in Ramps /\ ramp'.count = r.count /\ ramp'.oper = r.oper /\ ramp'.speed = speed
    BY <1>1, <1>4, <1>6 DEF Ramps
  <1>8. RampInv'
    BY <1>1, <1>5, <1>6, <1>7 DEF RampInv, OnRamp
  <1>9. ParamsInv' /\ IdsInv' /\ ServiceInv' /\ PortInv'
    BY <1>1 DEF DemoInv, ParamsInv, IdsInv, IdsKept, ServiceInv, PortInv
  <1> QED  BY <1>8, <1>9 DEF DemoInv

(* The ramp of the combined node, if its count_ began at 0.                *)
LEMMA CombinedOnTimerInv ==
    ASSUME DemoInv, CombinedOnTimer
    PROVE  DemoInv'
  <1> DEFINE r == CombinedRamp(ramp)
  <1>1. /\ demo = "combined" /\ ramp' = r
        /\ UNCHANGED <<demo, params, members, service, ids, threadAt, shownIds, overlap, port>>
    BY DEF CombinedOnTimer
  <1>2. /\ ramp \in Ramps
        /\ ramp.start = 0 => OnRamp(ramp, 50, 22, 1000)
        /\ SizeMax \in Nat /\ SizeMax > 1100
    BY <1>1, DemoAssumption DEF DemoInv, RampInv
  <1>3. r = Ramp(ramp, 100, 50, 1000)
    BY DEF CombinedRamp
  <1> HIDE DEF r
  <1>4. /\ r \in Ramps /\ r.start = ramp.start
        /\ (ramp.count + 100 < SizeMax /\ (ramp.oper \/ ramp.count = 0))
              => (r.count = ramp.count + 100 /\ (r.oper => r.count <= 1000))
        /\ (ramp.count >= 50 /\ ~(ramp.oper \/ ramp.count = 0))
              => (r.count = ramp.count - 50 /\ ~r.oper)
    <2>1. RampStep(ramp, r, 100, 50, 1000)
      BY <1>2, <1>3, RampTurns
    <2> QED  BY <2>1 DEF RampStep
  <1>5. ASSUME ramp.start = 0 PROVE OnRamp(r, 50, 22, 1000)
    <2>1. PICK k \in 0..22 : ramp.count = 50 * k
      BY <1>2, <1>5 DEF OnRamp
    <2>2. ramp.oper => ramp.count <= 1000
      BY <1>2, <1>5 DEF OnRamp
    <2>3. CASE ramp.oper \/ ramp.count = 0
      <3>1. k <= 20
        BY <2>1, <2>2, <2>3
      <3>2. ramp.count + 100 < SizeMax
        BY <1>2, <2>1, <3>1
      <3>3. r.count = ramp.count + 100 /\ (r.oper => r.count <= 1000)
        BY <1>4, <2>3, <3>2
      <3>4. k + 2 \in 0..22 /\ r.count = 50 * (k + 2)
        BY <2>1, <3>1, <3>3
      <3>5. r.oper => r.count <= 1000
        BY <3>3
      <3> QED  BY <3>4, <3>5 DEF OnRamp
    <2>4. CASE ~(ramp.oper \/ ramp.count = 0)
      <3>1. ramp.count >= 50
        BY <2>1, <2>4
      <3>2. r.count = ramp.count - 50 /\ ~r.oper
        BY <1>4, <2>4, <3>1
      <3>3. k - 1 \in 0..22 /\ r.count = 50 * (k - 1)
        BY <2>1, <2>4, <3>2
      <3>4. r.oper => r.count <= 1000
        BY <3>2
      <3> QED  BY <3>3, <3>4 DEF OnRamp
    <2> QED  BY <2>3, <2>4
  <1>6. RampInv'
    BY <1>1, <1>4, <1>5 DEF RampInv
  <1>7. ParamsInv' /\ IdsInv' /\ ServiceInv' /\ PortInv'
    BY <1>1 DEF DemoInv, ParamsInv, IdsInv, IdsKept, ServiceInv, PortInv
  <1> QED  BY <1>6, <1>7 DEF DemoInv

(* A set of numbers has a smallest one.                                    *)
LEMMA SmallestExists ==
    ASSUME NEW S \in SUBSET Nat, S # {}
    PROVE  \E k \in S : \A j \in S : k <= j
  <1>1. \E k \in S : \A j \in S : ~(<<j, k>> \in OpToRel(<, Nat))
    BY WFMin, NatLessThanWellFounded, Zenon
  <1>2. \E k \in S : \A j \in S : ~(j < k)
    BY <1>1, Zenon DEF OpToRel
  <1> QED  BY <1>2

(* So has a bounded one a largest.                                         *)
LEMMA LargestExists ==
    ASSUME NEW n \in Nat, NEW S \in SUBSET (1..n), S # {}
    PROVE  \E k \in S : \A j \in S : j <= k
  <1> DEFINE T == {x \in Nat : \E k \in S : x = n - k}
  <1>1. T \in SUBSET Nat
    OBVIOUS
  <1>2. \A k \in S : k \in 1..n /\ n - k \in T
    OBVIOUS
  <1>3. T # {}
    BY <1>2
  <1>4. \A x \in T : \E k \in S : x = n - k
    OBVIOUS
  <1> HIDE DEF T
  <1>5. PICK m \in T : \A j \in T : m <= j
    BY <1>1, <1>3, SmallestExists
  <1>6. PICK k \in S : m = n - k
    BY <1>4
  <1>7. ASSUME NEW j \in S PROVE j <= k
    <2>1. n - k <= n - j
      BY <1>2, <1>5, <1>6
    <2> QED  BY <1>2, <2>1
  <1> QED  BY <1>7

(* The values of a list that was validated are in their range.             *)
LEMMA UpdatedType ==
    ASSUME NEW values \in [scale : 0..10, step : 0..10], NEW n \in Nat, NEW list,
           DOMAIN list = 1..n, ValidateUpcoming(list)
    PROVE  Updated(values, list) \in [scale : 0..10, step : 0..10]
  <1> DEFINE given(name) == {k \in DOMAIN list : list[k][1] = name}
             last(name) == CHOOSE k \in given(name) : \A j \in given(name) : j <= k
             value(name) == IF given(name) = {} THEN values[name] ELSE list[last(name)][2]
  <1>1. ASSUME NEW name \in {"scale", "step"} PROVE value(name) \in 0..10
    <2>1. values[name] \in 0..10
      <3>1. CASE name = "scale"
        BY <3>1
      <3>2. CASE name = "step"
        BY <3>2
      <3> QED  BY <1>1, <3>1, <3>2
    <2>2. CASE given(name) # {}
      <3>1. given(name) \in SUBSET (1..n)
        OBVIOUS
      <3>2. \E k \in given(name) : \A j \in given(name) : j <= k
        <4> HIDE DEF given
        <4> QED  BY <2>2, <3>1, LargestExists
      <3>3. last(name) \in given(name)
        <4> HIDE DEF given
        <4> QED  BY <3>2
      <3> HIDE DEF last
      <3>4. list[last(name)][2] \in 0..10
        BY <3>3 DEF ValidateUpcoming
      <3> QED  BY <2>2, <3>4
    <2> QED  BY <2>1, <2>2
  <1>2. Updated(values, list) = [scale |-> value("scale"), step |-> value("step")]
    BY Zenon DEF Updated
  <1> HIDE DEF value
  <1> QED  BY <1>1, <1>2

(* What the callback that modifies a list returns is a list.               *)
LEMMA ModifyUpcomingType ==
    ASSUME NEW list \in Requested, NEW upcoming \in ModifyUpcoming(list)
    PROVE  \E n \in Nat : DOMAIN upcoming = 1..n
  <1> DEFINE scales == {k \in DOMAIN list : list[k][1] = "scale"}
             Added(n) == list \o [k \in 1..n |-> <<"step", 2>>]
             Elements == {list[k] : k \in DOMAIN list}
  <1>1. list \in Seq(Elements)
    BY DemoAssumption
  <1> HIDE DEF Elements
  <1>2. CASE upcoming = list
    BY <1>1, <1>2
  <1>3. CASE upcoming # list
    <2>1. PICK n \in 1..Cardinality(scales) : upcoming = Added(n)
      BY <1>3 DEF ModifyUpcoming
    <2>2. scales \subseteq 1..Len(list) /\ Len(list) \in Nat
      BY <1>1
    <2>3. Cardinality(scales) \in Nat
      <3> HIDE DEF scales
      <3>1. IsFiniteSet(1..Len(list))
        BY <2>2, FS_Interval
      <3>2. IsFiniteSet(scales)
        BY <2>2, <3>1, FS_Subset
      <3> QED  BY <3>2, FS_CardinalityType
    <2> HIDE DEF scales
    <2>4. n \in Nat
      BY <2>3
    <2> DEFINE more == [k \in 1..n |-> <<"step", 2>>]
               All == Elements \cup {<<"step", 2>>}
    <2>5. list \in Seq(All) /\ more \in Seq(All)
      BY <1>1, <2>4
    <2> HIDE DEF All
    <2>6. list \o more \in Seq(All)
      <3> HIDE DEF more
      <3> QED  BY <2>5
    <2>7. upcoming \in Seq(All)
      BY <2>1, <2>6
    <2> QED  BY <2>7
  <1> QED  BY <1>2, <1>3

(* The parameters and the members are updated alike.                       *)
LEMMA SetParametersInv ==
    ASSUME DemoInv, NEW list \in Requested, SetParameters(list)
    PROVE  DemoInv'
  <1>1. PICK upcoming \in ModifyUpcoming(list) :
           /\ ValidateUpcoming(upcoming)
           /\ params' = Updated(params, upcoming) /\ members' = Updated(members, upcoming)
    BY DEF SetParameters
  <1>2. params \in [scale : 0..10, step : 0..10] /\ members = params
    BY DEF DemoInv, ParamsInv
  <1>3. PICK n \in Nat : DOMAIN upcoming = 1..n
    BY ModifyUpcomingType
  <1>4. Updated(params, upcoming) \in [scale : 0..10, step : 0..10]
    BY <1>1, <1>2, <1>3, UpdatedType
  <1>5. ParamsInv'
    BY <1>1, <1>2, <1>4 DEF ParamsInv
  <1>6. UNCHANGED <<demo, ramp, service, ids, threadAt, shownIds, overlap, port>>
    BY DEF SetParameters
  <1>7. RampInv' /\ IdsInv' /\ ServiceInv' /\ PortInv'
    BY <1>6 DEF DemoInv, RampInv, IdsInv, IdsKept, ServiceInv, PortInv
  <1> QED  BY <1>5, <1>7 DEF DemoInv

(* Requests, calls and answers of the service client.                      *)
LEMMA ServiceStepInv ==
    ASSUME ServiceInv, QueueAsyncRequest \/ LeaveClient \/ ClientTimer \/ HandleCalibration
                         \/ ServiceEnvironment
    PROVE  ServiceInv'
  <1> DEFINE Places == {"construct", "callback", "spin", "ended"}
             Services == [combined : BOOLEAN, up : BOOLEAN, ok : BOOLEAN, at : Places,
                          counter : Nat, wants : Sensors, queue : Queues, answers : AnswerSets]
             s == service
  <1>1. /\ s \in Services /\ s.wants = Chosen(s.combined, s.counter)
        /\ \A k \in 1..Len(s.queue) : s.queue[k][2] = Chosen(s.combined, s.queue[k][1])
        /\ \A a \in s.answers : a[2] = Calibrate(s.combined, Chosen(s.combined, a[1]))
    BY DEF ServiceInv
  <1>2. CASE QueueAsyncRequest
    <2> DEFINE queue == Append(s.queue, <<s.counter, s.wants>>)
    <2>1. service' = [s EXCEPT !.at = "spin", !.queue = queue]
      BY <1>2 DEF QueueAsyncRequest
    <2>2. s.queue \in Queues /\ <<s.counter, s.wants>> \in Nat \X Sensors
      BY <1>1
    <2>3. /\ queue \in Queues /\ Len(queue) = Len(s.queue) + 1 /\ Len(s.queue) \in Nat
          /\ queue[Len(s.queue) + 1] = <<s.counter, s.wants>>
          /\ \A k \in 1..Len(s.queue) : queue[k] = s.queue[k]
      BY <2>2 DEF Queues
    <2>4. \A k \in 1..Len(queue) : queue[k][2] = Chosen(s.combined, queue[k][1])
      <3> SUFFICES ASSUME NEW k \in 1..Len(queue)
                   PROVE  queue[k][2] = Chosen(s.combined, queue[k][1])
        OBVIOUS
      <3>1. CASE k = Len(s.queue) + 1
        BY <1>1, <2>3, <3>1
      <3>2. CASE k # Len(s.queue) + 1
        BY <1>1, <2>3, <3>2
      <3> QED  BY <3>1, <3>2
    <2> HIDE DEF queue
    <2>5. /\ service' \in Services /\ service'.queue = queue /\ service'.wants = s.wants
          /\ service'.counter = s.counter /\ service'.combined = s.combined
          /\ service'.answers = s.answers
      BY <1>1, <2>1, <2>3
    <2> QED  BY <1>1, <2>4, <2>5 DEF ServiceInv
  <1>3. CASE LeaveClient
    <2> DEFINE next == IF WaitingForService THEN "spin" ELSE "ended"
    <2>1. service' = [s EXCEPT !.at = next] /\ next \in Places
      BY <1>3 DEF LeaveClient
    <2> HIDE DEF next
    <2>2. /\ service' \in Services /\ service'.queue = s.queue /\ service'.wants = s.wants
          /\ service'.counter = s.counter /\ service'.combined = s.combined
          /\ service'.answers = s.answers
      BY <1>1, <2>1
    <2> QED  BY <1>1, <2>2 DEF ServiceInv
  <1>4. CASE ClientTimer
    <2> DEFINE wants == Sensor(s.combined, s.counter + 1)
               counter == s.counter + 1
    <2>1. service' = [s EXCEPT !.at = "callback", !.counter = counter, !.wants = wants]
      BY <1>4 DEF ClientTimer
    <2>2. counter \in Nat \ {0}
      BY <1>1
    <2>3. wants \in Sensors
      BY DEF Sensor, Sensors
    <2>4. wants = Chosen(s.combined, counter)
      BY <2>2 DEF Chosen
    <2> HIDE DEF wants, counter
    <2>5. /\ service' \in Services /\ service'.queue = s.queue /\ service'.wants = wants
          /\ service'.counter = counter /\ service'.combined = s.combined
          /\ service'.answers = s.answers
      BY <1>1, <2>1, <2>2, <2>3
    <2> QED  BY <1>1, <2>4, <2>5 DEF ServiceInv
  <1>5. CASE HandleCalibration
    <2> DEFINE reply == <<Head(s.queue)[1], Calibrate(s.combined, Head(s.queue)[2])>>
               queue == Tail(s.queue)
               answers == s.answers \cup {reply}
    <2>1. s.queue # <<>> /\ service' = [s EXCEPT !.queue = queue, !.answers = answers]
      BY <1>5 DEF HandleCalibration
    <2>2. s.queue \in Seq(Nat \X Sensors) /\ s.answers \in AnswerSets
      BY <1>1 DEF Queues
    <2>3. /\ queue \in Seq(Nat \X Sensors) /\ Head(s.queue) \in Nat \X Sensors
          /\ Head(s.queue) = s.queue[1] /\ 1 \in 1..Len(s.queue)
          /\ \A k \in 1..Len(queue) : queue[k] = s.queue[k + 1] /\ k + 1 \in 1..Len(s.queue)
      <3> DEFINE q == s.queue
      <3>1. q \in Seq(Nat \X Sensors) /\ q # <<>>
        BY <2>1, <2>2
      <3> HIDE DEF q
      <3>2. /\ Head(q) \in Nat \X Sensors /\ Head(q) = q[1]
            /\ Tail(q) \in Seq(Nat \X Sensors)
            /\ Len(q) \in Nat \ {0} /\ Len(Tail(q)) = Len(q) - 1
            /\ \A i \in 1..Len(Tail(q)) : Tail(q)[i] = q[i + 1]
        BY <3>1, TailIs
      <3>3. /\ 1 \in 1..Len(q)
            /\ \A i \in 1..Len(Tail(q)) : i + 1 \in 1..Len(q)
        BY <3>2
      <3> QED  BY <3>2, <3>3 DEF q
    <2>4. Head(s.queue)[2] = Chosen(s.combined, Head(s.queue)[1])
      BY <1>1, <2>3
    <2>5. \A k \in 1..Len(queue) : queue[k][2] = Chosen(s.combined, queue[k][1])
      BY <1>1, <2>3
    <2>6. queue \in Queues
      BY <2>3 DEF Queues
    <2> HIDE DEF queue
    <2>7. reply \in Nat \X {"failed", "unknown", "calibrated"}
      BY <2>3 DEF Calibrate
    <2>8. reply[2] = Calibrate(s.combined, Chosen(s.combined, reply[1]))
      BY <2>4
    <2> HIDE DEF reply
    <2>9. answers \in AnswerSets
      BY <2>2, <2>7 DEF AnswerSets
    <2>10. \A a \in answers : a[2] = Calibrate(s.combined, Chosen(s.combined, a[1]))
      BY <1>1, <2>8
    <2> HIDE DEF answers
    <2>11. /\ service' \in Services /\ service'.queue = queue /\ service'.wants = s.wants
           /\ service'.counter = s.counter /\ service'.combined = s.combined
           /\ service'.answers = answers
      BY <1>1, <2>1, <2>6, <2>9
    <2> QED  BY <1>1, <2>5, <2>10, <2>11 DEF ServiceInv
  <1>6. CASE ServiceEnvironment
    <2>1. CASE service' = [s EXCEPT !.up = ~@, !.queue = <<>>]
      <3>1. <<>> \in Queues /\ Len(<<>>) = 0
        BY DEF Queues
      <3>2. /\ service' \in Services /\ service'.queue = <<>> /\ service'.wants = s.wants
            /\ service'.counter = s.counter /\ service'.combined = s.combined
            /\ service'.answers = s.answers
        BY <1>1, <2>1, <3>1
      <3> QED  BY <1>1, <3>1, <3>2 DEF ServiceInv
    <2>2. CASE service' = [s EXCEPT !.ok = FALSE]
      <3>1. /\ service' \in Services /\ service'.queue = s.queue /\ service'.wants = s.wants
            /\ service'.counter = s.counter /\ service'.combined = s.combined
            /\ service'.answers = s.answers
        BY <1>1, <2>2
      <3> QED  BY <1>1, <3>1 DEF ServiceInv
    <2> QED  BY <1>6, <2>1, <2>2 DEF ServiceEnvironment
  <1> QED  BY <1>2, <1>3, <1>4, <1>5, <1>6

(* A callback begins, finds the id of its thread or adds it.               *)
LEMMA ThreadStepInv ==
    ASSUME IdsInv, NEW t \in Threads, StartCallback(t) \/ FindThread(t) \/ PushThread(t)
    PROVE  IdsInv'
  <1> SUFFICES ASSUME ~overlap' PROVE IdsKept'
    BY DEF IdsInv
  <1>1. ~overlap
    BY DEF StartCallback, FindThread, PushThread
  <1>2. /\ threadAt \in [Threads -> {"idle", "find", "push"}]
        /\ \A u, v \in Threads : threadAt[u] # "idle" /\ threadAt[v] # "idle" => u = v
        /\ ids \in Seq(Threads)
        /\ \A i, j \in 1..Len(ids) : ids[i] = ids[j] => i = j
        /\ \A u \in Threads : threadAt[u] = "push" => \A k \in 1..Len(ids) : ids[k] # u
        /\ DOMAIN shownIds = Threads
        /\ \A u \in Threads : \A i \in shownIds[u] :
              i + 1 \in 1..Len(ids) /\ ids[i + 1] = u /\ i \in Nat
    BY <1>1 DEF IdsInv, IdsKept
  <1>3. CASE StartCallback(t)
    <2>1. /\ threadAt' = [threadAt EXCEPT ![t] = "find"]
          /\ \A u \in Threads : threadAt[u] = "idle"
          /\ ids' = ids /\ shownIds' = shownIds
      BY <1>3 DEF StartCallback
    <2> QED  BY <1>2, <2>1 DEF IdsKept
  <1>4. CASE FindThread(t)
    <2>1. threadAt[t] = "find" /\ ids' = ids
      BY <1>4 DEF FindThread
    <2>2. \A u \in Threads : u # t => threadAt[u] = "idle"
      BY <1>2, <2>1
    <2>3. CASE Position(t) = {}
      <3>1. threadAt' = [threadAt EXCEPT ![t] = "push"] /\ shownIds' = shownIds
        BY <1>4, <2>3 DEF FindThread
      <3>2. \A k \in 1..Len(ids) : ids[k] # t
        BY <1>2, <2>3 DEF Position
      <3> QED  BY <1>2, <2>1, <2>2, <3>1, <3>2 DEF IdsKept
    <2>4. CASE Position(t) # {}
      <3>1. threadAt' = [threadAt EXCEPT ![t] = "idle"]
        BY <1>4, <2>4 DEF FindThread
      <3>2. PICK k \in Position(t) : shownIds' = [shownIds EXCEPT ![t] = @ \cup {k - 1}]
        BY <1>4, <2>4 DEF FindThread, Show
      <3>3. k \in 1..Len(ids) /\ ids[k] = t /\ Len(ids) \in Nat
        BY <1>2 DEF Position
      <3>4. ASSUME NEW u \in Threads, NEW i \in shownIds'[u]
            PROVE  i + 1 \in 1..Len(ids) /\ ids[i + 1] = u /\ i \in Nat
        <4>1. CASE u = t /\ i = k - 1
          BY <3>3, <4>1
        <4>2. CASE ~(u = t /\ i = k - 1)
          <5>1. i \in shownIds[u]
            BY <1>2, <3>2, <3>4, <4>2
          <5> QED  BY <1>2, <5>1
        <4> QED  BY <4>1, <4>2
      <3>5. DOMAIN shownIds' = Threads
        BY <1>2, <3>2
      <3>6. /\ threadAt' \in [Threads -> {"idle", "find", "push"}]
            /\ \A u \in Threads : threadAt'[u] = "idle"
        BY <1>2, <2>2, <3>1
      <3> QED  BY <1>2, <2>1, <3>4, <3>5, <3>6 DEF IdsKept
    <2> QED  BY <2>3, <2>4
  <1>5. CASE PushThread(t)
    <2>1. /\ threadAt[t] = "push" /\ threadAt' = [threadAt EXCEPT ![t] = "idle"]
          /\ shownIds' = [shownIds EXCEPT ![t] = @ \cup {Len(ids') - 1}]
      BY <1>5 DEF PushThread, Show
    <2>2. \A u \in Threads : u # t => threadAt[u] = "idle"
      BY <1>2, <2>1
    <2>3. ids' = Append(ids, t)
      BY <1>5, <2>2 DEF PushThread
    <2> DEFINE n == Len(ids)
    <2>4. /\ ids' \in Seq(Threads) /\ n \in Nat /\ Len(ids') = n + 1
          /\ ids'[n + 1] = t
          /\ \A i \in 1..n : ids'[i] = ids[i]
      BY <1>2, <2>3, AppendIs
    <2>5. \A k \in 1..n : ids[k] # t
      BY <1>2, <2>1
    <2>6. shownIds' = [shownIds EXCEPT ![t] = @ \cup {n}]
      <3>1. Len(ids') - 1 = n
        BY <2>4
      <3> QED  BY <2>1, <3>1
    <2> HIDE DEF n
    <2>7. ASSUME NEW i \in 1..Len(ids'), NEW j \in 1..Len(ids'), ids'[i] = ids'[j]
          PROVE  i = j
      <3>1. (i \in 1..n \/ i = n + 1) /\ (j \in 1..n \/ j = n + 1)
        BY <2>4
      <3>2. CASE i \in 1..n /\ j \in 1..n
        BY <1>2, <2>4, <2>7, <3>2 DEF n
      <3>3. CASE ~(i \in 1..n /\ j \in 1..n)
        BY <2>4, <2>5, <2>7, <3>1, <3>3
      <3> QED  BY <3>2, <3>3
    <2>8. ASSUME NEW u \in Threads, NEW i \in shownIds'[u]
          PROVE  i + 1 \in 1..Len(ids') /\ ids'[i + 1] = u /\ i \in Nat
      <3>1. CASE u = t /\ i = n
        BY <2>4, <3>1
      <3>2. CASE ~(u = t /\ i = n)
        <4>1. i \in shownIds[u]
          BY <1>2, <2>6, <2>8, <3>2
        <4>2. i + 1 \in 1..n /\ ids[i + 1] = u /\ i \in Nat
          BY <1>2, <4>1 DEF n
        <4> QED  BY <2>4, <4>2
      <3> QED  BY <3>1, <3>2
    <2>9. DOMAIN shownIds' = Threads
      BY <1>2, <2>6
    <2>10. /\ threadAt' \in [Threads -> {"idle", "find", "push"}]
           /\ \A u \in Threads : threadAt'[u] = "idle"
      BY <1>2, <2>1, <2>2
    <2> QED  BY <2>4, <2>7, <2>8, <2>9, <2>10 DEF IdsKept
  <1> QED  BY <1>3, <1>4, <1>5

(* The bytes of a uint32_t are its value.                                  *)
LEMMA PortBytes ==
    ASSUME NEW t \in Topics, NEW raw \in PortRange(t)
    PROVE  FromUint32Bytes(ToUint32Bytes(raw)) = raw
  <1> DEFINE B == PortBase
             bytes == ToUint32Bytes(raw)
  <1>1. /\ B \in Nat \ {0} /\ raw \in Nat
        /\ raw <= PortConfig[t].max /\ PortConfig[t].max \in Nat
        /\ PortConfig[t].max < B * B * B * B
    BY DemoAssumption DEF Topics, PortRange
  <1>2. raw < B * B * B * B
    <2> DEFINE top == B * B * B * B
    <2>1. top \in Nat /\ PortConfig[t].max < top
      BY <1>1
    <2> HIDE DEF top
    <2>2. raw < top
      BY <1>1, <2>1
    <2> QED  BY <2>2 DEF top
  <1>3. Shift(0) = 1 /\ Shift(1) = B /\ Shift(2) = B * B /\ Shift(3) = B * B * B
    BY DEF Shift
  <1>4. /\ bytes[1] = (raw \div Shift(3)) % B
        /\ bytes[2] = (raw \div Shift(2)) % B
        /\ bytes[3] = (raw \div Shift(1)) % B
        /\ bytes[4] = (raw \div Shift(0)) % B
    BY DEF ToUint32Bytes
  <1>5. raw \div 1 = raw
    BY <1>1
  <1>6. ((raw \div (B * B * B)) % B) * (B * B * B) + ((raw \div (B * B)) % B) * (B * B)
          + ((raw \div B) % B) * B + (raw % B) = raw
    BY <1>1, <1>2, FourBytes
  <1>7. FromUint32Bytes(bytes) =
          bytes[1] * Shift(3) + bytes[2] * Shift(2) + bytes[3] * Shift(1) + bytes[4]
    BY DEF FromUint32Bytes
  <1> HIDE DEF bytes
  <1>8. FromUint32Bytes(bytes) = raw
    BY <1>3, <1>4, <1>5, <1>6, <1>7
  <1> QED  BY <1>8 DEF bytes

(* A timer publishes on the topics of its nodes.                           *)
LEMMA PortTimerInv ==
    ASSUME PortInv, NEW topics, OnPortTimer(topics)
    PROVE  PortInv'
  <1>1. port' = [t \in Topics |-> IF t \in topics THEN PublishPort(t, port[t]) ELSE port[t]]
    BY DEF OnPortTimer
  <1>2. ASSUME NEW t \in Topics PROVE PublishPort(t, port[t]) \in PortType(t)
    <2> DEFINE p == port[t]
               next == IF p.value = PortConfig[t].max THEN PortConfig[t].min ELSE p.value + 1
               sample == <<[bytes |-> ToUint32Bytes(p.value), raw |-> p.value]>>
    <2>1. p \in PortType(t)
      BY DEF PortInv
    <2>2. p.value \in PortRange(t)
      BY <2>1 DEF PortType
    <2>3. next \in PortRange(t)
      BY <2>2, DemoAssumption DEF PortRange, Topics
    <2>4. sample \in PortKept(t)
      BY <2>2 DEF PortKept
    <2>5. PublishPort(t, p) = [p EXCEPT !.kept = sample, !.value = next]
      BY DEF PublishPort
    <2> HIDE DEF next, sample, p
    <2>6. [p EXCEPT !.kept = sample, !.value = next] \in PortType(t)
      BY <2>1, <2>3, <2>4 DEF PortType
    <2>7. PublishPort(t, p) \in PortType(t)
      BY <2>5, <2>6
    <2> QED  BY <2>7 DEF p
  <1>3. \A t \in Topics : port[t] \in PortType(t)
    BY DEF PortInv
  <1>4. ASSUME NEW t \in Topics PROVE port'[t] \in PortType(t)
    BY <1>1, <1>2, <1>3
  <1>5. DOMAIN port' = Topics
    BY <1>1
  <1> QED  BY <1>4, <1>5 DEF PortInv

(* A subscriber takes the sample of its topic.                             *)
LEMMA SubscriberHearsInv ==
    ASSUME PortInv, NEW t, SubscriberHears(t)
    PROVE  PortInv'
  <1> DEFINE p == port[t]
             sample == {[value |-> FromUint32Bytes(p.kept[1].bytes), raw |-> p.kept[1].raw]}
  <1>1. t \in Topics /\ p.kept # <<>>
    BY DEF SubscriberHears
  <1>2. port' = [port EXCEPT ![t].kept = <<>>, ![t].heard = sample]
    BY DEF SubscriberHears
  <1>3. p \in PortType(t) /\ p.kept \in PortKept(t)
    BY <1>1 DEF PortInv, PortType
  <1>4. PICK raw \in PortRange(t) : p.kept = <<[bytes |-> ToUint32Bytes(raw), raw |-> raw]>>
    BY <1>1, <1>3 DEF PortKept
  <1>5. p.kept[1].bytes = ToUint32Bytes(raw) /\ p.kept[1].raw = raw
    BY <1>4
  <1>6. FromUint32Bytes(ToUint32Bytes(raw)) = raw
    BY <1>1, PortBytes
  <1>7. sample = {[value |-> raw, raw |-> raw]}
    BY <1>5, <1>6
  <1>8. sample \in PortHeard(t) /\ <<>> \in PortKept(t)
    BY <1>7 DEF PortHeard, PortKept
  <1> HIDE DEF sample
  <1>9. DOMAIN port = Topics /\ \A u \in Topics : port[u] \in PortType(u)
    BY DEF PortInv
  <1>10. /\ DOMAIN port' = Topics
         /\ port'[t] = [p EXCEPT !.kept = <<>>, !.heard = sample]
         /\ \A u \in Topics : u # t => port'[u] = port[u]
    BY <1>1, <1>2, <1>9
  <1> HIDE DEF p
  <1>11. port'[t] \in PortType(t)
    BY <1>3, <1>8, <1>10 DEF PortType
  <1> QED  BY <1>9, <1>10, <1>11 DEF PortInv

(* Every step of the nodes keeps the invariant.                            *)
LEMMA DemoNextInv == DemoInv /\ [DemoNextState]_demoVars => DemoInv'
  <1> SUFFICES ASSUME DemoInv, [DemoNextState]_demoVars PROVE DemoInv'
    OBVIOUS
  <1>1. RampInv /\ ParamsInv /\ IdsInv /\ ServiceInv /\ PortInv
    BY DEF DemoInv
  <1>2. CASE OnTimer \/ CombinedOnTimer \/ \E list \in Requested : SetParameters(list)
    BY <1>2, OnTimerInv, CombinedOnTimerInv, SetParametersInv
  <1>3. CASE QueueAsyncRequest \/ LeaveClient \/ ClientTimer \/ HandleCalibration
               \/ ServiceEnvironment
    <2>1. ServiceInv'
      BY <1>1, <1>3, ServiceStepInv
    <2>2. UNCHANGED <<demo, ramp, params, members, ids, threadAt, shownIds, overlap, port>>
      BY <1>3 DEF QueueAsyncRequest, LeaveClient, ClientTimer, HandleCalibration,
                  ServiceEnvironment
    <2>3. RampInv' /\ ParamsInv' /\ IdsInv' /\ PortInv'
      BY <1>1, <2>2 DEF RampInv, ParamsInv, IdsInv, IdsKept, PortInv
    <2> QED  BY <2>1, <2>3 DEF DemoInv
  <1>4. CASE \E t \in Threads : StartCallback(t) \/ FindThread(t) \/ PushThread(t)
    <2>1. IdsInv'
      BY <1>1, <1>4, ThreadStepInv
    <2>2. UNCHANGED <<demo, ramp, params, members, service, port>>
      BY <1>4 DEF StartCallback, FindThread, PushThread
    <2>3. RampInv' /\ ParamsInv' /\ ServiceInv' /\ PortInv'
      BY <1>1, <2>2 DEF RampInv, ParamsInv, ServiceInv, PortInv
    <2> QED  BY <2>1, <2>3 DEF DemoInv
  <1>5. CASE \/ \E topics \in PortPublisher : OnPortTimer(topics)
             \/ \E t \in PortSubscriber : SubscriberHears(t)
    <2>1. PortInv'
      BY <1>1, <1>5, PortTimerInv, SubscriberHearsInv
    <2>2. UNCHANGED <<demo, ramp, params, members, service, ids, threadAt, shownIds, overlap>>
      BY <1>5 DEF OnPortTimer, SubscriberHears
    <2>3. RampInv' /\ ParamsInv' /\ IdsInv' /\ ServiceInv'
      BY <1>1, <2>2 DEF RampInv, ParamsInv, IdsInv, IdsKept, ServiceInv
    <2> QED  BY <2>1, <2>3 DEF DemoInv
  <1>6. CASE UNCHANGED demoVars
    BY <1>1, <1>6 DEF demoVars, DemoInv, RampInv, ParamsInv, IdsInv, IdsKept, ServiceInv, PortInv
  <1> QED  BY <1>2, <1>3, <1>4, <1>5, <1>6 DEF DemoNextState

(* What the invariant says of speeds, ids, answers and ported values.      *)
LEMMA DemoInvImplies ==
    DemoInv => SpeedInRange /\ ThreadsKeepTheirIds /\ AnswersInTurn /\ PortHearsValues
  <1> SUFFICES ASSUME DemoInv
               PROVE  SpeedInRange /\ ThreadsKeepTheirIds /\ AnswersInTurn /\ PortHearsValues
    OBVIOUS
  <1>1. SpeedInRange
    <2>1. demo = "publisher" => ramp.count \in 0..210 /\ ramp.speed \in 0..2200
      BY DEF DemoInv, RampInv, OnRamp
    <2>2. demo = "combined" /\ ramp.start = 0 => ramp.count \in 0..1100
      BY DEF DemoInv, RampInv, OnRamp
    <2> QED  BY <2>1, <2>2 DEF SpeedInRange, DemoInv, ParamsInv
  <1>2. ThreadsKeepTheirIds
    <2> SUFFICES ASSUME ~overlap, NEW t \in Threads, NEW u \in Threads,
                        NEW i \in shownIds[t], NEW j \in shownIds[u]
                 PROVE  (t = u) = (i = j)
      BY DEF ThreadsKeepTheirIds
    <2>1. /\ \A k, m \in 1..Len(ids) : ids[k] = ids[m] => k = m
          /\ i + 1 \in 1..Len(ids) /\ ids[i + 1] = t /\ i \in Nat
          /\ j + 1 \in 1..Len(ids) /\ ids[j + 1] = u /\ j \in Nat
      BY DEF DemoInv, IdsInv, IdsKept
    <2>2. t = u => i = j
      <3> SUFFICES ASSUME t = u PROVE i = j
        OBVIOUS
      <3>1. i + 1 = j + 1
        BY <2>1
      <3> QED  BY <2>1, <3>1
    <2>3. i = j => t = u
      BY <2>1
    <2> QED  BY <2>2, <2>3, Zenon
  <1>3. AnswersInTurn
    BY DEF DemoInv, ServiceInv, AnswersInTurn, Chosen
  <1>4. PortHearsValues
    <2> SUFFICES ASSUME NEW t \in Topics, NEW h \in port[t].heard
                 PROVE  h.value = h.raw /\ h.value \in PortRange(t)
      BY DEF PortHearsValues, PortRange
    <2>1. port[t].heard \in PortHeard(t)
      BY DEF DemoInv, PortInv, PortType
    <2>2. PICK raw \in PortRange(t) : h = [value |-> raw, raw |-> raw]
      BY <2>1 DEF PortHeard
    <2> QED  BY <2>2
  <1> QED  BY <1>1, <1>2, <1>3, <1>4

-----------------------------------------------------------------------------
(***************************************************************************)
(* Windows of travel times, and the publishing chain, which uses two.      *)
(***************************************************************************)
Printed == SUBSET BOOLEAN
WindowRecord ==
    [written : SUBSET Nat, which : Nat, toss : BOOLEAN, skipped : BOOLEAN, overrun : BOOLEAN,
     printed : Printed]

(* Between two samples the slots before the next one hold travel times,    *)
(* unless one was skipped, and so did all slots of the printed windows;    *)
(* a sample that was just stored may leave the window full.                *)
StoredWindow(w) ==
    /\ w \in WindowRecord
    /\ w.which <= SampleAverage
    /\ w.written \subseteq Slots
    /\ w.skipped \/ 0..(w.which - 1) \subseteq w.written
    /\ w.skipped \/ FALSE \notin w.printed
    /\ ~w.overrun
GoodWindow(w) == StoredWindow(w) /\ w.which # SampleAverage

(* A window begins empty.                                                  *)
LEMMA NewWindowGood == GoodWindow(NewWindow)
  BY SampleAverageAssumption DEF NewWindow, GoodWindow, StoredWindow, WindowRecord, Printed, Slots

(* A skewed sample leaves its slot, and starts again behind the last.      *)
LEMMA SkipSlotGood ==
    ASSUME NEW w, GoodWindow(w)
    PROVE  GoodWindow(SkipSlot(w))
  <1> DEFINE k == IF w.which + 1 = SampleAverage THEN 0 ELSE w.which + 1
  <1>1. w \in WindowRecord /\ w.which <= SampleAverage /\ w.which # SampleAverage /\ w.which \in Nat
    BY DEF GoodWindow, StoredWindow, WindowRecord
  <1>2. k \in Nat /\ k <= SampleAverage /\ k # SampleAverage
    BY <1>1, SampleAverageAssumption
  <1>3. SkipSlot(w) = [w EXCEPT !.which = k, !.skipped = TRUE]
    BY DEF SkipSlot
  <1> HIDE DEF k
  <1>4. /\ SkipSlot(w) \in WindowRecord /\ SkipSlot(w).which = k /\ SkipSlot(w).skipped
        /\ SkipSlot(w).written = w.written /\ SkipSlot(w).overrun = w.overrun
    BY <1>1, <1>2, <1>3 DEF WindowRecord
  <1> QED  BY <1>2, <1>4 DEF GoodWindow, StoredWindow

(* A travel time goes to the slot that is next.                            *)
LEMMA StoreTravelTimeStored ==
    ASSUME NEW w, GoodWindow(w)
    PROVE  StoredWindow(StoreTravelTime(w))
  <1> DEFINE v == StoreTravelTime(w)
  <1> SUFFICES StoredWindow(v)
    OBVIOUS
  <1>1. /\ w \in WindowRecord /\ w.which \in Nat /\ w.which <= SampleAverage
        /\ w.which # SampleAverage
    BY DEF GoodWindow, StoredWindow, WindowRecord
  <1>2. w.which \in Slots /\ w.which + 1 <= SampleAverage
    BY <1>1, SampleAverageAssumption DEF Slots
  <1>3. CASE w.toss
    <2>1. v = [w EXCEPT !.toss = FALSE]
      BY <1>3 DEF StoreTravelTime
    <2>2. /\ v \in WindowRecord /\ v.which = w.which /\ v.written = w.written
          /\ v.skipped = w.skipped /\ v.printed = w.printed /\ v.overrun = w.overrun
      BY <1>1, <2>1 DEF WindowRecord
    <2> HIDE DEF v
    <2> QED  BY <2>2 DEF GoodWindow, StoredWindow
  <1>4. CASE ~w.toss
    <2> DEFINE s == w.written \cup {w.which}
    <2>1. v = [w EXCEPT !.written = s, !.which = w.which + 1, !.overrun = w.overrun]
      <3>1. {w.which} \cap Slots = {w.which} /\ (w.overrun \/ w.which \notin Slots) = w.overrun
        BY <1>1, <1>2 DEF WindowRecord
      <3> QED  BY <1>4, <3>1 DEF StoreTravelTime
    <2>2. s \in SUBSET Nat /\ s \subseteq Slots
      BY <1>1, <1>2 DEF WindowRecord, GoodWindow, StoredWindow
    <2>a. w.skipped \/ 0..w.which \subseteq s
      BY <1>1 DEF GoodWindow, StoredWindow
    <2> HIDE DEF s
    <2>3. /\ v \in WindowRecord /\ v.which = w.which + 1 /\ v.written = s
          /\ v.skipped = w.skipped /\ v.printed = w.printed /\ v.overrun = w.overrun
      <3>1. /\ v.which = w.which + 1 /\ v.written = s
            /\ v.skipped = w.skipped /\ v.printed = w.printed /\ v.overrun = w.overrun
        BY <1>1, <2>1 DEF WindowRecord
      <3>2. w.which + 1 \in Nat
        BY <1>1
      <3> DEFINE n == w.which + 1
      <3> HIDE DEF n
      <3>3. v = [w EXCEPT !.written = s, !.which = n, !.overrun = w.overrun] /\ n \in Nat
        BY <2>1, <3>2 DEF n
      <3>4. v \in WindowRecord
        BY <1>1, <2>2, <3>3 DEF WindowRecord
      <3> QED  BY <3>1, <3>4
    <2>4. v.which - 1 = w.which
      BY <1>1, <2>3
    <2> HIDE DEF v
    <2> QED  BY <1>2, <2>2, <2>3, <2>4, <2>a DEF GoodWindow, StoredWindow
  <1> QED  BY <1>3, <1>4

(* Only a full window is printed, and it starts again.                     *)
LEMMA PrintWhenFullGood ==
    ASSUME NEW w, StoredWindow(w)
    PROVE  GoodWindow(PrintWhenFull(w))
  <1> DEFINE v == PrintWhenFull(w)
  <1> SUFFICES GoodWindow(v)
    OBVIOUS
  <1>1. CASE w.which # SampleAverage
    BY <1>1 DEF PrintWhenFull, GoodWindow
  <1>2. CASE w.which = SampleAverage
    <2> DEFINE all == (w.written = Slots)
               p == w.printed \cup {all}
    <2>1. v = [w EXCEPT !.which = 0, !.printed = p]
      BY <1>2 DEF PrintWhenFull
    <2>2. w \in WindowRecord
      BY DEF StoredWindow
    <2>3. w.skipped \/ all
      BY <1>2 DEF StoredWindow, Slots
    <2>4. all \in BOOLEAN
      OBVIOUS
    <2> HIDE DEF all
    <2>5. p \in Printed /\ (w.skipped \/ FALSE \notin p)
      BY <2>2, <2>3, <2>4 DEF WindowRecord, StoredWindow, Printed
    <2> HIDE DEF p
    <2>6. /\ v \in WindowRecord /\ v.which = 0 /\ v.printed = p
          /\ v.skipped = w.skipped /\ v.written = w.written /\ v.overrun = w.overrun
      <3>1. /\ v.which = 0 /\ v.printed = p
            /\ v.skipped = w.skipped /\ v.written = w.written /\ v.overrun = w.overrun
        BY <2>1, <2>2 DEF WindowRecord
      <3>2. v \in WindowRecord
        <4>1. p \in Printed
          BY <2>5
        <4>2. /\ w.written \in SUBSET Nat /\ w.toss \in BOOLEAN /\ w.skipped \in BOOLEAN
              /\ w.overrun \in BOOLEAN
          BY <2>2 DEF WindowRecord
        <4>3. v = [written |-> w.written, which |-> 0, toss |-> w.toss, skipped |-> w.skipped,
                   overrun |-> w.overrun, printed |-> p]
          BY <2>1, <2>2 DEF WindowRecord
        <4> QED  BY <4>1, <4>2, <4>3 DEF WindowRecord
      <3> QED  BY <3>1, <3>2
    <2>7. 0..(v.which - 1) = {}
      BY <2>6
    <2> HIDE DEF v
    <2>8. v.which <= SampleAverage /\ v.which # SampleAverage
      BY <2>6, SampleAverageAssumption
    <2>9. v.written \subseteq Slots /\ ~v.overrun
      BY <2>6 DEF StoredWindow
    <2> QED
      BY <2>5, <2>6, <2>7, <2>8, <2>9 DEF GoodWindow, StoredWindow
  <1> QED  BY <1>1, <1>2

(* A sample of ParameterSubscribe, and one of the mirror.                  *)
LEMMA TimeWindowGood ==
    ASSUME NEW w, GoodWindow(w), NEW skewed \in BOOLEAN
    PROVE  GoodWindow(TimeSubscription(w, skewed)) /\ GoodWindow(TimeMirrored(w, skewed))
  BY SkipSlotGood, StoreTravelTimeStored, PrintWhenFullGood DEF TimeSubscription, TimeMirrored

GoodWindows ==
    /\ window \in [{"subscribe", "mirror"} -> WindowRecord]
    /\ \A p \in {"subscribe", "mirror"} : GoodWindow(window[p])

(* The windows of the publishing chain begin empty.                        *)
LEMMA PublishInitInv == PublishInit => GoodWindows
  BY NewWindowGood DEF PublishInit, GoodWindows, GoodWindow, StoredWindow

(* A window that takes a sample.                                           *)
LEMMA WindowTakesSample ==
    ASSUME GoodWindows, NEW p \in {"subscribe", "mirror"}, NEW w, GoodWindow(w),
           window' = [window EXCEPT ![p] = w]
    PROVE  GoodWindows'
  <1>1. w \in WindowRecord
    BY DEF GoodWindow, StoredWindow
  <1> QED  BY <1>1 DEF GoodWindows

(* A program of the chain leaves its window alone or stores one travel     *)
(* time in it.                                                             *)
LEMMA PublishNextInv == GoodWindows /\ [PublishNextState]_publishVars => GoodWindows'
  <1> SUFFICES ASSUME GoodWindows, [PublishNextState]_publishVars PROVE GoodWindows'
    OBVIOUS
  <1>1. CASE UNCHANGED window
    BY <1>1 DEF GoodWindows
  <1>2. CASE OnSubscription
    <2>1. PICK skewed \in BOOLEAN : \/ UNCHANGED window
                                    \/ window' = [window EXCEPT !["subscribe"] =
                                                    TimeSubscription(@, skewed)]
      BY <1>2 DEF OnSubscription
    <2>2. GoodWindow(TimeSubscription(window["subscribe"], skewed))
      BY TimeWindowGood DEF GoodWindows
    <2> QED  BY <1>1, <2>1, <2>2, WindowTakesSample
  <1>3. CASE ReadUpdate
    <2>1. PICK skewed \in BOOLEAN : \/ UNCHANGED window
                                    \/ window' = [window EXCEPT !["mirror"] =
                                                    TimeMirrored(@, skewed)]
      BY <1>3 DEF ReadUpdate
    <2>2. GoodWindow(TimeMirrored(window["mirror"], skewed))
      BY TimeWindowGood DEF GoodWindows
    <2> QED  BY <1>1, <2>1, <2>2, WindowTakesSample
  <1>4. CASE \/ StartPublishing \/ BeginRound \/ PublishNext \/ EndRound
             \/ \E p \in Readers : ReaderSteps(p) \/ ExitProgram(p)
             \/ ForwardToCDA \/ StartMirror \/ StreamCloses \/ StartPeriodic \/ ReadPeriodic
    <2>1. UNCHANGED window
      BY <1>4 DEF StartPublishing, BeginRound, PublishNext, EndRound, ReaderSteps, BuildServer,
                  StartReader, LeaveLoop, EndReader, ExitProgram, ForwardToCDA, StartMirror,
                  StreamCloses, StartPeriodic, ReadPeriodic
    <2> QED  BY <1>1, <2>1
  <1>5. CASE UNCHANGED publishVars
    BY <1>1, <1>5 DEF publishVars
  <1> QED  BY <1>2, <1>3, <1>4, <1>5 DEF PublishNextState, MirrorSteps

(* The invariant gives what is claimed of the two windows.                 *)
LEMMA GoodWindowsImplies == GoodWindows => WindowInRange /\ StatisticsFromSamples
  BY DEF GoodWindows, GoodWindow, StoredWindow, WindowInRange, StatisticsFromSamples

-----------------------------------------------------------------------------
(***************************************************************************)
(* The read programs.                                                      *)
(***************************************************************************)
Resting == {"posted", "done", "dropped"}
Timing == {"time", "keep", "print"}
Comparing == {"compare", "remember"}
ReadRecord ==
    [id : Int, client : Resting \cup Timing \cup Comparing \cup {"waiting"},
     server : Executing \cup {"none", "refused", "answered"},
     value : Int, shown : Int, failed : BOOLEAN]

ReadType ==
    /\ readArguments \in ReadArguments
    /\ reader \in [at : {"start", "loop", "reading", "stopping", "ended"}, left : Seq(Int)]
    /\ UniqueIntValue \in Int
    /\ reads \in Seq(ReadRecord)
    /\ display \in [first : BOOLEAN, last : Int, misses : Nat]

(* What is timed is the latency channel, what is compared parameter 1, and *)
(* without the option nothing is.                                          *)
Compares == ReadClient.show /\ ReadClient.sequential
GoodRead(compares, r) ==
    /\ r.client \in Timing => r.id = 0
    /\ r.client \in Comparing => r.id = 1 /\ compares
    /\ r.server \in {"increment", "store"} => r.id = 1
    /\ r.failed => r.client \notin {"posted", "waiting"}
GoodReads ==
    /\ \A n \in 1..Len(reads) : GoodRead(Compares, reads[n])
    /\ Compares \/ display.first

(* Two reads of a parameter that are under way together are known.         *)
OverlapsKnown ==
    \A m, n \in 1..Len(reads) :
        m # n /\ UnderWay(reads[m]) /\ UnderWay(reads[n]) /\ reads[m].id = reads[n].id
            => reads[m].id \in overlaps

(* Without an overlap the window is full only while it is being printed.   *)
WindowKept ==
    0 \in overlaps \/ (/\ StoredWindow(readWindow)
                       /\ \/ readWindow.which # SampleAverage
                          \/ \E n \in 1..Len(reads) : reads[n].client = "print")

(* Handlers run only while the thread that made them is there.             *)
HandlersInTime ==
    /\ reader.at = "start" => Len(reads) = 0
    /\ reader.at = "ended" => \A n \in 1..Len(reads) : reads[n].client \in Resting
    /\ readServer \in {"start", "ended"} =>
          \A n \in 1..Len(reads) : reads[n].server \notin Executing

(* As long as reads of parameter 1 neither overlap nor fail, the value of  *)
(* the server and the one displayed last move in step: they differ only    *)
(* between the increment and the comparison of one read.                   *)
Clean ==
    /\ 1 \notin overlaps
    /\ \A n \in 1..Len(reads) : reads[n].id = 1 => ~reads[n].failed
Counted(r) == r.server = "value" \/ (r.server = "answered" /\ r.client \in {"waiting", "compare"})
OneInStep(u, d, r) ==
    /\ r.server \in Executing => r.client = "waiting"
    /\ r.client \in Comparing \cup {"done"} => r.server = "answered"
    /\ r.server \in {"increment", "store"} => d.first \/ d.last = u
    /\ r.server = "store" => r.value = u
    /\ r.server = "answered" /\ r.client = "waiting" => r.value = u
    /\ r.client \in Comparing => r.shown = u
    /\ Counted(r) => d.first \/ d.last + 1 = u
InStep ==
    /\ display.misses = 0
    /\ \A n \in 1..Len(reads) :
          reads[n].id = 1 => OneInStep(UniqueIntValue, display, reads[n])
    /\ \/ display.first \/ display.last = UniqueIntValue
       \/ \E n \in 1..Len(reads) :
             reads[n].id = 1 /\ (Counted(reads[n]) \/ reads[n].client = "remember")
CleanInStep == Clean => InStep

ReadInv ==
    /\ ReadType /\ GoodReads /\ OverlapsKnown /\ WindowKept /\ HandlersInTime /\ CleanInStep

(* The read programs begin without a read under way.                       *)
LEMMA ReadInitInv == ReadInit => ReadInv
  <1> SUFFICES ASSUME ReadInit PROVE ReadInv
    OBVIOUS
  <1>1. /\ reads = <<>> /\ Len(reads) = 0 /\ readWindow = NewWindow
        /\ readArguments \in ReadArguments /\ UniqueIntValue = 0
        /\ reader = [at |-> "start", left |-> <<>>]
        /\ display = [first |-> TRUE, last |-> 0, misses |-> 0]
    BY DEF ReadInit
  <1>2. ReadType
    BY <1>1 DEF ReadType
  <1>3. WindowKept
    BY <1>1, NewWindowGood DEF WindowKept, GoodWindow
  <1>4. GoodReads /\ OverlapsKnown /\ HandlersInTime
    BY <1>1 DEF GoodReads, OverlapsKnown, HandlersInTime
  <1>5. InStep
    BY <1>1 DEF InStep
  <1> QED  BY <1>2, <1>3, <1>4, <1>5 DEF ReadInv, CleanInStep

(* A read is changed: the others stay.                                     *)
LEMMA ReadChanged ==
    ASSUME reads \in Seq(ReadRecord), NEW n \in 1..Len(reads), NEW q \in ReadRecord,
           reads' = [reads EXCEPT ![n] = q]
    PROVE  /\ reads' \in Seq(ReadRecord) /\ Len(reads') = Len(reads) /\ reads'[n] = q
           /\ \A m \in 1..Len(reads) : m # n => reads'[m] = reads[m]
  OBVIOUS

(* What every step of a read that was sent keeps.                          *)
LEMMA ReadMoves ==
    ASSUME ReadInv, NEW n \in 1..Len(reads), NEW q \in ReadRecord,
           reads' = [reads EXCEPT ![n] = q],
           UNCHANGED <<readArguments, reader, readServer, overlaps>>,
           UniqueIntValue' \in Int, display' \in [first : BOOLEAN, last : Int, misses : Nat],
           Compares \/ display'.first,
           q.id = reads[n].id, UnderWay(q) => UnderWay(reads[n]), GoodRead(Compares, q),
           q.client \in Resting \/ reads[n].client \notin Resting,
           q.server \in Executing => reads[n].server \in Executing
    PROVE  ReadType' /\ GoodReads' /\ OverlapsKnown' /\ HandlersInTime'
  <1>1. /\ reads' \in Seq(ReadRecord) /\ Len(reads') = Len(reads) /\ reads'[n] = q
        /\ \A m \in 1..Len(reads) : m # n => reads'[m] = reads[m]
    BY ReadChanged DEF ReadInv, ReadType
  <1>2. ReadType'
    BY <1>1 DEF ReadInv, ReadType
  <1>3. Compares' = Compares
    BY DEF Compares, ReadClient
  <1>4. GoodReads'
    BY <1>1, <1>3 DEF ReadInv, GoodReads
  <1>5. OverlapsKnown'
    <2>1. ASSUME NEW m \in 1..Len(reads)
          PROVE  reads'[m].id = reads[m].id /\ (UnderWay(reads'[m]) => UnderWay(reads[m]))
      BY <1>1
    <2>2. SUFFICES ASSUME NEW k \in 1..Len(reads), NEW m \in 1..Len(reads), k # m,
                          UnderWay(reads'[k]), UnderWay(reads'[m]), reads'[k].id = reads'[m].id
                   PROVE  reads'[k].id \in overlaps
      BY <1>1 DEF OverlapsKnown
    <2> QED  BY <2>1, <2>2 DEF ReadInv, OverlapsKnown
  <1>6. HandlersInTime'
    BY <1>1 DEF ReadInv, HandlersInTime
  <1> QED  BY <1>2, <1>4, <1>5, <1>6

(* A step of a read of another parameter keeps the values in step.         *)
LEMMA OtherReadMoves ==
    ASSUME ReadInv, NEW n \in 1..Len(reads), NEW q \in ReadRecord,
           reads' = [reads EXCEPT ![n] = q], q.id = reads[n].id, q.id # 1,
           UNCHANGED <<UniqueIntValue, display, overlaps>>
    PROVE  CleanInStep'
  <1>1. /\ Len(reads') = Len(reads) /\ reads'[n] = q
        /\ \A m \in 1..Len(reads) : m # n => reads'[m] = reads[m]
    BY ReadChanged DEF ReadInv, ReadType
  <1>2. \A m \in 1..Len(reads) : /\ reads'[m].id = reads[m].id
                                 /\ reads[m].id = 1 => reads'[m] = reads[m]
    BY <1>1
  <1>3. Clean' => Clean
    BY <1>1, <1>2 DEF Clean
  <1>4. InStep => InStep'
    BY <1>1, <1>2 DEF InStep
  <1> QED  BY <1>3, <1>4 DEF ReadInv, CleanInStep

(* A step of a read of parameter 1, which runs alone.                      *)
LEMMA OneReadMoves ==
    ASSUME ReadInv, NEW n \in 1..Len(reads), NEW q \in ReadRecord,
           reads' = [reads EXCEPT ![n] = q], UNCHANGED overlaps,
           q.id = reads[n].id, UnderWay(reads[n]),
           reads[n].id = 1, reads[n].failed => q.failed,
           InStep /\ ~q.failed =>
              /\ display'.misses = 0
              /\ OneInStep(UniqueIntValue', display', q)
              /\ \/ display'.first \/ display'.last = UniqueIntValue'
                 \/ Counted(q) \/ q.client = "remember"
    PROVE  CleanInStep'
  <1>1. /\ Len(reads') = Len(reads) /\ reads'[n] = q
        /\ \A m \in 1..Len(reads) : m # n => reads'[m] = reads[m]
    BY ReadChanged DEF ReadInv, ReadType
  <1> SUFFICES ASSUME Clean' PROVE InStep'
    BY DEF CleanInStep
  <1>2. ~q.failed /\ 1 \notin overlaps
    BY <1>1 DEF Clean
  <1>3. Clean
    BY <1>1, <1>2 DEF Clean
  <1>4. InStep
    BY <1>3 DEF ReadInv, CleanInStep
  <1>5. ASSUME NEW m \in 1..Len(reads), reads'[m].id = 1
        PROVE  OneInStep(UniqueIntValue', display', reads'[m])
    <2>1. CASE m = n
      BY <1>1, <1>2, <1>4, <2>1
    <2>2. CASE m # n
      <3>1. reads'[m] = reads[m] /\ reads[m].id = 1
        BY <1>1, <1>5, <2>2
      <3>2. ~UnderWay(reads[m])
        BY <1>2, <2>2, <3>1 DEF ReadInv, OverlapsKnown
      <3>3. OneInStep(UniqueIntValue, display, reads[m])
        BY <1>4, <3>1 DEF InStep
      <3>4. OneInStep(UniqueIntValue', display', reads[m])
        BY <3>2, <3>3 DEF OneInStep, UnderWay, Counted, Executing, Comparing
      <3> QED  BY <3>1, <3>4
    <2> QED  BY <2>1, <2>2
  <1> QED  BY <1>1, <1>2, <1>4, <1>5 DEF InStep

(* A step of a read that is neither timed before nor after it keeps the    *)
(* window.                                                                 *)
LEMMA WindowStays ==
    ASSUME ReadInv, NEW n \in 1..Len(reads), NEW q \in ReadRecord,
           reads' = [reads EXCEPT ![n] = q], UNCHANGED <<readWindow, overlaps>>,
           reads[n].client # "print"
    PROVE  WindowKept'
  <1>1. /\ Len(reads') = Len(reads) /\ reads'[n] = q
        /\ \A m \in 1..Len(reads) : m # n => reads'[m] = reads[m]
    BY ReadChanged DEF ReadInv, ReadType
  <1> QED  BY <1>1 DEF ReadInv, WindowKept

(* on_read_server increments and returns UniqueIntValue.                   *)
LEMMA OnReadServerInv ==
    ASSUME ReadInv, NEW n \in 1..Len(reads), OnReadServer(n)
    PROVE  ReadInv'
  <1> DEFINE r == reads[n]
  <1>1. /\ r \in ReadRecord /\ reads \in Seq(ReadRecord) /\ UniqueIntValue \in Int
        /\ display \in [first : BOOLEAN, last : Int, misses : Nat] /\ GoodRead(Compares, r)
        /\ Compares \/ display.first
    BY ElementIs DEF ReadInv, ReadType, GoodReads
  <1>2. UNCHANGED <<readArguments, reader, readServer, readWindow, display, overlaps>>
    BY DEF OnReadServer
  <1>3. r.id \in Int /\ r.value \in Int /\ r.failed \in BOOLEAN
    BY <1>1 DEF ReadRecord
  <1>4. r.id = 1 /\ InStep => OneInStep(UniqueIntValue, display, r)
    BY DEF InStep
  <1>5. CASE LoadUniqueIntValue(n)
    <2> DEFINE q == [r EXCEPT !.server = "store", !.value = UniqueIntValue]
    <2>1. r.server = "increment" /\ reads' = [reads EXCEPT ![n] = q] /\ UNCHANGED UniqueIntValue
      BY <1>5 DEF LoadUniqueIntValue
    <2>2. /\ q \in ReadRecord /\ q.id = r.id /\ q.client = r.client /\ q.server = "store"
          /\ q.value = UniqueIntValue /\ q.failed = r.failed /\ q.shown = r.shown
      BY <1>1 DEF ReadRecord, Executing
    <2>3. r.id = 1
      BY <1>1, <2>1 DEF GoodRead
    <2> HIDE DEF r, q
    <2>4. GoodRead(Compares, q) /\ UnderWay(r)
      BY <1>1, <2>1, <2>2, <2>3 DEF GoodRead, UnderWay, Executing
    <2>5. OneInStep(UniqueIntValue, display, r) => OneInStep(UniqueIntValue, display, q)
      BY <2>1, <2>2 DEF OneInStep, Counted, Executing, Comparing
    <2>6. InStep /\ ~q.failed =>
             /\ display.misses = 0
             /\ OneInStep(UniqueIntValue, display, q)
             /\ \/ display.first \/ display.last = UniqueIntValue
                \/ Counted(q) \/ q.client = "remember"
      BY <1>4, <2>1, <2>3, <2>5 DEF InStep, OneInStep
    <2>7. ReadType' /\ GoodReads' /\ OverlapsKnown' /\ HandlersInTime'
      BY <1>1, <1>2, <2>1, <2>2, <2>4, ReadMoves DEF r, Executing
    <2>8. CleanInStep'
      BY <1>2, <2>1, <2>2, <2>3, <2>4, <2>6, OneReadMoves DEF r
    <2>9. WindowKept'
      <3>1. reads[n].client # "print"
        BY <1>1, <2>3 DEF GoodRead, Timing, r
      <3> QED  BY <1>2, <2>1, <2>2, <3>1, WindowStays
    <2> QED  BY <2>7, <2>8, <2>9 DEF ReadInv
  <1>6. CASE StoreUniqueIntValue(n)
    <2> DEFINE q == [r EXCEPT !.server = "value"]
    <2>1. /\ r.server = "store" /\ reads' = [reads EXCEPT ![n] = q]
          /\ UniqueIntValue' = r.value + 1
      BY <1>6 DEF StoreUniqueIntValue
    <2>2. /\ q \in ReadRecord /\ q.id = r.id /\ q.client = r.client /\ q.server = "value"
          /\ q.value = r.value /\ q.failed = r.failed /\ q.shown = r.shown
      BY <1>1 DEF ReadRecord, Executing
    <2>3. r.id = 1
      BY <1>1, <2>1 DEF GoodRead
    <2> HIDE DEF r, q
    <2>4. GoodRead(Compares, q) /\ UnderWay(r)
      BY <1>1, <2>1, <2>2, <2>3 DEF GoodRead, UnderWay, Executing
    <2>5. OneInStep(UniqueIntValue, display, r) => OneInStep(UniqueIntValue', display, q)
      <3>1. display.last \in Int
        BY <1>1
      <3> QED  BY <1>1, <2>1, <2>2, <3>1 DEF OneInStep, Counted, Executing, Comparing
    <2>6. InStep /\ ~q.failed =>
             /\ display'.misses = 0
             /\ OneInStep(UniqueIntValue', display', q)
             /\ \/ display'.first \/ display'.last = UniqueIntValue'
                \/ Counted(q) \/ q.client = "remember"
      BY <1>2, <1>4, <2>2, <2>3, <2>5 DEF InStep, Counted
    <2>7. UniqueIntValue' \in Int
      BY <1>3, <2>1
    <2>8. ReadType' /\ GoodReads' /\ OverlapsKnown' /\ HandlersInTime'
      BY <1>1, <1>2, <2>1, <2>2, <2>4, <2>7, ReadMoves DEF r, Executing
    <2>9. CleanInStep'
      BY <1>2, <2>1, <2>2, <2>3, <2>4, <2>6, OneReadMoves DEF r
    <2>10. WindowKept'
      <3>1. reads[n].client # "print"
        BY <1>1, <2>3 DEF GoodRead, Timing, r
      <3> QED  BY <1>2, <2>1, <2>2, <3>1, WindowStays
    <2> QED  BY <2>8, <2>9, <2>10 DEF ReadInv
  <1>7. CASE ReturnValue(n)
    <2> DEFINE q == [r EXCEPT !.server = "answered", !.value = UniqueIntValue]
    <2>1. r.server = "value" /\ reads' = [reads EXCEPT ![n] = q] /\ UNCHANGED UniqueIntValue
      BY <1>7 DEF ReturnValue
    <2>2. /\ q \in ReadRecord /\ q.id = r.id /\ q.client = r.client /\ q.server = "answered"
          /\ q.value = UniqueIntValue /\ q.failed = r.failed /\ q.shown = r.shown
      BY <1>1 DEF ReadRecord, Executing
    <2> HIDE DEF r, q
    <2>3. GoodRead(Compares, q) /\ UnderWay(r)
      BY <1>1, <2>1, <2>2 DEF GoodRead, UnderWay, Executing
    <2>4. ReadType' /\ GoodReads' /\ OverlapsKnown' /\ HandlersInTime'
      BY <1>1, <1>2, <2>1, <2>2, <2>3, ReadMoves DEF r, Executing
    <2>5. CleanInStep'
      <3>1. CASE r.id # 1
        BY <1>2, <2>1, <2>2, <3>1, OtherReadMoves DEF r
      <3>2. CASE r.id = 1
        <4>1. OneInStep(UniqueIntValue, display, r) =>
                OneInStep(UniqueIntValue, display, q) /\ Counted(q)
          BY <2>1, <2>2 DEF OneInStep, Counted, Executing, Comparing
        <4>2. InStep /\ ~q.failed =>
                 /\ display'.misses = 0
                 /\ OneInStep(UniqueIntValue', display', q)
                 /\ \/ display'.first \/ display'.last = UniqueIntValue'
                    \/ Counted(q) \/ q.client = "remember"
          BY <1>2, <1>4, <2>1, <3>2, <4>1 DEF InStep
        <4> QED  BY <1>2, <2>1, <2>2, <2>3, <3>2, <4>2, OneReadMoves DEF r
      <3> QED  BY <3>1, <3>2
    <2>6. WindowKept'
      <3>1. CASE reads[n].client # "print"
        BY <1>2, <2>1, <2>2, <3>1, WindowStays
      <3>2. CASE reads[n].client = "print"
        <4>1. reads'[n].client = "print" /\ n \in 1..Len(reads')
          BY <1>1, <2>1, <2>2, <3>2, ReadChanged DEF r
        <4> QED  BY <1>2, <4>1 DEF ReadInv, WindowKept
      <3> QED  BY <3>1, <3>2
    <2> QED  BY <2>4, <2>5, <2>6 DEF ReadInv
  <1> QED  BY <1>5, <1>6, <1>7 DEF OnReadServer

(* A read is complete, with an answer or without.                          *)
LEMMA CompleteReadInv ==
    ASSUME ReadInv, NEW n \in 1..Len(reads), CompleteRead(n)
    PROVE  ReadInv'
  <1> DEFINE r == reads[n]
             v == IF r.server = "answered" /\ r.id = 1 THEN r.value ELSE 0
             f == (r.server # "answered")
             p == CASE r.id = DebugLatencyChannel -> "time"
                    [] r.id = 1 /\ ReadClient.show /\ ReadClient.sequential -> "compare"
                    [] OTHER -> "done"
             q == [r EXCEPT !.shown = v, !.failed = f, !.client = p]
  <1>1. /\ r \in ReadRecord /\ reads \in Seq(ReadRecord) /\ UniqueIntValue \in Int
        /\ display \in [first : BOOLEAN, last : Int, misses : Nat] /\ GoodRead(Compares, r)
        /\ Compares \/ display.first
    BY ElementIs DEF ReadInv, ReadType, GoodReads
  <1>a. /\ reads' = [reads EXCEPT ![n].shown = v, ![n].failed = f, ![n].client = p]
        /\ r.client = "waiting"
        /\ UNCHANGED <<readArguments, reader, readServer, UniqueIntValue, readWindow, display, overlaps>>
    BY Zenon DEF CompleteRead
  <1>3. /\ r.id \in Int /\ v \in Int /\ f \in BOOLEAN
        /\ p \in {"time", "compare", "done"}
        /\ p = "time" <=> r.id = 0
        /\ p = "compare" <=> r.id = 1 /\ Compares
    <2>1. r.id \in Int /\ v \in Int
      BY <1>1 DEF ReadRecord
    <2>2. CASE r.id = 0
      BY <2>1, <2>2 DEF DebugLatencyChannel
    <2>3. CASE r.id = 1 /\ Compares
      BY <2>1, <2>3 DEF DebugLatencyChannel, Compares
    <2>4. CASE r.id # 0 /\ ~(r.id = 1 /\ Compares)
      BY <2>1, <2>4 DEF DebugLatencyChannel, Compares
    <2> QED  BY <2>1, <2>2, <2>3, <2>4
  <1> HIDE DEF p, v, f
  <1>2. /\ r.client = "waiting" /\ reads' = [reads EXCEPT ![n] = q]
        /\ UNCHANGED <<readArguments, reader, readServer, UniqueIntValue, readWindow, display, overlaps>>
    BY <1>a
  <1>4. /\ q \in ReadRecord /\ q.id = r.id /\ q.client = p /\ q.server = r.server
        /\ q.value = r.value /\ q.failed = f /\ q.shown = v
    BY <1>1, <1>3 DEF ReadRecord, Timing, Comparing, Resting
  <1>5. r.id = 1 /\ InStep => OneInStep(UniqueIntValue, display, r)
    BY DEF InStep
  <1> HIDE DEF r, q
  <1>6. GoodRead(Compares, q) /\ UnderWay(r)
    BY <1>1, <1>2, <1>3, <1>4 DEF GoodRead, UnderWay, Timing, Comparing, Executing
  <1>7. ReadType' /\ GoodReads' /\ OverlapsKnown' /\ HandlersInTime'
    BY <1>1, <1>2, <1>4, <1>6, ReadMoves DEF r, Resting
  <1>8. WindowKept'
    BY <1>2, <1>4, WindowStays DEF r
  <1>9. CleanInStep'
    <2>1. CASE r.id # 1
      BY <1>2, <1>4, <2>1, OtherReadMoves DEF r
    <2>2. CASE r.id = 1
      <3>1. ASSUME OneInStep(UniqueIntValue, display, r), ~f
            PROVE  OneInStep(UniqueIntValue, display, q)
        <4>1. r.server = "answered" /\ v = UniqueIntValue
          BY <1>2, <2>2, <3>1 DEF f, v, OneInStep
        <4>2. Counted(r)
          BY <1>2, <4>1 DEF Counted
        <4> QED  BY <1>3, <1>4, <3>1, <4>1, <4>2 DEF OneInStep, Counted, Executing, Comparing
      <3>2. ASSUME ~f, ~(p = "compare") PROVE display.first
        BY <1>1, <1>3, <2>2, <3>2
      <3>3. ~f /\ p = "compare" => Counted(q)
        BY <1>4 DEF Counted, f
      <3>4. ~r.failed
        BY <1>1, <1>2 DEF GoodRead
      <3>5. InStep /\ ~q.failed =>
               /\ display'.misses = 0
               /\ OneInStep(UniqueIntValue', display', q)
               /\ \/ display'.first \/ display'.last = UniqueIntValue'
                  \/ Counted(q) \/ q.client = "remember"
        BY <1>2, <1>4, <1>5, <2>2, <3>1, <3>2, <3>3 DEF InStep
      <3> QED  BY <1>2, <1>4, <1>6, <2>2, <3>4, <3>5, OneReadMoves DEF r
    <2> QED  BY <2>1, <2>2
  <1> QED  BY <1>7, <1>8, <1>9 DEF ReadInv

(* A callback of the latency channel: another one that is between storing  *)
(* and printing would be an overlap.                                       *)
LEMMA TimeReadInv ==
    ASSUME ReadInv, NEW n \in 1..Len(reads), OnReadClient(n), TimeRead(n)
    PROVE  ReadInv'
  <1> DEFINE r == reads[n]
  <1>1. /\ r \in ReadRecord /\ reads \in Seq(ReadRecord) /\ UniqueIntValue \in Int
        /\ display \in [first : BOOLEAN, last : Int, misses : Nat] /\ GoodRead(Compares, r)
        /\ Compares \/ display.first
    BY ElementIs DEF ReadInv, ReadType, GoodReads
  <1>2. /\ r.client \in Timing
        /\ UNCHANGED <<readArguments, reader, readServer, UniqueIntValue, display, overlaps>>
    BY DEF OnReadClient, TimeRead, Timing
  <1>3. r.id = 0 /\ UnderWay(r)
    BY <1>1, <1>2 DEF GoodRead, UnderWay, Timing
  <1>4. ASSUME 0 \notin overlaps, r.client # "print" PROVE GoodWindow(readWindow)
    <2>1. ASSUME NEW m \in 1..Len(reads), reads[m].client = "print" PROVE FALSE
      <3>1. m # n
        BY <1>4, <2>1
      <3>2. reads[m].id = 0 /\ UnderWay(reads[m])
        BY <2>1 DEF ReadInv, GoodReads, GoodRead, UnderWay, Timing
      <3> QED  BY <1>3, <1>4, <3>1, <3>2 DEF ReadInv, OverlapsKnown
    <2> QED  BY <1>4, <2>1 DEF ReadInv, WindowKept, GoodWindow
  <1>5. ASSUME NEW p \in {"keep", "print", "done"}, reads' = [reads EXCEPT ![n].client = p]
        PROVE  /\ ReadType' /\ GoodReads' /\ OverlapsKnown' /\ HandlersInTime' /\ CleanInStep'
               /\ n \in 1..Len(reads') /\ reads'[n].client = p
    <2> DEFINE q == [r EXCEPT !.client = p]
    <2>1. reads' = [reads EXCEPT ![n] = q]
      BY <1>5
    <2>2. /\ q \in ReadRecord /\ q.id = r.id /\ q.client = p /\ q.server = r.server
          /\ q.failed = r.failed
      BY <1>1, <1>5 DEF ReadRecord, Timing, Comparing, Resting
    <2> HIDE DEF q, r
    <2>3. GoodRead(Compares, q)
      BY <1>1, <1>3, <1>5, <2>2 DEF GoodRead, Timing, Comparing
    <2>4. ReadType' /\ GoodReads' /\ OverlapsKnown' /\ HandlersInTime'
      BY <1>1, <1>2, <1>3, <2>1, <2>2, <2>3, ReadMoves DEF r, Resting, Timing
    <2>5. CleanInStep'
      <3>1. q.id = reads[n].id /\ q.id # 1
        BY <1>3, <2>2 DEF r
      <3> QED  BY <1>2, <2>1, <2>2, <3>1, OtherReadMoves
    <2> QED  BY <1>1, <2>1, <2>2, <2>4, <2>5, ReadChanged
  <1>6. CASE r.client = "time"
    <2>1. PICK skewed \in BOOLEAN :
             /\ readWindow' = IF skewed THEN SkipSlot(readWindow) ELSE readWindow
             /\ reads' = [reads EXCEPT ![n].client = "keep"]
      BY <1>6 DEF TimeRead
    <2>2. WindowKept'
      BY <1>2, <1>4, <1>6, <2>1, SkipSlotGood DEF WindowKept, GoodWindow
    <2> QED  BY <1>5, <2>1, <2>2 DEF ReadInv
  <1>7. CASE r.client = "keep"
    <2>1. /\ readWindow' = StoreTravelTime(readWindow)
          /\ reads' = [reads EXCEPT ![n].client = "print"]
      BY <1>7 DEF TimeRead
    <2>2. WindowKept'
      BY <1>2, <1>4, <1>5, <1>7, <2>1, StoreTravelTimeStored DEF WindowKept
    <2> QED  BY <1>5, <2>1, <2>2 DEF ReadInv
  <1>8. CASE r.client = "print"
    <2>1. /\ readWindow' = PrintWhenFull(readWindow)
          /\ reads' = [reads EXCEPT ![n].client = "done"]
      BY <1>8 DEF TimeRead
    <2>2. WindowKept'
      BY <1>2, <2>1, PrintWhenFullGood DEF ReadInv, WindowKept, GoodWindow
    <2> QED  BY <1>5, <2>1, <2>2 DEF ReadInv
  <1> QED  BY <1>2, <1>6, <1>7, <1>8 DEF Timing

(* The sequence test of parameter 1.                                       *)
LEMMA CompareReadInv ==
    ASSUME ReadInv, NEW n \in 1..Len(reads), OnReadClient(n), CompareRead(n)
    PROVE  ReadInv'
  <1> DEFINE r == reads[n]
             Display == [first : BOOLEAN, last : Int, misses : Nat]
  <1>1. /\ r \in ReadRecord /\ reads \in Seq(ReadRecord) /\ UniqueIntValue \in Int
        /\ display \in Display /\ GoodRead(Compares, r)
    BY ElementIs DEF ReadInv, ReadType, GoodReads
  <1>a. r.shown \in Int /\ r.id \in Int /\ r.failed \in BOOLEAN
    BY <1>1 DEF ReadRecord
  <1>2. /\ r.client \in Comparing
        /\ UNCHANGED <<readArguments, reader, readServer, UniqueIntValue, readWindow, overlaps>>
    BY DEF OnReadClient, CompareRead, Comparing
  <1>3. r.id = 1 /\ UnderWay(r) /\ Compares
    BY <1>1, <1>2 DEF GoodRead, UnderWay, Comparing, Executing
  <1>4. InStep => OneInStep(UniqueIntValue, display, r) /\ display.misses = 0
    BY <1>3 DEF InStep
  <1>5. ASSUME NEW q \in ReadRecord, q.id = r.id, q.server = r.server, q.failed = r.failed,
               q.client \in {"remember", "done"}, reads' = [reads EXCEPT ![n] = q],
               display' \in Display,
               InStep =>
                 /\ display'.misses = 0
                 /\ OneInStep(UniqueIntValue', display', q)
                 /\ \/ display'.first \/ display'.last = UniqueIntValue'
                    \/ Counted(q) \/ q.client = "remember"
        PROVE  ReadInv'
    <2>1. GoodRead(Compares, q)
      BY <1>1, <1>3, <1>5 DEF GoodRead, Timing, Comparing
    <2>2. ReadType' /\ GoodReads' /\ OverlapsKnown' /\ HandlersInTime'
      BY <1>1, <1>2, <1>3, <1>5, <2>1, ReadMoves DEF Resting, Comparing
    <2>3. CleanInStep'
      BY <1>2, <1>3, <1>5, OneReadMoves
    <2>4. WindowKept'
      BY <1>2, <1>5, WindowStays DEF Comparing
    <2> QED  BY <2>2, <2>3, <2>4 DEF ReadInv
  <1>6. CASE r.client = "compare"
    <2> DEFINE q == [r EXCEPT !.client = "remember"]
    <2>1. /\ reads' = [reads EXCEPT ![n] = q]
          /\ display' = IF display.first THEN [display EXCEPT !.first = FALSE, !.last = r.shown]
                        ELSE IF display.last + 1 # r.shown THEN [display EXCEPT !.misses = @ + 1]
                        ELSE display
      BY <1>6 DEF CompareRead
    <2>2. /\ q \in ReadRecord /\ q.id = r.id /\ q.client = "remember" /\ q.server = r.server
          /\ q.failed = r.failed /\ q.shown = r.shown /\ q.value = r.value
      BY <1>1 DEF ReadRecord, Timing, Comparing, Resting
    <2>3. display' \in Display
      <3>1. CASE display.first
        BY <1>1, <1>a, <2>1, <3>1
      <3>2. CASE ~display.first /\ display.last + 1 # r.shown
        BY <1>1, <2>1, <3>2
      <3>3. CASE ~display.first /\ display.last + 1 = r.shown
        BY <1>1, <2>1, <3>3
      <3> QED  BY <3>1, <3>2, <3>3
    <2> HIDE DEF q, r
    <2>4. ASSUME InStep
          PROVE  display'.misses = 0 /\ OneInStep(UniqueIntValue', display', q)
      <3>1. r.server = "answered" /\ r.shown = UniqueIntValue
            /\ (display.first \/ display.last + 1 = UniqueIntValue)
        BY <1>4, <1>6, <2>4 DEF OneInStep, Counted, Comparing
      <3>2. display'.misses = 0
        BY <1>1, <1>4, <2>1, <2>4, <3>1
      <3>3. OneInStep(UniqueIntValue', display', q)
        BY <1>2, <2>2, <3>1 DEF OneInStep, Counted, Comparing, Executing
      <3> QED  BY <3>2, <3>3
    <2> QED  BY <1>5, <2>1, <2>2, <2>3, <2>4
  <1>7. CASE r.client = "remember"
    <2> DEFINE q == [r EXCEPT !.client = "done", !.shown = 0]
    <2>1. /\ reads' = [reads EXCEPT ![n] = q]
          /\ display' = [display EXCEPT !.last = r.shown]
      BY <1>7 DEF CompareRead
    <2>2. /\ q \in ReadRecord /\ q.id = r.id /\ q.client = "done" /\ q.server = r.server
          /\ q.failed = r.failed
      <3>1. /\ q = [r EXCEPT !.client = "done", !.shown = 0]
            /\ "done" \in Resting /\ 0 \in Int
        BY DEF Resting
      <3> QED  BY <1>1, <3>1 DEF ReadRecord
    <2>3. display' \in Display /\ display'.misses = display.misses /\ display'.last = r.shown
      BY <1>1, <1>a, <2>1
    <2> HIDE DEF q, r
    <2>4. ASSUME InStep
          PROVE  /\ display'.misses = 0 /\ OneInStep(UniqueIntValue', display', q)
                 /\ display'.last = UniqueIntValue'
      <3>1. r.server = "answered" /\ r.shown = UniqueIntValue
        BY <1>4, <1>7, <2>4 DEF OneInStep, Comparing
      <3>2. OneInStep(UniqueIntValue', display', q)
        BY <2>2, <3>1 DEF OneInStep, Counted, Comparing, Executing
      <3> QED  BY <1>2, <1>4, <2>3, <2>4, <3>1, <3>2
    <2> QED  BY <1>5, <2>1, <2>2, <2>3, <2>4
  <1> QED  BY <1>2, <1>6, <1>7 DEF Comparing

(* A thread of the pool sends a read: if another read of the parameter is  *)
(* under way the two overlap from here on.                                 *)
LEMMA SendReadInv ==
    ASSUME ReadInv, NEW n \in 1..Len(reads), SendRead(n)
    PROVE  ReadInv'
  <1> DEFINE r == reads[n]
             p == CASE readServer # "serving" -> "none"
                    [] readServer = "serving" /\ ~Served(reads[n].id) -> "refused"
                    [] OTHER -> FirstStep(reads[n].id)
             q == [r EXCEPT !.client = "waiting", !.server = p]
             more == {reads[m].id : m \in {k \in DOMAIN reads \ {n} :
                                      UnderWay(reads[k]) /\ reads[k].id = reads[n].id}}
  <1>1. /\ r \in ReadRecord /\ reads \in Seq(ReadRecord) /\ UniqueIntValue \in Int
        /\ display \in [first : BOOLEAN, last : Int, misses : Nat] /\ GoodRead(Compares, r)
        /\ Compares \/ display.first
    BY ElementIs DEF ReadInv, ReadType, GoodReads
  <1>a. /\ reads' = [reads EXCEPT ![n].client = "waiting", ![n].server = p]
        /\ r.client = "posted" /\ overlaps' = overlaps \cup more
        /\ reader.at \in {"loop", "reading"}
        /\ UNCHANGED <<readArguments, reader, readServer, UniqueIntValue, readWindow, display>>
    BY Zenon DEF SendRead
  <1>3. /\ p \in {"none", "refused", "increment", "value"}
        /\ p \in {"increment", "value"} => readServer = "serving"
        /\ p = "increment" => r.id = 1
        /\ r.id = 1 => p # "value"
    <2>1. CASE readServer # "serving"
      BY <2>1
    <2>2. CASE readServer = "serving" /\ ~Served(reads[n].id)
      BY <2>2
    <2>3. CASE readServer = "serving" /\ Served(reads[n].id)
      BY <2>3 DEF FirstStep
    <2> QED  BY <2>1, <2>2, <2>3
  <1>b. \A k \in 1..Len(reads) :
           k # n /\ UnderWay(reads[k]) /\ reads[k].id = reads[n].id => reads[n].id \in more
    BY <1>1
  <1> HIDE DEF p, more
  <1>2. reads' = [reads EXCEPT ![n] = q]
    BY <1>a
  <1>4. /\ q \in ReadRecord /\ q.id = r.id /\ q.client = "waiting" /\ q.server = p
        /\ q.value = r.value /\ q.failed = r.failed /\ q.shown = r.shown
    BY <1>1, <1>3 DEF ReadRecord, Executing
  <1>5. /\ reads' \in Seq(ReadRecord) /\ Len(reads') = Len(reads) /\ reads'[n] = q
        /\ \A m \in 1..Len(reads) : m # n => reads'[m] = reads[m]
    BY <1>1, <1>2, <1>4, ReadChanged
  <1>6. Compares' = Compares
    BY <1>a DEF Compares, ReadClient
  <1> HIDE DEF q
  <1>7. ReadType'
    BY <1>a, <1>5 DEF ReadInv, ReadType
  <1>8. GoodReads'
    <2>1. GoodRead(Compares, q)
      BY <1>1, <1>a, <1>3, <1>4 DEF GoodRead, Timing, Comparing
    <2> QED  BY <1>a, <1>5, <1>6, <2>1 DEF ReadInv, GoodReads
  <1>9. OverlapsKnown'
    <2>1. SUFFICES ASSUME NEW k \in 1..Len(reads), NEW m \in 1..Len(reads), k # m,
                          UnderWay(reads'[k]), UnderWay(reads'[m]), reads'[k].id = reads'[m].id
                   PROVE  reads'[k].id \in overlaps'
      BY <1>5 DEF OverlapsKnown
    <2>2. CASE k # n /\ m # n
      BY <1>a, <1>5, <2>1, <2>2 DEF ReadInv, OverlapsKnown
    <2>3. CASE k = n
      BY <1>a, <1>b, <1>4, <1>5, <2>1, <2>3
    <2>4. CASE m = n
      BY <1>a, <1>b, <1>4, <1>5, <2>1, <2>4
    <2> QED  BY <2>2, <2>3, <2>4
  <1>10. WindowKept'
    <2>1. \A m \in 1..Len(reads) : reads[m].client = "print" => reads'[m].client = "print"
      BY <1>a, <1>5
    <2> QED  BY <1>a, <1>5, <2>1 DEF ReadInv, WindowKept
  <1>11. HandlersInTime'
    <2>1. q.server \in Executing => readServer = "serving"
      BY <1>3, <1>4 DEF Executing
    <2> QED  BY <1>a, <1>4, <1>5, <2>1 DEF ReadInv, HandlersInTime
  <1>12. CleanInStep'
    <2> SUFFICES ASSUME Clean' PROVE InStep'
      BY DEF CleanInStep
    <2>1. \A m \in 1..Len(reads) : /\ reads'[m].id = reads[m].id
                                   /\ reads'[m].failed = reads[m].failed
                                   /\ m # n => reads'[m] = reads[m]
      BY <1>4, <1>5
    <2>2. Clean
      BY <1>a, <1>5, <2>1 DEF Clean
    <2>3. InStep
      BY <2>2 DEF ReadInv, CleanInStep
    <2>4. CASE r.id # 1
      <3>1. \A m \in 1..Len(reads) : reads[m].id = 1 => reads'[m] = reads[m]
        BY <1>5, <2>4
      <3> QED  BY <1>a, <1>5, <2>1, <2>3, <3>1 DEF InStep
    <2>5. CASE r.id = 1
      <3>1. OneInStep(UniqueIntValue, display, r)
        BY <2>3, <2>5 DEF InStep
      <3>2. ~UnderWay(r)
        <4>1. r.server \notin Executing
          BY <1>a, <3>1 DEF OneInStep
        <4> QED  BY <1>a, <4>1 DEF UnderWay
      <3>3. \A k \in 1..Len(reads) : k # n /\ reads[k].id = 1 => ~UnderWay(reads[k])
        BY <1>a, <1>b, <1>5, <2>5 DEF Clean
      <3>4. \A k \in 1..Len(reads) :
               reads[k].id = 1 => ~(Counted(reads[k]) \/ reads[k].client = "remember")
        <4>1. \A k \in 1..Len(reads) : reads[k].id = 1 => ~UnderWay(reads[k])
          BY <3>2, <3>3
        <4> QED  BY <4>1 DEF UnderWay, Counted, Executing
      <3>5. display.first \/ display.last = UniqueIntValue
        BY <2>3, <3>4 DEF InStep
      <3>6. OneInStep(UniqueIntValue, display, q)
        BY <1>3, <1>4, <2>5, <3>5 DEF OneInStep, Counted, Executing, Comparing
      <3> QED  BY <1>a, <1>5, <2>1, <2>3, <3>5, <3>6 DEF InStep
    <2> QED  BY <2>4, <2>5
  <1> QED  BY <1>7, <1>8, <1>9, <1>10, <1>11, <1>12 DEF ReadInv

(* The parameters of a round are numbers.                                  *)
LEMMA ReadIdentitiesType ==
    ASSUME readArguments \in ReadArguments
    PROVE  ReadIdentities \in Seq(Int)
  <1> DEFINE a == IF ReadClient.parms < 1 THEN <<>> ELSE [i \in 1..ReadClient.parms |-> i]
             b == IF readArguments.DEBUG_TIMING THEN <<DebugLatencyChannel>> ELSE <<>>
  <1>1. ReadClient.parms \in Int
    BY ReadAssumption DEF ReadClient, ReadClientMain
  <1>2. a \in Seq(Int)
    BY <1>1
  <1>3. b \in Seq(Int)
    BY DEF DebugLatencyChannel
  <1>4. ReadIdentities = a \o b
    BY DEF ReadIdentities
  <1> HIDE DEF a, b
  <1> QED  BY <1>2, <1>3, <1>4

(* Read posts a task.                                                      *)
LEMMA PostReadInv ==
    ASSUME ReadInv, PostRead
    PROVE  ReadInv'
  <1>1. /\ reads \in Seq(ReadRecord) /\ reader.at = "reading" /\ reader.left \in Seq(Int)
        /\ reader \in [at : {"start", "loop", "reading", "stopping", "ended"}, left : Seq(Int)]
    BY DEF ReadInv, ReadType, PostRead
  <1>2. UNCHANGED <<readArguments, readServer, UniqueIntValue, readWindow, display, overlaps>>
    BY DEF PostRead
  <1>3. Compares' = Compares
    BY <1>2 DEF Compares, ReadClient
  <1>4. CASE reader.left = <<>>
    <2>1. reads' = reads /\ reader' = [reader EXCEPT !.at = "loop"]
      BY <1>4 DEF PostRead
    <2>2. /\ reader' \in [at : {"start", "loop", "reading", "stopping", "ended"}, left : Seq(Int)]
          /\ reader'.at = "loop"
      BY <1>1, <2>1
    <2>3. ReadType' /\ HandlersInTime'
      BY <1>2, <2>1, <2>2 DEF ReadInv, ReadType, HandlersInTime
    <2>4. GoodReads' /\ OverlapsKnown' /\ WindowKept'
      BY <1>2, <1>3, <2>1 DEF ReadInv, GoodReads, OverlapsKnown, WindowKept
    <2>5. CleanInStep'
      BY <1>2, <2>1 DEF ReadInv, CleanInStep, Clean, InStep
    <2> QED  BY <2>3, <2>4, <2>5 DEF ReadInv
  <1>5. CASE reader.left # <<>>
    <2> DEFINE q == [id |-> Head(reader.left), client |-> "posted", server |-> "none",
                     value |-> 0, shown |-> 0, failed |-> FALSE]
    <2>1. reads' = Append(reads, q) /\ reader' = [reader EXCEPT !.left = Tail(@)]
      BY <1>5 DEF PostRead
    <2>2. Head(reader.left) \in Int /\ Tail(reader.left) \in Seq(Int)
      BY <1>1, <1>5
    <2>3. /\ reader' \in [at : {"start", "loop", "reading", "stopping", "ended"}, left : Seq(Int)]
          /\ reader'.at = "reading"
      BY <1>1, <2>1, <2>2
    <2>4. /\ q \in ReadRecord /\ q.client = "posted" /\ q.server = "none" /\ q.failed = FALSE
      BY <2>2 DEF ReadRecord, Resting
    <2> HIDE DEF q
    <2>5. /\ reads' \in Seq(ReadRecord) /\ Len(reads') = Len(reads) + 1
          /\ reads'[Len(reads) + 1] = q
          /\ \A m \in 1..Len(reads) : m \in 1..Len(reads') /\ reads'[m] = reads[m]
      BY <1>1, <2>1, <2>4
    <2>6. \A m \in 1..Len(reads') : m \in 1..Len(reads) \/ m = Len(reads) + 1
      BY <1>1, <2>5
    <2>7. ReadType'
      BY <1>2, <2>3, <2>5 DEF ReadInv, ReadType
    <2>8. GoodReads'
      <3>1. GoodRead(Compares, q)
        BY <2>4 DEF GoodRead, Timing, Comparing
      <3> QED  BY <1>2, <1>3, <2>5, <2>6, <3>1 DEF ReadInv, GoodReads
    <2>9. ~UnderWay(q) /\ q.server \notin Executing
      BY <2>4 DEF UnderWay, Executing
    <2>10. OverlapsKnown'
      <3>1. SUFFICES ASSUME NEW k \in 1..Len(reads'), NEW m \in 1..Len(reads'), k # m,
                            UnderWay(reads'[k]), UnderWay(reads'[m]), reads'[k].id = reads'[m].id
                     PROVE  reads'[k].id \in overlaps'
        BY DEF OverlapsKnown
      <3>2. k \in 1..Len(reads) /\ m \in 1..Len(reads)
        BY <2>5, <2>6, <2>9, <3>1
      <3> QED  BY <1>2, <2>5, <3>1, <3>2 DEF ReadInv, OverlapsKnown
    <2>11. WindowKept'
      BY <1>2, <2>5 DEF ReadInv, WindowKept
    <2>12. HandlersInTime'
      BY <1>2, <2>3, <2>5, <2>6, <2>9 DEF ReadInv, HandlersInTime
    <2>13. CleanInStep'
      <3>1. Clean' => Clean
        BY <1>2, <2>5 DEF Clean
      <3>2. OneInStep(UniqueIntValue, display, q)
        BY <2>4 DEF OneInStep, Counted, Executing, Comparing
      <3>3. ASSUME InStep PROVE InStep'
        <4>1. display'.misses = 0
          BY <1>2, <3>3 DEF InStep
        <4>2. \A m \in 1..Len(reads') :
                 reads'[m].id = 1 => OneInStep(UniqueIntValue', display', reads'[m])
          BY <1>2, <2>5, <2>6, <3>2, <3>3 DEF InStep
        <4>3. \/ display'.first \/ display'.last = UniqueIntValue'
              \/ \E m \in 1..Len(reads') :
                    reads'[m].id = 1 /\ (Counted(reads'[m]) \/ reads'[m].client = "remember")
          BY <1>2, <2>5, <3>3 DEF InStep
        <4> QED  BY <4>1, <4>2, <4>3 DEF InStep
      <3> QED  BY <3>1, <3>3 DEF ReadInv, CleanInStep
    <2> QED  BY <2>7, <2>8, <2>10, <2>11, <2>12, <2>13 DEF ReadInv
  <1> QED  BY <1>4, <1>5

(* The client's loop ends: what is posted is forgotten.                    *)
LEMMA LeaveReadClientInv ==
    ASSUME ReadInv, LeaveReadClient
    PROVE  ReadInv'
  <1>1. /\ reads \in Seq(ReadRecord)
        /\ reader \in [at : {"start", "loop", "reading", "stopping", "ended"}, left : Seq(Int)]
    BY DEF ReadInv, ReadType
  <1>2. /\ UNCHANGED <<readArguments, readServer, UniqueIntValue, readWindow, display, overlaps>>
        /\ reader' = [reader EXCEPT !.at = "stopping"]
        /\ reads' = [n \in DOMAIN reads |-> IF reads[n].client = "posted"
                                             THEN [reads[n] EXCEPT !.client = "dropped"]
                                             ELSE reads[n]]
    BY DEF LeaveReadClient
  <1>3. /\ reader' \in [at : {"start", "loop", "reading", "stopping", "ended"}, left : Seq(Int)]
        /\ reader'.at = "stopping"
    BY <1>1, <1>2
  <1>4. ASSUME NEW m \in 1..Len(reads)
        PROVE  /\ reads'[m] \in ReadRecord /\ reads'[m].id = reads[m].id
               /\ reads'[m].server = reads[m].server /\ reads'[m].failed = reads[m].failed
               /\ reads'[m].shown = reads[m].shown /\ reads'[m].value = reads[m].value
               /\ reads[m].client = "posted" => reads'[m].client = "dropped"
               /\ reads[m].client # "posted" => reads'[m] = reads[m]
    <2>1. reads[m] \in ReadRecord /\ m \in DOMAIN reads
      BY <1>1, ElementIs
    <2>2. CASE reads[m].client = "posted"
      <3>1. reads'[m] = [reads[m] EXCEPT !.client = "dropped"] /\ "dropped" \in Resting
        BY <1>2, <2>1, <2>2 DEF Resting
      <3> QED  BY <2>1, <2>2, <3>1 DEF ReadRecord
    <2>3. CASE reads[m].client # "posted"
      BY <1>2, <2>1, <2>3
    <2> QED  BY <2>2, <2>3
  <1>5. reads' \in Seq(ReadRecord) /\ Len(reads') = Len(reads)
    <2>1. Len(reads) \in Nat /\ DOMAIN reads = 1..Len(reads)
      BY <1>1
    <2>2. reads' \in [1..Len(reads) -> ReadRecord]
      BY <1>2, <1>4, <2>1
    <2> QED  BY <2>1, <2>2
  <1>6. Compares' = Compares
    BY <1>2 DEF Compares, ReadClient
  <1>7. ReadType'
    BY <1>2, <1>3, <1>5 DEF ReadInv, ReadType
  <1>8. \A m \in 1..Len(reads) :
           /\ GoodRead(Compares, reads[m]) => GoodRead(Compares, reads'[m])
           /\ UnderWay(reads'[m]) => UnderWay(reads[m])
    <2> SUFFICES ASSUME NEW m \in 1..Len(reads)
                 PROVE  /\ GoodRead(Compares, reads[m]) => GoodRead(Compares, reads'[m])
                        /\ UnderWay(reads'[m]) => UnderWay(reads[m])
      OBVIOUS
    <2>1. CASE reads[m].client # "posted"
      BY <1>4, <2>1
    <2>2. CASE reads[m].client = "posted"
      BY <1>4, <2>2 DEF GoodRead, UnderWay, Timing, Comparing
    <2> QED  BY <2>1, <2>2
  <1>9. GoodReads'
    BY <1>2, <1>5, <1>6, <1>8 DEF ReadInv, GoodReads
  <1>10. OverlapsKnown'
    <2>1. SUFFICES ASSUME NEW k \in 1..Len(reads), NEW m \in 1..Len(reads), k # m,
                          UnderWay(reads'[k]), UnderWay(reads'[m]), reads'[k].id = reads'[m].id
                   PROVE  reads'[k].id \in overlaps'
      BY <1>5 DEF OverlapsKnown
    <2>2. reads'[k].id = reads[k].id /\ reads'[m].id = reads[m].id
      BY <1>4
    <2>3. UnderWay(reads[k]) /\ UnderWay(reads[m]) /\ reads[k].id = reads[m].id
      BY <1>8, <2>1, <2>2
    <2>4. reads[k].id \in overlaps
      BY <2>1, <2>3 DEF ReadInv, OverlapsKnown
    <2> QED  BY <1>2, <2>2, <2>4
  <1>11. WindowKept'
    <2>1. \A m \in 1..Len(reads) : reads[m].client = "print" => reads'[m].client = "print"
      BY <1>4
    <2> QED  BY <1>2, <1>5, <2>1 DEF ReadInv, WindowKept
  <1>12. HandlersInTime'
    BY <1>2, <1>3, <1>4, <1>5 DEF ReadInv, HandlersInTime
  <1>13. CleanInStep'
    <2> SUFFICES ASSUME Clean' PROVE InStep'
      BY DEF CleanInStep
    <2>1. Clean
      BY <1>2, <1>4, <1>5 DEF Clean
    <2>2. InStep
      BY <2>1 DEF ReadInv, CleanInStep
    <2>3. ASSUME NEW m \in 1..Len(reads), reads[m].id = 1
          PROVE  /\ OneInStep(UniqueIntValue, display, reads'[m])
                 /\ Counted(reads[m]) => Counted(reads'[m])
                 /\ reads[m].client = "remember" => reads'[m].client = "remember"
      <3>1. CASE reads[m].client # "posted"
        BY <1>4, <2>2, <2>3, <3>1 DEF InStep
      <3>2. CASE reads[m].client = "posted"
        <4>1. OneInStep(UniqueIntValue, display, reads[m])
          BY <2>2, <2>3 DEF InStep
        <4> QED  BY <1>4, <3>2, <4>1 DEF OneInStep, Counted, Executing, Comparing
      <3> QED  BY <3>1, <3>2
    <2>4. \A m \in 1..Len(reads) : reads'[m].id = reads[m].id
      BY <1>4
    <2>5. \A m \in 1..Len(reads) :
             reads'[m].id = 1 => OneInStep(UniqueIntValue, display, reads'[m])
      BY <2>3, <2>4
    <2>6. \/ display.first \/ display.last = UniqueIntValue
          \/ \E m \in 1..Len(reads) :
                reads'[m].id = 1 /\ (Counted(reads'[m]) \/ reads'[m].client = "remember")
      BY <2>2, <2>3, <2>4 DEF InStep
    <2> QED  BY <1>2, <1>5, <2>2, <2>5, <2>6 DEF InStep
  <1> QED  BY <1>7, <1>9, <1>10, <1>11, <1>12, <1>13 DEF ReadInv

(* The invariant only reads these variables; a step that leaves the reads  *)
(* alone has to respect when the threads may start and end.                *)
LEMMA ReadsAlone ==
    ASSUME ReadInv, HandlersInTime',
           reader' \in [at : {"start", "loop", "reading", "stopping", "ended"}, left : Seq(Int)],
           UNCHANGED <<readArguments, UniqueIntValue, reads, readWindow, display, overlaps>>
    PROVE  ReadInv'
  <1>1. Compares' = Compares
    BY DEF Compares, ReadClient
  <1>2. ReadType'
    BY DEF ReadInv, ReadType
  <1>3. GoodReads' /\ OverlapsKnown' /\ WindowKept'
    BY <1>1 DEF ReadInv, GoodReads, OverlapsKnown, WindowKept
  <1>4. CleanInStep'
    BY DEF ReadInv, CleanInStep, Clean, InStep
  <1> QED  BY <1>2, <1>3, <1>4 DEF ReadInv

(* Every step of the read programs keeps the invariant.                    *)
LEMMA ReadNextInv == ReadInv /\ [ReadNextState]_readVars => ReadInv'
  <1> SUFFICES ASSUME ReadInv, [ReadNextState]_readVars PROVE ReadInv'
    OBVIOUS
  <1> DEFINE ReaderRecord == [at : {"start", "loop", "reading", "stopping", "ended"}, left : Seq(Int)]
  <1>1. /\ reader \in ReaderRecord /\ reads \in Seq(ReadRecord) /\ readArguments \in ReadArguments
        /\ DOMAIN reads = 1..Len(reads) /\ HandlersInTime
    BY DEF ReadInv, ReadType
  <1>2. CASE UNCHANGED readVars
    <2>1. HandlersInTime'
      BY <1>1, <1>2 DEF readVars, HandlersInTime
    <2> QED  BY <1>1, <1>2, <2>1, ReadsAlone DEF readVars
  <1>3. CASE StartReadServer
    <2>1. HandlersInTime'
      BY <1>1, <1>3 DEF StartReadServer, HandlersInTime
    <2> QED  BY <1>1, <1>3, <2>1, ReadsAlone DEF StartReadServer
  <1>4. CASE LeaveReadServer
    <2>1. HandlersInTime'
      BY <1>1, <1>4 DEF LeaveReadServer, HandlersInTime
    <2> QED  BY <1>1, <1>4, <2>1, ReadsAlone DEF LeaveReadServer
  <1>5. CASE EndReadServer
    <2>1. HandlersInTime'
      BY <1>1, <1>5 DEF EndReadServer, HandlersInTime
    <2> QED  BY <1>1, <1>5, <2>1, ReadsAlone DEF EndReadServer
  <1>6. CASE StartReadClient
    <2>1. /\ reader' \in ReaderRecord /\ reader'.at \in {"loop", "ended"} /\ reader.at = "start"
          /\ UNCHANGED <<readArguments, readServer, UniqueIntValue, reads, readWindow, display, overlaps>>
      BY <1>1, <1>6 DEF StartReadClient
    <2>2. HandlersInTime'
      BY <1>1, <2>1 DEF HandlersInTime
    <2> QED  BY <2>1, <2>2, ReadsAlone
  <1>7. CASE BeginReadRound
    <2>1. /\ reader' = [at |-> "reading", left |-> ReadIdentities]
          /\ UNCHANGED <<readArguments, readServer, UniqueIntValue, reads, readWindow, display, overlaps>>
      BY <1>7 DEF BeginReadRound
    <2>2. reader' \in ReaderRecord /\ reader'.at = "reading"
      BY <1>1, <2>1, ReadIdentitiesType
    <2>3. HandlersInTime'
      BY <1>1, <2>1, <2>2 DEF HandlersInTime
    <2> QED  BY <2>1, <2>2, <2>3, ReadsAlone
  <1>8. CASE PostRead
    BY <1>8, PostReadInv
  <1>9. CASE LeaveReadClient
    BY <1>9, LeaveReadClientInv
  <1>10. CASE EndReadClient
    <2>1. /\ reader' \in ReaderRecord /\ reader'.at = "ended"
          /\ UNCHANGED <<readArguments, readServer, UniqueIntValue, reads, readWindow, display, overlaps>>
      BY <1>1, <1>10 DEF EndReadClient
    <2>2. \A n \in 1..Len(reads) : reads[n].client \in Resting
      BY <1>1, <1>10 DEF EndReadClient, Resting
    <2>3. HandlersInTime'
      BY <1>1, <2>1, <2>2 DEF HandlersInTime
    <2> QED  BY <2>1, <2>3, ReadsAlone
  <1>11. ASSUME NEW p \in {"client", "server"}, ExitReadProgram(p) PROVE ReadInv'
    <2>1. HandlersInTime'
      BY <1>1, <1>11 DEF ExitReadProgram, HandlersInTime
    <2> QED  BY <1>1, <1>11, <2>1, ReadsAlone DEF ExitReadProgram
  <1>12. ASSUME NEW n \in DOMAIN reads, ReadStep(n) PROVE ReadInv'
    <2>1. n \in 1..Len(reads)
      BY <1>1
    <2> QED  BY <1>12, <2>1, SendReadInv, OnReadServerInv, CompleteReadInv, TimeReadInv,
                CompareReadInv DEF ReadStep, OnReadClient
  <1> QED  BY <1>2, <1>3, <1>4, <1>5, <1>6, <1>7, <1>8, <1>9, <1>10, <1>11, <1>12 DEF ReadNextState

(* What the invariant is for.                                              *)
LEMMA ReadInvImplies ==
    ReadInv => HandlersFindLocals /\ MissMeansOverlap /\ OverrunNeedsOverlap
  <1> SUFFICES ASSUME ReadInv PROVE HandlersFindLocals /\ MissMeansOverlap /\ OverrunNeedsOverlap
    OBVIOUS
  <1>1. /\ DOMAIN reads = 1..Len(reads) /\ display.misses \in Nat
    BY DEF ReadInv, ReadType
  <1>2. HandlersFindLocals
    BY <1>1 DEF ReadInv, HandlersInTime, HandlersFindLocals, Resting
  <1>3. MissMeansOverlap
    <2>1. Clean => display.misses = 0
      BY DEF ReadInv, CleanInStep, InStep
    <2> QED  BY <1>1, <2>1 DEF MissMeansOverlap, Clean
  <1>4. OverrunNeedsOverlap
    BY DEF ReadInv, WindowKept, StoredWindow, OverrunNeedsOverlap, DebugLatencyChannel
  <1> QED  BY <1>2, <1>3, <1>4

-----------------------------------------------------------------------------
(***************************************************************************)
(* The programs on Fast DDS alone.                                         *)
(***************************************************************************)

(* What is on its way is a value of uint32_t with its bytes.               *)
GoodBox(b) == b = <<>> \/ \E raw \in Uint32 : b = <<[bytes |-> To(raw), raw |-> raw]>>

RawInv ==
    /\ scenario \in Scenarios
    /\ current \in [Names -> Uint32]
    /\ DOMAIN box = Names /\ \A n \in Names : GoodBox(box[n])
    /\ DOMAIN shown = Names
    /\ ShownAsPublished

(* What From reads is what To wrote.                                       *)
LEMMA FromTo ==
    ASSUME NEW raw \in Uint32
    PROVE  From(To(raw)) = raw
  <1> DEFINE p3 == (raw \div (Base * Base * Base)) % Base
             p2 == (raw \div (Base * Base)) % Base
             p1 == (raw \div Base) % Base
             p0 == raw % Base
  <1>1. Base \in Nat \ {0} /\ raw \in Nat /\ raw < Base * Base * Base * Base
    BY RawAssumption DEF Uint32
  <1>2. p3 * (Base * Base * Base) + p2 * (Base * Base) + p1 * Base + p0 = raw
    BY <1>1, FourBytes
  <1>3. To(raw) = <<p3, p2, p1, p0>>
    BY DEF To
  <1> HIDE DEF p3, p2, p1, p0
  <1>4. /\ Len(<<p3, p2, p1, p0>>) = 4
        /\ <<p3, p2, p1, p0>>[1] = p3 /\ <<p3, p2, p1, p0>>[2] = p2
        /\ <<p3, p2, p1, p0>>[3] = p1 /\ <<p3, p2, p1, p0>>[4] = p0
    OBVIOUS
  <1> QED  BY <1>2, <1>3, <1>4 DEF From

(* The values of a range, and what follows a value, are of uint32_t.       *)
LEMMA PublisherRange ==
    ASSUME scenario \in Scenarios, NEW n \in Names
    PROVE  Publisher(n).first \in Uint32
  <1>1. /\ scenario.config[n].min \in Uint32
        /\ scenario.family \in {"baseline", "lockup", "standalone"}
        /\ 0 \in Uint32
    BY RawAssumption DEF Names, Uint32
  <1>2. CASE scenario.family = "baseline"
    <2>1. Publisher(n) = BaselinePublisher(scenario.env, scenario.config[n].min, scenario.config[n].max)
      BY <1>2 DEF Publisher
    <2> QED  BY <1>1, <2>1 DEF BaselinePublisher, Ranged
  <1>3. CASE scenario.family = "lockup"
    <2>1. Publisher(n) = LockupPublisher(scenario.env, scenario.config[n].min, scenario.config[n].max)
      BY <1>3 DEF Publisher
    <2> QED  BY <1>1, <2>1 DEF LockupPublisher, Ranged
  <1>4. CASE scenario.family = "standalone"
    <2>1. Publisher(n) = StandalonePublisher(scenario.env, scenario.config[n].min, scenario.config[n].max)
      BY <1>4 DEF Publisher
    <2> QED  BY <1>1, <2>1 DEF StandalonePublisher, Ranged
  <1> QED  BY <1>1, <1>2, <1>3, <1>4

(* Where the programs begin.                                               *)
LEMMA RawInitInv == RawInit => RawInv
  <1> SUFFICES ASSUME RawInit PROVE RawInv
    OBVIOUS
  <1>1. scenario \in Scenarios /\ current = [n \in Names |-> Publisher(n).first]
    BY DEF RawInit
  <1>2. current \in [Names -> Uint32]
    BY <1>1, PublisherRange
  <1>3. /\ box = [n \in Names |-> <<>>] /\ shown = [n \in Names |-> [value |-> 0, raw |-> 0]]
    BY DEF RawInit
  <1>4. \A n \in Names : GoodBox(box[n])
    BY <1>3 DEF GoodBox
  <1> QED  BY <1>1, <1>2, <1>3, <1>4 DEF RawInv, ShownAsPublished

(* A value that is written has its bytes.                                  *)
LEMMA WriteGood ==
    ASSUME RawInv, NEW n \in Names, NEW raw \in Uint32
    PROVE  GoodBox(Write(n, raw))
  <1>1. GoodBox(box[n])
    BY DEF RawInv
  <1>2. Write(n, raw) \in {box[n], <<[bytes |-> To(raw), raw |-> raw]>>}
    BY DEF Write
  <1> QED  BY <1>1, <1>2 DEF GoodBox

(* Publishers send their values and move on.                               *)
LEMMA PublishRoundInv ==
    ASSUME RawInv, NEW S \in SUBSET Names, PublishRound(S), UNCHANGED <<scenario, shown>>
    PROVE  RawInv'
  <1> DEFINE sent(n) == IF scenario.family = "standalone" THEN PublishStandalone(n)
                        ELSE PublishRanged(n)
  <1>1. /\ box' = [n \in Names |-> IF n \in S THEN sent(n).box ELSE box[n]]
        /\ current' = [n \in Names |-> IF n \in S THEN sent(n).current ELSE current[n]]
    BY DEF PublishRound
  <1>2. ASSUME NEW n \in Names
        PROVE  GoodBox(sent(n).box) /\ sent(n).current \in Uint32
    <2>1. current[n] \in Uint32 /\ scenario \in Scenarios
      BY DEF RawInv
    <2>2. Base * Base * Base * Base \in Nat /\ Base * Base * Base * Base >= 100
      BY RawAssumption
    <2>3. current[n] + 1 \in Nat
      BY <2>1, <2>2 DEF Uint32
    <2>4. CASE scenario.family = "standalone"
      <3> DEFINE next == (current[n] + 1) % 100
      <3>1. next \in Uint32
        BY <2>2, <2>3 DEF Uint32
      <3>2. sent(n) = [box |-> Write(n, next), current |-> next]
        BY <2>4 DEF PublishStandalone
      <3> HIDE DEF next, sent
      <3> QED  BY <3>1, <3>2, WriteGood
    <2>5. CASE scenario.family # "standalone"
      <3> DEFINE next == IF current[n] = Publisher(n).last THEN Publisher(n).first
                         ELSE (current[n] + 1) % (Base * Base * Base * Base)
      <3>1. next \in Uint32
        <4>1. (current[n] + 1) % (Base * Base * Base * Base) \in Uint32
          <5> DEFINE m == Base * Base * Base * Base
          <5>1. m \in Nat \ {0} /\ Uint32 = 0..(m - 1)
            BY <2>2 DEF Uint32
          <5> HIDE DEF m
          <5>2. (current[n] + 1) % m \in 0..(m - 1)
            BY <2>3, <5>1, QuotientRemainder
          <5> QED  BY <5>1, <5>2 DEF m
        <4> QED  BY <2>1, <4>1, PublisherRange
      <3>2. sent(n) = [box |-> Write(n, current[n]), current |-> next]
        BY <2>5 DEF PublishRanged
      <3> HIDE DEF next, sent
      <3> QED  BY <2>1, <3>1, <3>2, WriteGood
    <2> QED  BY <2>4, <2>5
  <1> HIDE DEF sent
  <1>3. Names' = Names
    BY DEF Names
  <1>4. current' \in [Names -> Uint32]
    BY <1>1, <1>2 DEF RawInv
  <1>5. DOMAIN box' = Names /\ \A n \in Names : GoodBox(box'[n])
    BY <1>1, <1>2 DEF RawInv
  <1> QED  BY <1>3, <1>4, <1>5 DEF RawInv, ShownAsPublished

(* A sample is taken and printed.                                          *)
LEMMA OnDataAvailableInv ==
    ASSUME RawInv, NEW n \in Names, OnDataAvailable(n)
    PROVE  RawInv'
  <1>1. /\ box[n] # <<>> /\ box' = [box EXCEPT ![n] = <<>>]
        /\ shown' = [shown EXCEPT ![n] = [value |-> From(box[n][1].bytes), raw |-> box[n][1].raw]]
        /\ UNCHANGED <<scenario, current>>
    BY DEF OnDataAvailable
  <1>2. PICK raw \in Uint32 : box[n] = <<[bytes |-> To(raw), raw |-> raw]>>
    BY <1>1 DEF RawInv, GoodBox
  <1>3. box[n][1].bytes = To(raw) /\ box[n][1].raw = raw
    BY <1>2
  <1>4. shown' = [shown EXCEPT ![n] = [value |-> raw, raw |-> raw]]
    BY <1>1, <1>3, FromTo
  <1>5. Names' = Names
    BY <1>1 DEF Names
  <1>6. DOMAIN box' = Names /\ \A m \in Names : GoodBox(box'[m])
    BY <1>1 DEF RawInv, GoodBox
  <1>7. DOMAIN shown' = Names /\ \A m \in Names : shown'[m].value = shown'[m].raw
    BY <1>4 DEF RawInv, ShownAsPublished
  <1> QED  BY <1>1, <1>5, <1>6, <1>7 DEF RawInv, ShownAsPublished

(* Every step of the programs keeps the invariant.                         *)
LEMMA RawNextInv == RawInv /\ [RawNextState]_rawVars => RawInv'
  <1> SUFFICES ASSUME RawInv, [RawNextState]_rawVars PROVE RawInv'
    OBVIOUS
  <1>1. ASSUME UNCHANGED <<scenario, current, box, shown>> PROVE RawInv'
    BY <1>1 DEF RawInv, Names, ShownAsPublished
  <1>2. CASE UNCHANGED rawVars
    BY <1>1, <1>2 DEF rawVars
  <1>3. CASE StartPublisherMain \/ StartSubscriberMain
    BY <1>1, <1>3 DEF StartPublisherMain, StartSubscriberMain
  <1>4. CASE RunNoThreads
    BY <1>1, <1>4, PublishRoundInv DEF RunNoThreads
  <1>5. ASSUME NEW n \in Names, RunThread(n) PROVE RawInv'
    <2>1. {n} \in SUBSET Names
      OBVIOUS
    <2> QED  BY <1>1, <1>5, <2>1, PublishRoundInv DEF RunThread
  <1>6. ASSUME NEW n \in Names, OnDataAvailable(n) PROVE RawInv'
    BY <1>6, OnDataAvailableInv
  <1>7. ASSUME NEW p \in Processes, TestExiting(p) \/ BlockMain(p) \/ JoinThreads(p) PROVE RawInv'
    BY <1>1, <1>7 DEF TestExiting, BlockMain, JoinThreads
  <1>8. ASSUME NEW p \in Processes, ClearEntities(p) PROVE RawInv'
    <2>1. /\ UNCHANGED <<scenario, current, shown>>
          /\ box' = IF p = "publisher" THEN [n \in Names |-> <<>>] ELSE box
      BY <1>8 DEF ClearEntities
    <2>2. CASE p = "publisher"
      <3>1. box' = [n \in Names |-> <<>>] /\ Names' = Names
        BY <2>1, <2>2 DEF Names
      <3>2. DOMAIN box' = Names /\ \A n \in Names : GoodBox(box'[n])
        BY <3>1 DEF GoodBox
      <3> QED  BY <2>1, <3>1, <3>2 DEF RawInv, ShownAsPublished
    <2>3. CASE p # "publisher"
      BY <1>1, <2>1, <2>3
    <2> QED  BY <2>2, <2>3
  <1>9. ASSUME NEW p \in Processes, NEW t \in {"main", "worker"}, SignalHandler(p, t) PROVE RawInv'
    BY <1>1, <1>9 DEF SignalHandler
  <1>10. ASSUME NEW p \in Processes, NEW t \in {"main", "worker"}, NEW s \in {"SIGUSR1", "SIGUSR2"},
                DeliverSignal(p, t, s)
         PROVE  RawInv'
    BY <1>1, <1>10 DEF DeliverSignal
  <1> QED  BY <1>2, <1>3, <1>4, <1>5, <1>6, <1>7, <1>8, <1>9, <1>10 DEF RawNextState, MainStep

-----------------------------------------------------------------------------
(***************************************************************************)
(* The testers of the command line.                                        *)
(***************************************************************************)

(* Calls whose on_complete has not counted yet, and the threads' progress. *)
Uncounted(t) == {n \in DOMAIN t : t[n] \in {"posted", "printed"}}
CallsType ==
    \E k \in Nat : tried \in [1..k -> {"posted", "printed", "counted", "done"}]

(* pending counts the calls that are not completed, and a call that was    *)
(* counted holds the mutex until it is done.                               *)
CallsCounted ==
    /\ pending = Cardinality(Uncounted(tried))
    /\ \A n \in DOMAIN tried : tried[n] = "counted" => mtx = n

(* Nothing is posted before main waits, and what is posted ends before it  *)
(* goes on.                                                                *)
MainWaits ==
    /\ tester = "parse" => argv \in CommandLines
    /\ tester = "read" => Len(parsed.names) \in Nat
    /\ tester \in {"parse", "pub", "sub", "read", "write", "failed"} => DOMAIN tried = {}
    /\ tester \notin {"wait", "blocked"} => \A n \in DOMAIN tried : tried[n] = "done"

(* The value a parameter of the stress tester had a round ago.             *)
Previous(v) == IF v = 0 THEN ByteMax ELSE v - 1

(* A round has reached parameter k: those before it have the new value,    *)
(* the others that of the round before.                                    *)
StressAt(s, k) ==
    /\ s.left = k..StressCount
    /\ \A i \in 1..StressCount : s.published[i] = IF i < k THEN s.next ELSE Previous(s.next)
    /\ k <= StressCount => s.current = s.next + 1
    /\ k = StressCount + 1 => s.current = IF s.next = ByteMax THEN 0 ELSE s.next + 1
StressCounts ==
    /\ stress \in [current : Nat, next : 0..ByteMax, left : SUBSET (1..StressCount), rounds : Nat,
                   published : [1..StressCount -> Nat]]
    /\ \E k \in 1..(StressCount + 1) : StressAt(stress, k)

TesterInv == CallsType /\ CallsCounted /\ MainWaits /\ StressCounts

(* The tester begins before its command line is parsed.                    *)
LEMMA TesterInitInv == TesterInit => TesterInv
  <1> SUFFICES ASSUME TesterInit PROVE TesterInv
    OBVIOUS
  <1>1. tried = <<>> /\ mtx = 0 /\ pending = 0 /\ tester = "parse" /\ argv \in CommandLines
    BY DEF TesterInit
  <1>2. tried \in [1..0 -> {"posted", "printed", "counted", "done"}] /\ DOMAIN tried = {}
    BY <1>1
  <1>3. CallsType
    BY <1>2 DEF CallsType
  <1>4. CallsCounted
    <2>1. Uncounted(tried) = {}
      BY <1>2 DEF Uncounted
    <2> QED  BY <1>1, <1>2, <2>1, FS_EmptySet DEF CallsCounted
  <1>5. MainWaits
    BY <1>1, <1>2 DEF MainWaits
  <1>6. StressCounts
    <2>1. StressCount \in Nat \ {0} /\ ByteMax \in Nat \ {0}
      BY TesterAssumption
    <2>2. stress = [current |-> 1, next |-> 0, left |-> {}, rounds |-> 0,
                    published |-> [i \in 1..StressCount |-> 0]]
      BY DEF TesterInit
    <2>3. stress \in [current : Nat, next : 0..ByteMax, left : SUBSET (1..StressCount),
                      rounds : Nat, published : [1..StressCount -> Nat]]
      BY <2>1, <2>2
    <2>4. StressAt(stress, StressCount + 1)
      BY <2>1, <2>2 DEF StressAt
    <2> QED  BY <2>1, <2>3, <2>4 DEF StressCounts
  <1> QED  BY <1>3, <1>4, <1>5, <1>6 DEF TesterInv

(* on_complete of a call.                                                  *)
LEMMA OnCompleteInv ==
    ASSUME TesterInv, NEW n \in DOMAIN tried, OnComplete(n)
    PROVE  CallsType' /\ CallsCounted' /\ MainWaits'
  <1> DEFINE Progress == {"posted", "printed", "counted", "done"}
  <1>1. PICK k \in Nat : tried \in [1..k -> Progress]
    BY DEF TesterInv, CallsType
  <1>2. ASSUME NEW p \in Progress, tried' = [tried EXCEPT ![n] = p]
        PROVE  /\ CallsType' /\ DOMAIN tried' = DOMAIN tried /\ tried'[n] = p
               /\ \A m \in DOMAIN tried : m # n => tried'[m] = tried[m]
    <2>1. tried' \in [1..k -> Progress]
      BY <1>1, <1>2
    <2>2. CallsType'
      BY <2>1 DEF CallsType
    <2> QED  BY <1>1, <1>2, <2>2
  <1>3. IsFiniteSet(Uncounted(tried))
    <2>1. IsFiniteSet(1..k)
      BY <1>1, FS_Interval
    <2>2. Uncounted(tried) \subseteq 1..k
      BY <1>1 DEF Uncounted
    <2> QED  BY <2>1, <2>2, FS_Subset
  <1>4. tester # "parse" /\ tester # "read" /\ (tried[n] # "done" => tester \in {"wait", "blocked"})
    BY DEF TesterInv, MainWaits
  <1>5. UNCHANGED <<argv, parsed>>
    BY DEF OnComplete
  <1>6. CASE PrintComplete(n)
    <2>1. /\ tried[n] = "posted" /\ tried' = [tried EXCEPT ![n] = "printed"]
          /\ UNCHANGED <<tester, mtx, pending>>
      BY <1>6 DEF PrintComplete
    <2>2. /\ CallsType' /\ DOMAIN tried' = DOMAIN tried /\ tried'[n] = "printed"
          /\ \A m \in DOMAIN tried : m # n => tried'[m] = tried[m]
      BY <1>2, <2>1
    <2>3. Uncounted(tried') = Uncounted(tried)
      BY <2>1, <2>2 DEF Uncounted
    <2>4. CallsCounted'
      BY <2>1, <2>2, <2>3 DEF TesterInv, CallsCounted
    <2>5. MainWaits'
      BY <1>4, <2>1, <2>2 DEF TesterInv, MainWaits
    <2> QED  BY <2>2, <2>4, <2>5
  <1>7. CASE CountComplete(n)
    <2>1. /\ tried[n] = "printed" /\ tried' = [tried EXCEPT ![n] = "counted"]
          /\ mtx = 0 /\ mtx' = n /\ pending' = pending - 1 /\ UNCHANGED tester
      BY <1>7 DEF CountComplete
    <2>2. /\ CallsType' /\ DOMAIN tried' = DOMAIN tried /\ tried'[n] = "counted"
          /\ \A m \in DOMAIN tried : m # n => tried'[m] = tried[m]
      BY <1>2, <2>1
    <2>3. Uncounted(tried') = Uncounted(tried) \ {n} /\ n \in Uncounted(tried)
      BY <2>1, <2>2 DEF Uncounted
    <2>4. Cardinality(Uncounted(tried')) = Cardinality(Uncounted(tried)) - 1
      BY <1>3, <2>3, FS_RemoveElement
    <2>5. n # 0 /\ \A m \in DOMAIN tried : m # 0
      BY <1>1
    <2>6. CallsCounted'
      BY <2>1, <2>2, <2>4, <2>5 DEF TesterInv, CallsCounted
    <2>7. MainWaits'
      BY <1>4, <2>1, <2>2 DEF TesterInv, MainWaits
    <2> QED  BY <2>2, <2>6, <2>7
  <1>8. CASE NotifyComplete(n)
    <2>1. /\ tried[n] = "counted" /\ tried' = [tried EXCEPT ![n] = "done"]
          /\ mtx' = 0 /\ UNCHANGED pending
          /\ tester' = IF tester = "blocked" THEN "wait" ELSE tester
      BY <1>8 DEF NotifyComplete
    <2>2. /\ CallsType' /\ DOMAIN tried' = DOMAIN tried /\ tried'[n] = "done"
          /\ \A m \in DOMAIN tried : m # n => tried'[m] = tried[m]
      BY <1>2, <2>1
    <2>3. Uncounted(tried') = Uncounted(tried)
      BY <2>1, <2>2 DEF Uncounted
    <2>4. \A m \in DOMAIN tried : tried[m] = "counted" => m = n
      BY <2>1 DEF TesterInv, CallsCounted
    <2>5. CallsCounted'
      BY <2>1, <2>2, <2>3, <2>4 DEF TesterInv, CallsCounted
    <2>6. tester' = "wait"
      BY <1>4, <2>1
    <2>7. MainWaits'
      BY <2>1, <2>2, <2>6 DEF TesterInv, MainWaits
    <2> QED  BY <2>2, <2>5, <2>7
  <1> QED  BY <1>6, <1>7, <1>8 DEF OnComplete

(* main of the tester.                                                     *)
LEMMA TesterMainInv ==
    ASSUME TesterInv, TesterMainThread \/ RunSub
    PROVE  CallsType' /\ CallsCounted' /\ MainWaits'
  <1> DEFINE Progress == {"posted", "printed", "counted", "done"}
  <1>1. CallsType /\ CallsCounted /\ MainWaits
    BY DEF TesterInv
  <1>2. ASSUME UNCHANGED <<tried, mtx, pending>> PROVE CallsType' /\ CallsCounted'
    BY <1>1, <1>2 DEF CallsType, CallsCounted
  <1>3. CASE TesterMain
    <2>1. /\ tester = "parse" /\ parsed' = ParseArgs(argv)
          /\ tester' = IF \/ parsed'.error
                          \/ parsed'.action \notin {"help", "pub", "sub", "read", "write"}
                       THEN "failed" ELSE IF parsed'.action = "help" THEN "ended" ELSE parsed'.action
          /\ UNCHANGED <<argv, tried, mtx, pending>>
      BY <1>3 DEF TesterMain
    <2>2. DOMAIN tried = {} /\ argv \in CommandLines
      BY <1>1, <2>1 DEF MainWaits
    <2>3. parsed'.error \/ Len(parsed'.names) \in Nat
      BY <2>1, <2>2, TesterAssumption
    <2>4. tester' \in {"failed", "ended", "pub", "sub", "read", "write"}
      BY <2>1
    <2>5. tester' = "read" => Len(parsed'.names) \in Nat
      BY <2>1, <2>3
    <2>6. MainWaits'
      BY <1>1, <2>1, <2>2, <2>4, <2>5 DEF MainWaits
    <2> QED  BY <1>2, <2>1, <2>6
  <1>4. CASE RunPub
    <2>1. /\ tester = "pub" /\ tester' \in {"failed", "ended"}
          /\ UNCHANGED <<argv, parsed, tried, mtx, pending>>
      BY <1>4 DEF RunPub, Fail
    <2>2. MainWaits'
      BY <1>1, <2>1 DEF MainWaits
    <2> QED  BY <1>2, <2>1, <2>2
  <1>5. CASE RunSub
    <2>1. UNCHANGED <<argv, parsed, tester, tried, mtx, pending>>
      BY <1>5 DEF RunSub
    <2>2. MainWaits'
      BY <1>1, <2>1 DEF MainWaits
    <2> QED  BY <1>2, <2>1, <2>2
  <1>6. ASSUME NEW k \in Nat, tester \in {"read", "write"}, tester' = "wait",
               tried' = [n \in 1..k |-> "posted"], pending' = k, UNCHANGED mtx
        PROVE  CallsType' /\ CallsCounted' /\ MainWaits'
    <2>1. /\ tried' \in [1..k -> Progress] /\ DOMAIN tried' = 1..k
          /\ \A n \in 1..k : tried'[n] = "posted"
      BY <1>6
    <2>2. CallsType'
      BY <2>1 DEF CallsType
    <2>3. Uncounted(tried') = 1..k
      BY <2>1 DEF Uncounted
    <2>4. Cardinality(1..k) = k
      BY <1>6, FS_Interval
    <2>5. CallsCounted'
      BY <1>6, <2>1, <2>3, <2>4 DEF CallsCounted
    <2>6. MainWaits'
      BY <1>1, <1>6, <2>1 DEF MainWaits
    <2> QED  BY <2>2, <2>5, <2>6
  <1>7. CASE RunRead
    <2>1. Len(parsed.names) \in Nat
      BY <1>1, <1>7 DEF RunRead, MainWaits
    <2> QED  BY <1>6, <1>7, <2>1 DEF RunRead
  <1>8. CASE RunWrite
    <2>1. CASE Unbuildable
      <3>1. /\ tester = "write" /\ tester' = "failed"
            /\ UNCHANGED <<argv, parsed, tried, mtx, pending>>
        BY <1>8, <2>1 DEF RunWrite, Fail
      <3>2. MainWaits'
        BY <1>1, <3>1 DEF MainWaits
      <3> QED  BY <1>2, <3>1, <3>2
    <2>2. CASE ~Unbuildable
      <3>1. /\ tester = "write" /\ tester' = "wait" /\ tried' = <<"posted">> /\ pending' = 1
            /\ UNCHANGED mtx
        BY <1>8, <2>2 DEF RunWrite
      <3>2. tried' = [n \in 1..1 |-> "posted"]
        BY <3>1
      <3> QED  BY <1>6, <3>1, <3>2
    <2> QED  BY <2>1, <2>2
  <1>9. CASE WaitForCalls
    <2>1. /\ tester = "wait" /\ mtx = 0 /\ UNCHANGED <<argv, parsed, tried, mtx, pending>>
          /\ tester' = IF pending = 0 THEN "ended" ELSE "blocked"
      BY <1>9 DEF WaitForCalls
    <2>2. ASSUME pending = 0, NEW n \in DOMAIN tried PROVE tried[n] = "done"
      <3>1. PICK k \in Nat : tried \in [1..k -> Progress]
        BY <1>1 DEF CallsType
      <3>2. IsFiniteSet(1..k) /\ Uncounted(tried) \subseteq 1..k
        BY <3>1, FS_Interval DEF Uncounted
      <3>3. IsFiniteSet(Uncounted(tried))
        BY <3>2, FS_Subset
      <3>4. Uncounted(tried) = {}
        BY <1>1, <2>2, <3>3, FS_EmptySet DEF CallsCounted
      <3>5. n # 0 /\ tried[n] \in Progress
        BY <3>1
      <3>6. tried[n] # "counted"
        BY <1>1, <2>1, <3>5 DEF CallsCounted
      <3> QED  BY <3>4, <3>5, <3>6 DEF Uncounted
    <2>3. MainWaits'
      <3>1. CASE pending = 0
        BY <1>1, <2>1, <2>2, <3>1 DEF MainWaits
      <3>2. CASE pending # 0
        BY <1>1, <2>1, <3>2 DEF MainWaits
      <3> QED  BY <3>1, <3>2
    <2> QED  BY <1>2, <2>1, <2>3
  <1> QED  BY <1>3, <1>4, <1>5, <1>7, <1>8, <1>9 DEF TesterMainThread

(* A round of the stress tester begins when the last one is complete.      *)
LEMMA StressRoundInv ==
    ASSUME StressCounts, StressRound
    PROVE  StressCounts'
  <1>1. StressCount \in Nat \ {0} /\ ByteMax \in Nat \ {0}
    BY TesterAssumption
  <1> DEFINE Stress == [current : Nat, next : 0..ByteMax, left : SUBSET (1..StressCount),
                        rounds : Nat, published : [1..StressCount -> Nat]]
  <1>2. PICK k \in 1..(StressCount + 1) : StressAt(stress, k)
    BY DEF StressCounts
  <1>3. /\ stress \in Stress /\ stress.left = {}
        /\ stress' = [stress EXCEPT !.next = stress.current, !.rounds = @ + 1,
                        !.left = 1..StressCount, !.current = stress.current + 1]
    BY DEF StressCounts, StressRound
  <1>4. k = StressCount + 1
    BY <1>1, <1>2, <1>3 DEF StressAt
  <1>5. /\ stress.next \in 0..ByteMax
        /\ stress.current = IF stress.next = ByteMax THEN 0 ELSE stress.next + 1
        /\ \A i \in 1..StressCount : stress.published[i] = stress.next
    BY <1>1, <1>2, <1>3, <1>4 DEF StressAt
  <1>6. stress.current \in 0..ByteMax /\ Previous(stress.current) = stress.next
    BY <1>1, <1>5 DEF Previous
  <1>7. /\ stress' \in Stress /\ stress'.left = 1..StressCount /\ stress'.next = stress.current
        /\ stress'.current = stress.current + 1 /\ stress'.published = stress.published
    <2>1. /\ stress.current + 1 \in Nat /\ stress.rounds + 1 \in Nat
          /\ 1..StressCount \in SUBSET (1..StressCount)
      BY <1>1, <1>3
    <2> QED  BY <1>3, <1>6, <2>1
  <1>8. StressAt(stress', 1)
    BY <1>1, <1>5, <1>6, <1>7 DEF StressAt
  <1> QED  BY <1>1, <1>7, <1>8 DEF StressCounts

(* The next parameter of the round gets its value; after the last one      *)
(* current_value starts again.                                             *)
LEMMA StressPublishInv ==
    ASSUME StressCounts, StressPublish
    PROVE  StressCounts'
  <1>1. StressCount \in Nat \ {0} /\ ByteMax \in Nat \ {0}
    BY TesterAssumption
  <1> DEFINE Stress == [current : Nat, next : 0..ByteMax, left : SUBSET (1..StressCount),
                        rounds : Nat, published : [1..StressCount -> Nat]]
             i == CHOOSE i \in stress.left : \A j \in stress.left : i <= j
             c == IF stress.left = {i} THEN ResetValue(stress.current) ELSE stress.current
  <1>2. PICK k \in 1..(StressCount + 1) : StressAt(stress, k)
    BY DEF StressCounts
  <1>3. /\ stress \in Stress /\ stress.left # {}
        /\ stress' = [stress EXCEPT !.published[i] = stress.next, !.left = @ \ {i}, !.current = c]
    BY DEF StressCounts, StressPublish
  <1>4. k \in 1..StressCount /\ stress.left = k..StressCount
    BY <1>1, <1>2, <1>3 DEF StressAt
  <1>5. i = k
    <2>1. k \in stress.left /\ \A j \in stress.left : k <= j
      BY <1>1, <1>4
    <2>2. i \in stress.left /\ \A j \in stress.left : i <= j
      BY <2>1
    <2> HIDE DEF i
    <2> QED  BY <1>1, <1>4, <2>1, <2>2
  <1>6. /\ stress.current = stress.next + 1 /\ stress.next \in 0..ByteMax
        /\ stress.published \in [1..StressCount -> Nat]
        /\ \A j \in 1..StressCount :
              stress.published[j] = IF j < k THEN stress.next ELSE Previous(stress.next)
    BY <1>1, <1>2, <1>3, <1>4 DEF StressAt
  <1>7. /\ k = StressCount => c = IF stress.next = ByteMax THEN 0 ELSE stress.next + 1
        /\ k # StressCount => c = stress.next + 1
    <2>1. stress.left = {k} <=> k = StressCount
      BY <1>1, <1>4
    <2> HIDE DEF i
    <2>2. c = IF k = StressCount THEN ResetValue(stress.next + 1) ELSE stress.next + 1
      BY <1>5, <1>6, <2>1
    <2> HIDE DEF c
    <2> QED  BY <1>1, <1>6, <2>2 DEF ResetValue
  <1> HIDE DEF i, c
  <1>8. c \in Nat
    BY <1>1, <1>6, <1>7
  <1>9. /\ stress'.left = stress.left \ {k} /\ stress'.next = stress.next /\ stress'.current = c
        /\ stress'.published = [stress.published EXCEPT ![k] = stress.next]
        /\ stress' \in Stress
    <2>1. [stress.published EXCEPT ![k] = stress.next] \in [1..StressCount -> Nat]
      <3>1. stress.next \in Nat /\ stress.published \in [1..StressCount -> Nat]
        BY <1>1, <1>6
      <3> QED  BY <3>1
    <2>2. stress' = [stress EXCEPT !.published = [stress.published EXCEPT ![k] = stress.next],
                       !.left = @ \ {k}, !.current = c]
      BY <1>3, <1>5
    <2> QED  BY <1>3, <1>8, <2>1, <2>2
  <1>10. stress'.left = (k + 1)..StressCount
    BY <1>1, <1>4, <1>9
  <1>11. \A j \in 1..StressCount :
            stress'.published[j] = IF j < k + 1 THEN stress.next ELSE Previous(stress.next)
    <2> SUFFICES ASSUME NEW j \in 1..StressCount
                 PROVE  stress'.published[j]
                          = IF j < k + 1 THEN stress.next ELSE Previous(stress.next)
      OBVIOUS
    <2> DEFINE before == stress.published
               after == stress'.published
    <2>1. after = [before EXCEPT ![k] = stress.next] /\ before \in [1..StressCount -> Nat]
      BY <1>6, <1>9
    <2>2. before[j] = IF j < k THEN stress.next ELSE Previous(stress.next)
      BY <1>6
    <2> HIDE DEF before, after
    <2>3. CASE j = k
      <3>1. after[j] = stress.next
        BY <2>1, <2>3
      <3>2. j < k + 1
        BY <1>4, <2>3
      <3> QED  BY <3>1, <3>2 DEF after
    <2>4. CASE j # k
      <3>1. after[j] = before[j]
        BY <2>1, <2>4
      <3>2. j < k + 1 <=> j < k
        BY <1>4, <2>4
      <3> QED  BY <2>2, <3>1, <3>2 DEF after
    <2> QED  BY <2>3, <2>4
  <1>12. StressAt(stress', k + 1)
    <2>1. k + 1 <= StressCount => k # StressCount
      BY <1>1, <1>4
    <2>2. k + 1 = StressCount + 1 => k = StressCount
      BY <1>1, <1>4
    <2> QED  BY <1>7, <1>9, <1>10, <1>11, <2>1, <2>2 DEF StressAt
  <1>13. k + 1 \in 1..(StressCount + 1)
    BY <1>1, <1>4
  <1> QED  BY <1>9, <1>12, <1>13 DEF StressCounts

(* Every step of the testers keeps the invariant.                          *)
LEMMA TesterNextInv == TesterInv /\ [TesterNextState]_testerVars => TesterInv'
  <1> SUFFICES ASSUME TesterInv, [TesterNextState]_testerVars PROVE TesterInv'
    OBVIOUS
  <1>1. ASSUME UNCHANGED stress PROVE StressCounts'
    BY <1>1 DEF TesterInv, StressCounts, StressAt
  <1>2. ASSUME UNCHANGED <<argv, parsed, tester, tried, mtx, pending>>
        PROVE  CallsType' /\ CallsCounted' /\ MainWaits'
    BY <1>2 DEF TesterInv, CallsType, CallsCounted, MainWaits
  <1>3. CASE UNCHANGED testerVars
    BY <1>1, <1>2, <1>3 DEF testerVars, TesterInv
  <1>4. CASE TesterMainThread \/ RunSub
    <2>1. UNCHANGED stress
      BY <1>4 DEF TesterMainThread, RunSub, TesterMain, RunPub, RunRead, RunWrite, WaitForCalls
    <2> QED  BY <1>1, <1>4, <2>1, TesterMainInv DEF TesterInv
  <1>5. ASSUME NEW n \in DOMAIN tried, OnComplete(n) PROVE TesterInv'
    <2>1. UNCHANGED stress
      BY <1>5 DEF OnComplete
    <2> QED  BY <1>1, <1>5, <2>1, OnCompleteInv DEF TesterInv
  <1>6. CASE StressRound
    <2>1. UNCHANGED <<argv, parsed, tester, tried, mtx, pending>>
      BY <1>6 DEF StressRound
    <2> QED  BY <1>2, <1>6, <2>1, StressRoundInv DEF TesterInv
  <1>7. CASE StressPublish
    <2>1. UNCHANGED <<argv, parsed, tester, tried, mtx, pending>>
      BY <1>7 DEF StressPublish
    <2> QED  BY <1>2, <1>7, <2>1, StressPublishInv DEF TesterInv
  <1> QED  BY <1>3, <1>4, <1>5, <1>6, <1>7 DEF TesterNextState

(* What the invariant is for.                                              *)
LEMMA TesterInvImplies == TesterInv => TesterLocalsAlive /\ StressInStep
  <1> SUFFICES ASSUME TesterInv PROVE TesterLocalsAlive /\ StressInStep
    OBVIOUS
  <1>1. TesterLocalsAlive
    BY DEF TesterInv, MainWaits, TesterLocalsAlive
  <1>2. StressInStep
    <2>1. StressCount \in Nat \ {0} /\ ByteMax \in Nat \ {0}
      BY TesterAssumption
    <2>2. PICK k \in 1..(StressCount + 1) : StressAt(stress, k)
      BY DEF TesterInv, StressCounts
    <2>3. stress.next \in 0..ByteMax /\ Previous(stress.next) \in 0..ByteMax
      BY <2>1 DEF TesterInv, StressCounts, Previous
    <2>4. stress.next - Previous(stress.next) \in {1, -ByteMax}
      BY <2>1, <2>3 DEF Previous
    <2> HIDE DEF Previous
    <2>5. ASSUME NEW i \in 1..StressCount, NEW j \in 1..StressCount
          PROVE  /\ stress.published[i] \in 0..ByteMax
                 /\ i < j => stress.published[i] - stress.published[j] \in {0, 1, -ByteMax}
      <3>1. /\ stress.published[i] = IF i < k THEN stress.next ELSE Previous(stress.next)
            /\ stress.published[j] = IF j < k THEN stress.next ELSE Previous(stress.next)
        BY <2>2 DEF StressAt
      <3> QED  BY <2>1, <2>2, <2>3, <2>4, <3>1
    <2> QED  BY <2>5 DEF StressInStep
  <1> QED  BY <1>1, <1>2

-----------------------------------------------------------------------------
(***************************************************************************)
(* Mapper.                                                                 *)
(***************************************************************************)
Messages == [input : Inputs \cup {"none"}, n : Int]

MapperType ==
    /\ mapper \in {"create", "retrieve", "loop", "leave", "destroy", "ended", "crashed"}
    /\ published \in [Inputs -> Nat]
    /\ arrived \in [Inputs -> Nat]
    /\ updating \in [Inputs -> [at : {"idle", "copy", "write"}, n : Nat]]
    /\ m_lastPublished \in Messages
    /\ output \in Seq(Messages)

(* A callback runs while its subscription exists, which is created before  *)
(* the loop and destroyed after it.                                        *)
CallbacksHaveSubscription ==
    /\ \A i \in Inputs : updating[i] # Idle =>
          i \in subscribers /\ mapper \in {"loop", "leave", "destroy", "crashed"}
    /\ mapper = "ended" => subscribers = {}

(* Serial numbers go up on their way from the publisher of an input.       *)
SerialsRise(p, a, u) ==
    /\ a <= p /\ u.n <= p
    /\ a # 0 /\ u # Idle => u.n < a

(* What was published for an input is older than what is under way.        *)
Older(m, p, a, u) == m.n <= p /\ (a # 0 => m.n < a) /\ (u # Idle => m.n < u.n)

(* As long as callbacks do not overlap only one runs, and what it copied   *)
(* is still there when it writes.                                          *)
OneCallback ==
    \A i \in Inputs :
        /\ updating[i] # Idle => \A j \in Inputs \ {i} : updating[j] = Idle
        /\ updating[i].at = "write" => m_lastPublished = [input |-> i, n |-> updating[i].n]

OutputsOlder ==
    \A k \in 2..Len(output) :
        /\ output[k].input \in Inputs
        /\ Older(output[k], published[output[k].input], arrived[output[k].input],
                 updating[output[k].input])
OutputsRise ==
    \A k \in 2..Len(output) : \A j \in 2..(k - 1) :
        output[j].input = output[k].input => output[j].n < output[k].n

MapperInv ==
    /\ MapperType
    /\ PublisherFound
    /\ CallbacksHaveSubscription
    /\ mapper = "create" => output = <<>> /\ m_lastPublished = Initial
    /\ \A i \in Inputs : SerialsRise(published[i], arrived[i], updating[i])
    /\ overlapped \/ (OneCallback /\ OutputsOlder /\ OutputsRise)

(* Mapper begins without publishers and subscribers.                       *)
LEMMA MapperInitInv == MapperInit => MapperInv
  <1> SUFFICES ASSUME MapperInit PROVE MapperInv
    OBVIOUS
  <1>1. /\ mapper = "create" /\ subscribers = {} /\ output = <<>> /\ m_lastPublished = Initial
        /\ published = [i \in Inputs |-> 0] /\ arrived = [i \in Inputs |-> 0]
        /\ updating = [i \in Inputs |-> Idle] /\ misused = "nowhere"
    BY DEF MapperInit
  <1>2. Idle \in [at : {"idle", "copy", "write"}, n : Nat] /\ Idle.n = 0 /\ Idle.at = "idle"
    BY DEF Idle
  <1>3. Initial \in Messages
    BY DEF Initial, Messages
  <1> HIDE DEF Idle, Initial
  <1>4. MapperType
    BY <1>1, <1>2, <1>3 DEF MapperType
  <1>5. PublisherFound /\ CallbacksHaveSubscription
    BY <1>1 DEF PublisherFound, CallbacksHaveSubscription
  <1>6. \A i \in Inputs : SerialsRise(published[i], arrived[i], updating[i])
    BY <1>1, <1>2 DEF SerialsRise
  <1>7. OneCallback
    BY <1>1, <1>2 DEF OneCallback
  <1>8. OutputsOlder /\ OutputsRise
    <2>1. Len(output) = 0
      BY <1>1
    <2> QED  BY <2>1 DEF OutputsOlder, OutputsRise
  <1> QED  BY <1>1, <1>4, <1>5, <1>6, <1>7, <1>8 DEF MapperInv

(* Steps of main that leave the values alone.                              *)
LEMMA ValuesStay ==
    ASSUME MapperInv,
           UNCHANGED <<published, arrived, updating, m_lastPublished, output, overlapped, misused>>,
           mapper' \in {"create", "retrieve", "loop", "leave", "destroy", "ended", "crashed"},
           CallbacksHaveSubscription', mapper' = "create" => mapper = "create"
    PROVE  MapperInv'
  <1>1. MapperType' /\ PublisherFound'
    BY DEF MapperInv, MapperType, PublisherFound
  <1>2. OneCallback' = OneCallback /\ OutputsOlder' = OutputsOlder /\ OutputsRise' = OutputsRise
    BY DEF OneCallback, OutputsOlder, OutputsRise
  <1> QED  BY <1>1, <1>2 DEF MapperInv

(* main creates, loops and destroys.                                       *)
LEMMA MapperMainInv ==
    ASSUME MapperInv, MapperMain \/ Quit
    PROVE  MapperInv'
  <1>1. MapperType /\ CallbacksHaveSubscription
    BY DEF MapperInv
  <1>2. CASE Quit
    BY <1>1, <1>2, ValuesStay DEF Quit, MapperType, CallbacksHaveSubscription
  <1>3. CASE CreateSubscription
    <2>1. CallbacksHaveSubscription'
      BY <1>1, <1>3 DEF CreateSubscription, CallbacksHaveSubscription
    <2> QED  BY <1>1, <1>3, <2>1, ValuesStay DEF CreateSubscription, MapperType
  <1>4. CASE CreatePublisher
    <2>1. /\ mapper = "create" /\ mapper' = "retrieve" /\ output = <<>>
          /\ output' = Append(output, m_lastPublished)
          /\ UNCHANGED <<subscribers, published, arrived, updating, m_lastPublished, overlapped, misused>>
      BY <1>4 DEF CreatePublisher, MapperInv
    <2>2. output' \in Seq(Messages) /\ Len(output') = 1
      BY <1>1, <2>1 DEF MapperType
    <2>3. MapperType' /\ PublisherFound' /\ CallbacksHaveSubscription'
      BY <1>1, <2>1, <2>2 DEF MapperInv, MapperType, PublisherFound, CallbacksHaveSubscription
    <2>4. OutputsOlder' /\ OutputsRise'
      BY <2>2 DEF OutputsOlder, OutputsRise
    <2>5. OneCallback' = OneCallback
      BY <2>1 DEF OneCallback
    <2> QED  BY <2>1, <2>3, <2>4, <2>5 DEF MapperInv
  <1>5. CASE RetrievePublisher
    BY <1>1, <1>5, ValuesStay DEF RetrievePublisher, CallbacksHaveSubscription
  <1>6. CASE QuitLoop
    BY <1>1, <1>6, ValuesStay DEF QuitLoop, CallbacksHaveSubscription
  <1>7. CASE DestroyPublisher
    BY <1>1, <1>7, ValuesStay DEF DestroyPublisher, CallbacksHaveSubscription
  <1>8. CASE DestroySubscription
    <2> DEFINE i == FirstInput(subscribers)
    <2> HIDE DEF i
    <2>1. /\ mapper = "destroy" /\ updating[i] = Idle /\ subscribers' = subscribers \ {i}
          /\ mapper' = IF subscribers' = {} THEN "ended" ELSE mapper
          /\ UNCHANGED <<published, arrived, updating, m_lastPublished, output, overlapped, misused>>
      BY <1>8 DEF DestroySubscription, i
    <2>2. CallbacksHaveSubscription'
      BY <1>1, <2>1 DEF CallbacksHaveSubscription
    <2> QED  BY <2>1, <2>2, ValuesStay
  <1> QED  BY <1>2, <1>3, <1>4, <1>5, <1>6, <1>7, <1>8 DEF MapperMain

(* An input is published: its number is above all others.                  *)
LEMMA InputPublishedInv ==
    ASSUME MapperInv, NEW i \in Inputs, InputPublished(i)
    PROVE  MapperInv'
  <1>1. /\ published' = [published EXCEPT ![i] = @ + 1]
        /\ arrived' = [arrived EXCEPT ![i] = published[i] + 1]
        /\ UNCHANGED <<mapper, subscribers, updating, m_lastPublished, output, overlapped, misused>>
    BY DEF InputPublished
  <1>2. MapperType
    BY DEF MapperInv
  <1>3. /\ published' \in [Inputs -> Nat] /\ arrived' \in [Inputs -> Nat]
        /\ \A j \in Inputs : j # i => published'[j] = published[j] /\ arrived'[j] = arrived[j]
        /\ published'[i] = published[i] + 1 /\ arrived'[i] = published[i] + 1
        /\ published[i] \in Nat
    BY <1>1, <1>2 DEF MapperType
  <1>4. MapperType' /\ PublisherFound' /\ CallbacksHaveSubscription'
    BY <1>1, <1>3 DEF MapperInv, MapperType, PublisherFound, CallbacksHaveSubscription
  <1>5. ASSUME NEW j \in Inputs PROVE SerialsRise(published'[j], arrived'[j], updating'[j])
    <2>1. SerialsRise(published[j], arrived[j], updating[j]) /\ updating[j].n \in Nat
      BY <1>2 DEF MapperInv, MapperType
    <2> QED  BY <1>1, <1>3, <2>1 DEF SerialsRise
  <1>6. ASSUME OutputsOlder PROVE OutputsOlder'
    <2> SUFFICES ASSUME NEW k \in 2..Len(output)
                 PROVE  /\ output[k].input \in Inputs
                        /\ Older(output[k], published'[output[k].input],
                                 arrived'[output[k].input], updating[output[k].input])
      BY <1>1 DEF OutputsOlder
    <2> DEFINE m == output[k]
    <2>1. /\ m.input \in Inputs
          /\ Older(m, published[m.input], arrived[m.input], updating[m.input])
      BY <1>6 DEF OutputsOlder
    <2>2. m.n \in Int
      <3>1. m \in Messages
        BY <1>2 DEF MapperType
      <3> QED  BY <3>1 DEF Messages
    <2> HIDE DEF m
    <2>3. Older(m, published'[m.input], arrived'[m.input], updating[m.input])
      BY <1>3, <2>1, <2>2 DEF Older
    <2> QED  BY <2>1, <2>3 DEF m
  <1>7. OneCallback' = OneCallback /\ OutputsRise' = OutputsRise
    BY <1>1 DEF OneCallback, OutputsRise
  <1> QED  BY <1>1, <1>4, <1>5, <1>6, <1>7 DEF MapperInv

(* A callback finds no publisher, and ends.                                *)
LEMMA NoPublisherInv ==
    ASSUME MapperInv, NEW i \in Inputs, NoPublisher(i), mapper \in {"create", "retrieve", "destroy"},
           UNCHANGED <<subscribers, published>>,
           arrived' = arrived \/ arrived' = [arrived EXCEPT ![i] = 0]
    PROVE  MapperInv'
  <1>1. MapperType
    BY DEF MapperInv
  <1>2. /\ misused' = mapper /\ updating' = [updating EXCEPT ![i] = Idle]
        /\ mapper' = "crashed" \/ (mapper = "destroy" /\ mapper' = mapper)
        /\ UNCHANGED <<m_lastPublished, output, overlapped>>
    BY DEF NoPublisher
  <1>3. Idle \in [at : {"idle", "copy", "write"}, n : Nat] /\ Idle.n = 0 /\ Idle.at = "idle"
    BY DEF Idle
  <1> HIDE DEF Idle
  <1>4. /\ updating' \in [Inputs -> [at : {"idle", "copy", "write"}, n : Nat]]
        /\ arrived' \in [Inputs -> Nat] /\ updating'[i] = Idle
        /\ \A j \in Inputs : j # i => updating'[j] = updating[j]
        /\ \A j \in Inputs : arrived'[j] \in {0, arrived[j]}
    BY <1>1, <1>2, <1>3 DEF MapperType
  <1>5. MapperType' /\ PublisherFound' /\ CallbacksHaveSubscription'
    BY <1>1, <1>2, <1>4 DEF MapperInv, MapperType, PublisherFound, CallbacksHaveSubscription
  <1>6. ASSUME NEW j \in Inputs
        PROVE  /\ SerialsRise(published[j], arrived'[j], updating'[j])
               /\ \A m : Older(m, published[j], arrived[j], updating[j])
                            => Older(m, published[j], arrived'[j], updating'[j])
    <2>1. /\ SerialsRise(published[j], arrived[j], updating[j])
          /\ published[j] \in Nat /\ arrived[j] \in Nat
      BY <1>1 DEF MapperInv, MapperType
    <2>2. SerialsRise(published[j], arrived'[j], updating'[j])
      BY <1>3, <1>4, <2>1 DEF SerialsRise
    <2>3. ASSUME NEW m, Older(m, published[j], arrived[j], updating[j])
          PROVE  Older(m, published[j], arrived'[j], updating'[j])
      BY <1>4, <2>3 DEF Older
    <2> QED  BY <2>2, <2>3
  <1>7. ASSUME OneCallback PROVE OneCallback'
    BY <1>2, <1>3, <1>4, <1>7 DEF OneCallback
  <1>8. ASSUME OutputsOlder PROVE OutputsOlder'
    BY <1>2, <1>6, <1>8 DEF OutputsOlder
  <1>9. OutputsRise' = OutputsRise
    BY <1>2 DEF OutputsRise
  <1> QED  BY <1>2, <1>5, <1>6, <1>7, <1>8, <1>9 DEF MapperInv

(* A callback finds the publisher.                                         *)
LEMMA OnParameterUpdatedInv ==
    ASSUME MapperInv, NEW i \in Inputs, OnParameterUpdated(i)
    PROVE  MapperInv'
  <1>1. /\ arrived' = [arrived EXCEPT ![i] = 0] /\ UNCHANGED <<subscribers, published>>
        /\ arrived[i] # 0 /\ updating[i] = Idle /\ i \in subscribers /\ MapperType
    BY DEF OnParameterUpdated, MapperInv
  <1>2. CASE mapper \in {"create", "retrieve", "destroy"} /\ NoPublisher(i)
    BY <1>1, <1>2, NoPublisherInv
  <1>3. CASE ~(mapper \in {"create", "retrieve", "destroy"} /\ NoPublisher(i))
    <2> DEFINE u == [at |-> "copy", n |-> arrived[i]]
    <2>1. /\ mapper \in {"loop", "leave"} /\ updating' = [updating EXCEPT ![i] = u]
          /\ overlapped' = (overlapped \/ Others(i) # {})
          /\ UNCHANGED <<mapper, m_lastPublished, output, misused>>
      BY <1>3 DEF OnParameterUpdated
    <2>2. /\ u \in [at : {"idle", "copy", "write"}, n : Nat] /\ u.at = "copy" /\ u.n = arrived[i]
          /\ arrived[i] \in Nat
      BY <1>1 DEF MapperType
    <2> HIDE DEF u
    <2>3. /\ updating' \in [Inputs -> [at : {"idle", "copy", "write"}, n : Nat]]
          /\ arrived' \in [Inputs -> Nat] /\ updating'[i] = u /\ arrived'[i] = 0
          /\ \A j \in Inputs : j # i => updating'[j] = updating[j] /\ arrived'[j] = arrived[j]
      BY <1>1, <2>1, <2>2 DEF MapperType
    <2>4. MapperType' /\ PublisherFound' /\ CallbacksHaveSubscription'
      BY <1>1, <2>1, <2>3 DEF MapperInv, MapperType, PublisherFound, CallbacksHaveSubscription
    <2>5. ASSUME NEW j \in Inputs PROVE SerialsRise(published[j], arrived'[j], updating'[j])
      <3>1. SerialsRise(published[j], arrived[j], updating[j]) /\ published[j] \in Nat
        BY <1>1 DEF MapperInv, MapperType
      <3> QED  BY <2>2, <2>3, <3>1 DEF SerialsRise
    <2>6. ASSUME OutputsOlder PROVE OutputsOlder'
      <3>1. ASSUME NEW j \in Inputs, NEW m, Older(m, published[j], arrived[j], updating[j])
            PROVE  Older(m, published[j], arrived'[j], updating'[j])
        BY <1>1, <2>2, <2>3, <3>1 DEF Older
      <3> QED  BY <1>1, <2>1, <2>6, <3>1 DEF OutputsOlder
    <2>7. ASSUME OneCallback, ~overlapped' PROVE OneCallback'
      <3>1. \A j \in Inputs \ {i} : updating[j] = Idle
        BY <2>1, <2>7 DEF Others
      <3>2. Idle.at = "idle"
        BY DEF Idle
      <3> HIDE DEF Idle
      <3> QED  BY <2>1, <2>2, <2>3, <3>1, <3>2 DEF OneCallback
    <2>8. OutputsRise' = OutputsRise
      BY <2>1 DEF OutputsRise
    <2> QED  BY <1>1, <2>1, <2>4, <2>5, <2>6, <2>7, <2>8 DEF MapperInv
  <1> QED  BY <1>2, <1>3

(* Publish copies the value and writes the message.                        *)
LEMMA PublishOutputInv ==
    ASSUME MapperInv, NEW i \in Inputs, PublishOutput(i)
    PROVE  MapperInv'
  <1>1. MapperType /\ updating[i] # Idle /\ UNCHANGED <<subscribers, published, arrived>>
    BY DEF PublishOutput, MapperInv
  <1>2. mapper # "ended" /\ i \in subscribers
    BY <1>1 DEF MapperInv, CallbacksHaveSubscription
  <1>3. CASE mapper \in {"destroy", "ended"} /\ NoPublisher(i)
    BY <1>1, <1>2, <1>3, NoPublisherInv
  <1>4. CASE mapper \in {"loop", "leave"} /\ CopyFrom(i) /\ UNCHANGED <<mapper, overlapped, misused>>
    <2> DEFINE u == [updating[i] EXCEPT !.at = "write"]
    <2>1. /\ updating[i].at = "copy" /\ updating' = [updating EXCEPT ![i] = u]
          /\ m_lastPublished' \in Seen(i, [input |-> i, n |-> updating[i].n]) /\ UNCHANGED output
      BY <1>4 DEF CopyFrom
    <2>2. updating[i] \in [at : {"idle", "copy", "write"}, n : Nat]
      BY <1>1 DEF MapperType
    <2>3. /\ u \in [at : {"idle", "copy", "write"}, n : Nat] /\ u.at = "write"
          /\ u.n = updating[i].n /\ u # Idle
      BY <2>2 DEF Idle
    <2> HIDE DEF u
    <2>4. /\ updating' \in [Inputs -> [at : {"idle", "copy", "write"}, n : Nat]]
          /\ updating'[i] = u /\ \A j \in Inputs : j # i => updating'[j] = updating[j]
      BY <1>1, <2>1, <2>3 DEF MapperType
    <2>5. m_lastPublished' \in Messages
      <3>1. [input |-> i, n |-> updating[i].n] \in Messages /\ Torn \in Messages
        BY <2>2 DEF Messages, Torn
      <3> QED  BY <2>1, <3>1 DEF Seen
    <2>6. MapperType' /\ PublisherFound' /\ CallbacksHaveSubscription'
      BY <1>1, <1>4, <2>1, <2>4, <2>5
         DEF MapperInv, MapperType, PublisherFound, CallbacksHaveSubscription
    <2>7. ASSUME NEW j \in Inputs
          PROVE  /\ SerialsRise(published[j], arrived[j], updating'[j])
                 /\ \A m : Older(m, published[j], arrived[j], updating[j])
                              => Older(m, published[j], arrived[j], updating'[j])
      <3>1. SerialsRise(published[j], arrived[j], updating[j])
        BY DEF MapperInv
      <3> QED  BY <1>1, <2>3, <2>4, <3>1 DEF SerialsRise, Older
    <2>8. ASSUME OutputsOlder PROVE OutputsOlder'
      BY <1>1, <2>1, <2>7, <2>8 DEF OutputsOlder
    <2>9. ASSUME OneCallback PROVE OneCallback'
      <3>1. \A j \in Inputs \ {i} : updating[j] = Idle
        BY <1>1, <2>9 DEF OneCallback
      <3>2. m_lastPublished' = [input |-> i, n |-> updating[i].n]
        BY <2>1, <3>1 DEF Seen, Others
      <3>3. Idle.at = "idle"
        BY DEF Idle
      <3> HIDE DEF Idle
      <3> QED  BY <2>3, <2>4, <3>1, <3>2, <3>3 DEF OneCallback
    <2>10. OutputsRise' = OutputsRise
      BY <2>1 DEF OutputsRise
    <2> QED  BY <1>1, <1>4, <2>6, <2>7, <2>8, <2>9, <2>10 DEF MapperInv
  <1>5. CASE mapper \in {"loop", "leave"} /\ WriteOutput(i) /\ UNCHANGED <<mapper, overlapped, misused>>
    <2>1. PICK message \in Seen(i, m_lastPublished) : output' = Append(output, message)
      BY <1>5 DEF WriteOutput
    <2>2. /\ updating[i].at = "write" /\ updating' = [updating EXCEPT ![i] = Idle]
          /\ UNCHANGED m_lastPublished
      BY <1>5 DEF WriteOutput
    <2>3. message \in Messages
      <3>1. Torn \in Messages
        BY DEF Messages, Torn
      <3> QED  BY <1>1, <2>1, <3>1 DEF Seen, MapperType
    <2>4. Idle \in [at : {"idle", "copy", "write"}, n : Nat] /\ Idle.n = 0 /\ Idle.at = "idle"
      BY DEF Idle
    <2>5. updating[i] \in [at : {"idle", "copy", "write"}, n : Nat]
      BY <1>1 DEF MapperType
    <2> HIDE DEF Idle
    <2>6. /\ updating' \in [Inputs -> [at : {"idle", "copy", "write"}, n : Nat]]
          /\ updating'[i] = Idle /\ \A j \in Inputs : j # i => updating'[j] = updating[j]
      BY <1>1, <2>2, <2>4 DEF MapperType
    <2>7. /\ output' \in Seq(Messages) /\ Len(output') = Len(output) + 1
          /\ output'[Len(output) + 1] = message /\ Len(output) \in Nat
          /\ \A k \in 1..Len(output) : output'[k] = output[k]
      BY <1>1, <2>1, <2>3 DEF MapperType
    <2>8. MapperType' /\ PublisherFound' /\ CallbacksHaveSubscription'
      BY <1>1, <1>5, <2>2, <2>6, <2>7
         DEF MapperInv, MapperType, PublisherFound, CallbacksHaveSubscription
    <2>9. ASSUME NEW j \in Inputs
          PROVE  /\ SerialsRise(published[j], arrived[j], updating'[j])
                 /\ \A m : Older(m, published[j], arrived[j], updating[j])
                              => Older(m, published[j], arrived[j], updating'[j])
      <3>1. SerialsRise(published[j], arrived[j], updating[j]) /\ published[j] \in Nat
        BY <1>1 DEF MapperInv, MapperType
      <3> QED  BY <2>4, <2>6, <3>1 DEF SerialsRise, Older
    <2>10. ASSUME OneCallback, OutputsOlder, OutputsRise
           PROVE  OneCallback' /\ OutputsOlder' /\ OutputsRise'
      <3>1. \A j \in Inputs \ {i} : updating[j] = Idle
        BY <1>1, <2>10 DEF OneCallback
      <3>2. message = [input |-> i, n |-> updating[i].n]
        BY <2>1, <2>2, <2>10, <3>1 DEF Seen, Others, OneCallback
      <3>3. message.input = i /\ message.n = updating[i].n
        BY <3>2
      <3>4. OneCallback'
        BY <2>4, <2>6, <3>1 DEF OneCallback
      <3>5. Older(message, published[i], arrived[i], updating'[i])
        <4>1. SerialsRise(published[i], arrived[i], updating[i])
          BY DEF MapperInv
        <4> QED  BY <1>1, <2>6, <3>3, <4>1 DEF SerialsRise, Older
      <3>6. OutputsOlder'
        <4> SUFFICES ASSUME NEW k \in 2..Len(output')
                     PROVE  /\ output'[k].input \in Inputs
                            /\ Older(output'[k], published[output'[k].input],
                                     arrived[output'[k].input], updating'[output'[k].input])
          BY <1>1 DEF OutputsOlder
        <4>1. CASE k = Len(output) + 1
          BY <2>7, <3>3, <3>5, <4>1
        <4>2. CASE k # Len(output) + 1
          <5>1. k \in 2..Len(output) /\ output'[k] = output[k]
            BY <2>7, <4>2
          <5> QED  BY <2>9, <2>10, <5>1 DEF OutputsOlder
        <4> QED  BY <4>1, <4>2
      <3>7. OutputsRise'
        <4> SUFFICES ASSUME NEW k \in 2..Len(output'), NEW j \in 2..(k - 1),
                            output'[j].input = output'[k].input
                     PROVE  output'[j].n < output'[k].n
          BY DEF OutputsRise
        <4>1. j \in 2..Len(output) /\ output'[j] = output[j]
          BY <2>7
        <4>2. CASE k = Len(output) + 1
          <5>1. output[j].input = i /\ output'[k] = message
            BY <2>7, <3>3, <4>1, <4>2
          <5>2. Older(output[j], published[i], arrived[i], updating[i])
            BY <2>10, <4>1, <5>1 DEF OutputsOlder
          <5> QED  BY <1>1, <3>3, <4>1, <5>1, <5>2 DEF Older
        <4>3. CASE k # Len(output) + 1
          <5>1. k \in 2..Len(output) /\ output'[k] = output[k]
            BY <2>7, <4>3
          <5> QED  BY <2>10, <4>1, <5>1 DEF OutputsRise
        <4> QED  BY <4>2, <4>3
      <3> QED  BY <3>4, <3>6, <3>7
    <2> QED  BY <1>1, <1>5, <2>2, <2>8, <2>9, <2>10 DEF MapperInv
  <1> QED  BY <1>3, <1>4, <1>5 DEF PublishOutput

(* Every step of Mapper keeps the invariant.                               *)
LEMMA MapperNextInv == MapperInv /\ [MapperNextState]_mapperVars => MapperInv'
  <1> SUFFICES ASSUME MapperInv, [MapperNextState]_mapperVars PROVE MapperInv'
    OBVIOUS
  <1>1. CASE UNCHANGED mapperVars
    <2>1. MapperType /\ CallbacksHaveSubscription
      BY DEF MapperInv
    <2>2. CallbacksHaveSubscription'
      BY <1>1, <2>1 DEF mapperVars, CallbacksHaveSubscription
    <2> QED  BY <1>1, <2>1, <2>2, ValuesStay DEF mapperVars, MapperType
  <1> QED  BY <1>1, MapperMainInv, InputPublishedInv, OnParameterUpdatedInv, PublishOutputInv
           DEF MapperNextState, Update

(* What the invariant is for.                                              *)
LEMMA MapperInvImplies == MapperInv => PublisherFound /\ RepublishedInTurn
  BY DEF MapperInv, OutputsOlder, OutputsRise, RepublishedInTurn

-----------------------------------------------------------------------------
(***************************************************************************)
(* The compositions: a step of one program leaves the others where they    *)
(* are, so that each keeps its invariant.                                  *)
(***************************************************************************)

(* A step of the nodes is one of its family or none, for each family.      *)
LEMMA Ros2Steps ==
    [Ros2Next]_ros2Vars => /\ [LifecycleNextState]_lifecycleVars
                           /\ [ActionNextState]_actionVars
                           /\ [DemoNextState]_demoVars
  <1> SUFFICES ASSUME [Ros2Next]_ros2Vars
               PROVE  /\ [LifecycleNextState]_lifecycleVars
                      /\ [ActionNextState]_actionVars
                      /\ [DemoNextState]_demoVars
    OBVIOUS
  <1>1. CASE Lifecycle(LifecycleNextState)
    BY <1>1 DEF Lifecycle
  <1>2. CASE Action(ActionNextState)
    BY <1>2 DEF Action
  <1>3. CASE PubSub(DemoNextState)
    BY <1>3 DEF PubSub
  <1>4. CASE UNCHANGED ros2Vars
    BY <1>4 DEF ros2Vars
  <1> QED  BY <1>1, <1>2, <1>3, <1>4 DEF Ros2Next

(* A step of the programs is one of its program or none, for each program. *)
LEMMA AppsSteps ==
    [AppsNext]_appsVars => /\ [PublishNextState]_publishVars
                           /\ [ReadNextState]_readVars
                           /\ [RawNextState]_rawVars
                           /\ [TesterNextState]_testerVars
                           /\ [MapperNextState]_mapperVars
  <1> SUFFICES ASSUME [AppsNext]_appsVars
               PROVE  /\ [PublishNextState]_publishVars
                      /\ [ReadNextState]_readVars
                      /\ [RawNextState]_rawVars
                      /\ [TesterNextState]_testerVars
                      /\ [MapperNextState]_mapperVars
    OBVIOUS
  <1>1. CASE Publishing(PublishNextState)
    BY <1>1 DEF Publishing
  <1>2. CASE Reading(ReadNextState)
    BY <1>2 DEF Reading
  <1>3. CASE Raw(RawNextState)
    BY <1>3 DEF Raw
  <1>4. CASE Tester(TesterNextState)
    BY <1>4 DEF Tester
  <1>5. CASE Testing(TestNextState)
    BY <1>5 DEF Testing
  <1>6. CASE Mapping(MapperNextState)
    BY <1>6 DEF Mapping
  <1>7. CASE UNCHANGED appsVars
    BY <1>7 DEF appsVars
  <1> QED  BY <1>1, <1>2, <1>3, <1>4, <1>5, <1>6, <1>7 DEF AppsNext

(* A lifecycle client completes its script only when the node it led is    *)
(* finalized, and it alone did; the subscriber of the node hears only what *)
(* was sent while the node was active (lifecycle_service_client,           *)
(* lifecycle_publisher).                                                   *)
THEOREM LifecycleSafe == Ros2Spec => []LifecycleRespected
  <1>1. Ros2Init => LifecycleInv
    BY LifecycleInitInv DEF Ros2Init
  <1>2. LifecycleInv /\ [Ros2Next]_ros2Vars => LifecycleInv'
    BY Ros2Steps, LifecycleNextInv
  <1>3. LifecycleInv => LifecycleRespected
    BY LifecycleInvImplies DEF LifecycleRespected
  <1> QED  BY <1>1, <1>2, <1>3, PTL DEF Ros2Spec

(* A client of the action nodes has one goal at a time, and a result that  *)
(* succeeded is that of a run that was complete, however goals, cancels    *)
(* and detached threads interleave.                                        *)
THEOREM GoalsSafe == Ros2Spec => []GoalsInTurn
  <1>1. Ros2Init => ActionInv
    BY ActionInitInv DEF Ros2Init
  <1>2. ActionInv /\ [Ros2Next]_ros2Vars => ActionInv'
    BY Ros2Steps, ActionNextInv
  <1>3. ActionInv => GoalsInTurn
    BY ActionInvImplies DEF GoalsInTurn
  <1> QED  BY <1>1, <1>2, <1>3, PTL DEF Ros2Spec

(* The ramps of the speed publishers never wrap and the speed stays in its *)
(* range, threads keep their ids as long as their callbacks do not         *)
(* overlap, a calibration is answered for the sensor of its call, and a    *)
(* ported subscriber hears the value published.                            *)
THEOREM DemoValuesSafe == Ros2Spec => []DemoValuesHold
  <1>1. Ros2Init => DemoInv
    BY DemoInitInv DEF Ros2Init
  <1>2. DemoInv /\ [Ros2Next]_ros2Vars => DemoInv'
    BY Ros2Steps, DemoNextInv
  <1>3. DemoInv => DemoValuesHold
    BY DemoInvImplies DEF DemoValuesHold
  <1> QED  BY <1>1, <1>2, <1>3, PTL DEF Ros2Spec

(* No window of travel times is written beyond its end by calls that come  *)
(* one at a time, and its statistics come from a full round of samples, in *)
(* the publishing chain and in the read programs.                          *)
THEOREM WindowsSafe == AppsSpec => []WindowsInRange
  <1> DEFINE Inv == GoodWindows /\ ReadInv
  <1>1. AppsInit => Inv
    BY PublishInitInv, ReadInitInv DEF AppsInit
  <1>2. Inv /\ [AppsNext]_appsVars => Inv'
    BY AppsSteps, PublishNextInv, ReadNextInv
  <1>3. Inv => WindowsInRange
    BY GoodWindowsImplies, ReadInvImplies DEF WindowsInRange
  <1> QED  BY <1>1, <1>2, <1>3, PTL DEF AppsSpec

(* Whatever order the callbacks of reads, writes and subscriptions run in, *)
(* the variables of the function that waits for them, or Mapper's          *)
(* publisher, are alive when a callback uses them.                         *)
THEOREM CallbacksSafe == AppsSpec => []CallbacksFindLocals
  <1> DEFINE Inv == ReadInv /\ TesterInv /\ MapperInv
  <1>1. AppsInit => Inv
    BY ReadInitInv, TesterInitInv, MapperInitInv DEF AppsInit
  <1>2. Inv /\ [AppsNext]_appsVars => Inv'
    BY AppsSteps, ReadNextInv, TesterNextInv, MapperNextInv
  <1>3. Inv => CallbacksFindLocals
    BY ReadInvImplies, TesterInvImplies, MapperInvImplies DEF CallbacksFindLocals
  <1> QED  BY <1>1, <1>2, <1>3, PTL DEF AppsSpec

(* Every value shown was published with it: the bytes of the programs on   *)
(* Fast DDS alone are those of its number, the parameters of the stress    *)
(* tester are at most a round apart, a missed value of the read programs   *)
(* needs reads that overlap, and Mapper republishes in turn.               *)
THEOREM ValuesSafe == AppsSpec => []ValuesAsPublished
  <1> DEFINE Inv == RawInv /\ TesterInv /\ ReadInv /\ MapperInv
  <1>1. AppsInit => Inv
    BY RawInitInv, TesterInitInv, ReadInitInv, MapperInitInv DEF AppsInit
  <1>2. Inv /\ [AppsNext]_appsVars => Inv'
    BY AppsSteps, RawNextInv, TesterNextInv, ReadNextInv, MapperNextInv
  <1>3. RawInv => ShownAsPublished
    BY DEF RawInv
  <1>4. Inv => ValuesAsPublished
    BY <1>3, TesterInvImplies, ReadInvImplies, MapperInvImplies DEF ValuesAsPublished
  <1> QED  BY <1>1, <1>2, <1>4, PTL DEF AppsSpec
=============================================================================

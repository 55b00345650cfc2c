------------------------ MODULE BotConversationProofs ------------------------
(***************************************************************************)
(* The administrator's bot, for every set of customers and versions and    *)
(* all bounds: no flow misses an answer it takes, a preview is sent once   *)
(* or dropped, and the history of broadcasts agrees with the queue.  The   *)
(* pages of the list of customers partition it, whatever its length.       *)
(***************************************************************************)
EXTENDS BotConversation, CustomerPages, FiniteSetTheorems, SequenceTheorems, TLAPS

\* Conversation c holds the answers to the questions before its step, and a
\* preview, of the first n, only if it is one.
ConvOK(c, n) ==
    /\ c = [flow |-> c.flow, step |-> c.step, data |-> c.data, to |-> c.to,
            preview |-> c.preview, template |-> c.template]
    /\ c.flow \in Flows \cup {"none", "broadcast_preview"}
    /\ c.to \in Customers \cup {None}
    /\ c.flow \in Flows =>
          /\ c.step \in 1..Len(Questions[c.flow])
          /\ \A j \in 1..c.step - 1 : Questions[c.flow][j] \in c.data
    /\ c.flow = "notify_one" => {"customer_id", "name"} \subseteq c.data /\ c.to \in Customers
    /\ IF c.flow = "broadcast_preview" THEN c.preview \in 1..n /\ c.template \in Templates
                                       ELSE c.preview = 0 /\ c.template = None

\* The broadcasts of history h.
Sent(h) == {h[i].of : i \in 1..Len(h)}

\* Database d, after n previews of which some were lost: a broadcast has one
\* entry in the history and rows for the customers it was counted for.
DbOK(d, n, lost) ==
    /\ d = [status |-> d.status, rows |-> d.rows, history |-> d.history, latest |-> d.latest]
    /\ d.status \in [Customers -> {"absent", "enabled", "disabled", "deleted"}]
    /\ d.rows \subseteq (0..n) \X Customers
    /\ d.history \in Seq([of : Nat, targets : SUBSET Customers])
    /\ Sent(d.history) \subseteq (1..n) \ lost
    /\ \A i, j \in 1..Len(d.history) : d.history[i].of = d.history[j].of => i = j
    /\ \A b \in 1..n, c \in Customers : <<b, c>> \in d.rows => b \in Sent(d.history)
    /\ \A i \in 1..Len(d.history), c \in Customers :
          <<d.history[i].of, c>> \in d.rows
              <=> c \in d.history[i].targets /\ d.status[c] # "deleted"
    /\ d.latest \subseteq Versions
    /\ d.latest = {} \/ \E v \in Versions : d.latest = {v}

\* The rows of broadcast b for some customers, and the statements that insert them.
RowsOf(b, C) == {<<b, c>> : c \in C}
InsertsOf(b, C) == {[op |-> "row", arg |-> <<b, c>>] : c \in C}

\* What the statements of list l are about.
ArgOf(w) == w.arg
ArgsOf(l) == {ArgOf(l[i]) : i \in 1..Len(l)}

\* What transaction j has left to write, and what it has written by then into
\* its copy of database d; a broadcast is that of preview b.
PublishShape(j, d) ==
    /\ j.work.status = d.status /\ j.work.rows = d.rows /\ j.work.history = d.history
    /\ \E v \in Versions :
          \/ j.writes = PublishWrites(v) /\ j.work.latest = d.latest
          \/ j.writes = <<[op |-> "latest", arg |-> v]>> /\ j.work.latest = {}
          \/ j.writes = <<>> /\ j.work.latest = {v}

NotifyShape(j, d) ==
    /\ j.work.status = d.status /\ j.work.history = d.history /\ j.work.latest = d.latest
    /\ d.rows \subseteq j.work.rows
    /\ j.work.rows \subseteq d.rows \cup RowsOf(0, Customers)
    /\ j.writes \in Seq(InsertsOf(0, Customers))

BroadcastShape(j, d, b) ==
    /\ j.work.status = d.status /\ j.work.latest = d.latest
    /\ \/ /\ j.writes = <<RecordWrite(b, d)>> \o RowWrites(b, d)
          /\ j.work.rows = d.rows /\ j.work.history = d.history
       \/ /\ j.writes \in Seq(InsertsOf(b, EnabledIn(d)))
          /\ j.work.history = Append(d.history, [of |-> b, targets |-> EnabledIn(d)])
          /\ j.work.rows \cup ArgsOf(j.writes)
               = d.rows \cup RowsOf(b, EnabledIn(d))

DeleteShape(j, d) ==
    /\ j.work.history = d.history /\ j.work.latest = d.latest
    /\ \E c \in Customers :
          /\ Exists(c, d)
          /\ \/ /\ j.writes = DeleteWrites(c)
                /\ j.work.rows = d.rows /\ j.work.status = d.status
             \/ /\ j.writes = <<[op |-> "remove", arg |-> c]>>
                /\ j.work.rows = {r \in d.rows : r[2] # c} /\ j.work.status = d.status
             \/ /\ j.writes = <<>>
                /\ j.work.rows = {r \in d.rows : r[2] # c}
                /\ j.work.status = [d.status EXCEPT ![c] = "deleted"]

JobOK(j, d, c) ==
    /\ j = [kind |-> j.kind, writes |-> j.writes, work |-> j.work]
    /\ j.kind \in {"none", "broadcast", "publish", "notify", "delete"}
    /\ IF j.kind = "none" THEN j = NoJob
       ELSE j.work = [status |-> j.work.status, rows |-> j.work.rows,
                      history |-> j.work.history, latest |-> j.work.latest]
    /\ j.kind = "publish" => PublishShape(j, d)
    /\ j.kind = "notify" => NotifyShape(j, d)
    /\ j.kind = "broadcast" => c.flow = "broadcast_preview" /\ BroadcastShape(j, d, c.preview)
    /\ j.kind = "delete" => DeleteShape(j, d)

\* The preview that is shown was neither sent nor dropped.
PreviewIsOpen == Previewing => conv.preview \notin Sent(db.history) \cup dropped

\* The chat, the database as the other connections see it, and the two together.
ChatOK ==
    /\ ConvOK(conv, previews)
    /\ old \in BOOLEAN /\ (old => conv # NoConv)
    /\ DbOK(db, previews, dropped)
    /\ PreviewIsOpen
    /\ previews \in 0..MaxPreviews /\ dropped \subseteq 1..previews

IInv == ChatOK /\ JobOK(job, db, conv) /\ faults \in 0..MaxFaults

-----------------------------------------------------------------------------
(* The statements.                                                          *)

\* What each statement does to the copy of the database.
LEMMA Statements ==
  ASSUME NEW d
  PROVE  /\ \A a : Apply([op |-> "row", arg |-> a], d) = [d EXCEPT !.rows = @ \cup {a}]
         /\ \A a : Apply([op |-> "clean", arg |-> a], d) = [d EXCEPT !.rows = {r \in @ : r[2] # a}]
         /\ \A a : Apply([op |-> "remove", arg |-> a], d) = [d EXCEPT !.status[a] = "deleted"]
         /\ \A a : Apply([op |-> "record", arg |-> a], d) = [d EXCEPT !.history = Append(@, a)]
         /\ \A a : Apply([op |-> "outdate", arg |-> a], d) = [d EXCEPT !.latest = {}]
         /\ \A a : Apply([op |-> "latest", arg |-> a], d) = [d EXCEPT !.latest = @ \cup {a}]
BY DEF Apply

\* A finite set as a sequence: all of its members, and no other.
LEMMA SetToSeqLists ==
  ASSUME NEW S, IsFiniteSet(S)
  PROVE  /\ SetToSeq(S) \in Seq(S)
         /\ {SetToSeq(S)[i] : i \in 1..Len(SetToSeq(S))} = S
<1> DEFINE n == Cardinality(S)
           f == SetToSeq(S)
<1>1. n \in Nat /\ ExistsBijection(1..n, S) BY FS_CardinalityType
<1>2. PICK g \in Bijection(1..n, S) : TRUE BY <1>1 DEF ExistsBijection
<1>3. g \in [1..n -> S] /\ IsInjective(g) BY <1>2 DEF Bijection, Injection
<1>4. f \in [1..n -> S] /\ IsInjective(f) BY <1>3 DEF SetToSeq
<1>5. f \in Injection(1..n, S) BY <1>4 DEF Injection
<1>6. Cardinality(1..n) = Cardinality(S)
  BY <1>1, FS_Interval
<1>7. f \in Surjection(1..n, S) BY <1>5, <1>6, FS_Injection
<1>8. \A t \in S : \E i \in 1..n : f[i] = t BY <1>7 DEF Surjection
<1> HIDE DEF f, n
<1>9. f \in Seq(S) /\ Len(f) = n BY <1>1, <1>4
<1>10. {f[i] : i \in 1..n} = S BY <1>4, <1>8
<1> QED BY <1>9, <1>10 DEF f

\* The rows of a broadcast are written one statement each.
LEMMA RowWritesList ==
  ASSUME NEW b, NEW d
  PROVE  /\ RowWrites(b, d) \in Seq(InsertsOf(b, EnabledIn(d)))
         /\ ArgsOf(RowWrites(b, d)) = RowsOf(b, EnabledIn(d))
<1> DEFINE C == EnabledIn(d)
           S == InsertsOf(b, C)
           w == RowWrites(b, d)
           f == [c \in C |-> [op |-> "row", arg |-> <<b, c>>]]
<1>1. IsFiniteSet(C)
  <2>1. C \in SUBSET Customers BY DEF EnabledIn
  <2> QED BY <2>1, FS_Subset, ChatAssumption
<1>2. f \in Surjection(C, S)
  <2>1. f \in [C -> S] BY DEF InsertsOf
  <2>2. \A s \in S : \E c \in C : f[c] = s BY DEF InsertsOf
  <2> QED BY <2>1, <2>2 DEF Surjection
<1>3. IsFiniteSet(S) BY <1>1, <1>2, FS_Surjection
<1>4. w = SetToSeq(S) BY DEF RowWrites, InsertsOf
<1>5. w \in Seq(S) /\ {w[i] : i \in 1..Len(w)} = S BY <1>3, <1>4, SetToSeqLists
<1> HIDE DEF w, C
<1>6. ArgsOf(w) = {s.arg : s \in S} BY <1>5 DEF ArgsOf, ArgOf
<1>7. {s.arg : s \in S} = RowsOf(b, C)
  <2>1. \A s \in S : \E c \in C : s.arg = <<b, c>> BY DEF InsertsOf
  <2>2. \A c \in C : \E s \in S : s.arg = <<b, c>>
    <3> SUFFICES ASSUME NEW c \in C PROVE \E s \in S : s.arg = <<b, c>> OBVIOUS
    <3>1. [op |-> "row", arg |-> <<b, c>>] \in S BY DEF InsertsOf
    <3> QED BY <3>1
  <2> HIDE DEF S
  <2> QED BY <2>1, <2>2 DEF RowsOf
<1> QED BY <1>5, <1>6, <1>7 DEF w, C

\* Statements left after the first one.
LEMMA FirstWrite ==
  ASSUME NEW S, NEW l \in Seq(S), l # <<>>
  PROVE  /\ Head(l) \in S /\ Tail(l) \in Seq(S)
         /\ ArgsOf(l) = {ArgOf(Head(l))} \cup ArgsOf(Tail(l))
<1> DEFINE w == Head(l)
           r == Tail(l)
<1>1. /\ w \in S /\ r \in Seq(S) /\ w = l[1]
      /\ Len(l) \in Nat \ {0} /\ Len(r) = Len(l) - 1
      /\ \A i \in 1..Len(r) : r[i] = l[i + 1]
  BY HeadTailProperties, EmptySeq
<1> HIDE DEF w, r
<1>2. \A i \in 1..Len(l) : i = 1 \/ (i - 1 \in 1..Len(r) /\ r[i - 1] = l[i]) BY <1>1
<1>3. \A i \in 1..Len(r) : i + 1 \in 1..Len(l) BY <1>1
<1>4. \A i \in 1..Len(l) : ArgOf(l[i]) \in {ArgOf(w)} \cup ArgsOf(r) BY <1>1, <1>2 DEF ArgsOf
<1>5. \A i \in 1..Len(r) : ArgOf(r[i]) \in ArgsOf(l) BY <1>1, <1>3 DEF ArgsOf
<1>6. ArgOf(w) \in ArgsOf(l) BY <1>1 DEF ArgsOf
<1>7. ArgsOf(l) = {ArgOf(w)} \cup ArgsOf(r) BY <1>4, <1>5, <1>6 DEF ArgsOf
<1> QED BY <1>1, <1>7 DEF w, r

\* The first statement of a list that was put together.
LEMMA FirstOf ==
  ASSUME NEW a, NEW S, NEW s \in Seq(S)
  PROVE  Head(<<a>> \o s) = a /\ Tail(<<a>> \o s) = s
<1> DEFINE T == S \cup {a}
           w == <<a>> \o s
<1>1. s \in Seq(T) /\ <<a>> \in Seq(T)
  <2>1. Seq(S) \subseteq Seq(T) BY SeqMonotonic
  <2> QED BY <2>1
<1>2. /\ w \in Seq(T) /\ Len(w) = 1 + Len(s) /\ Len(s) \in Nat
      /\ w[1] = a /\ \A i \in 1..Len(s) : w[i + 1] = s[i]
  BY <1>1, ConcatProperties
<1>3. w # <<>> BY <1>2
<1> HIDE DEF w
<1>4. /\ Head(w) = w[1] /\ Tail(w) \in Seq(T) /\ Len(Tail(w)) = Len(w) - 1
      /\ \A i \in 1..Len(Tail(w)) : Tail(w)[i] = w[i + 1]
  BY <1>2, <1>3, HeadTailProperties
<1>5. Tail(w) = s BY <1>1, <1>2, <1>4, SeqEqual
<1> QED BY <1>2, <1>4, <1>5 DEF w

-----------------------------------------------------------------------------
(* Conversations.                                                           *)

LEMMA FlowNames ==
  /\ "none" \notin Flows /\ "broadcast_preview" \notin Flows /\ "notify_one" \in Flows
  /\ \A f \in Flows : Len(Questions[f]) \in Nat /\ 1 <= Len(Questions[f])
  /\ DirectFlows \subseteq Flows \ {"notify_one"}
  /\ \A t \in Templates \ {"maintenance_done"} : FlowOf[t] \in Flows \ {"notify_one"}
  /\ DOMAIN FlowOf \subseteq Templates
<1>1. Flows = {"add_customer", "release_version", "set_agent", "set_min_agent", "notify_all",
               "notify_one", "bcast_maintenance", "bcast_version_preview",
               "bcast_upgrade_failed", "bcast_custom"}
  BY DEF Flows, Questions
<1>2. \A f \in Flows : Len(Questions[f]) \in Nat /\ 1 <= Len(Questions[f])
  BY <1>1 DEF Questions
<1>3. DirectFlows \subseteq Flows \ {"notify_one"} BY DEF DirectFlows
<1>4. \A t \in Templates \ {"maintenance_done"} : FlowOf[t] \in Flows \ {"notify_one"}
  BY <1>1 DEF FlowOf, Templates
<1>5. DOMAIN FlowOf \subseteq Templates BY DEF FlowOf, Templates
<1> QED BY <1>1, <1>2, <1>3, <1>4, <1>5

\* How a conversation begins.
LEMMA NoConvOK ==
  ASSUME NEW n \in Nat
  PROVE  ConvOK(NoConv, n) /\ NoConv.preview = 0 /\ NoConv.flow = "none"
BY FlowNames DEF NoConv, ConvOK

LEMMA InFlow ==
  ASSUME NEW n \in Nat, NEW f \in Flows, NEW k \in 1..Len(Questions[f]), NEW D,
         NEW to \in Customers \cup {None},
         \A j \in 1..k - 1 : Questions[f][j] \in D,
         f = "notify_one" => {"customer_id", "name"} \subseteq D /\ to \in Customers,
         NEW x,
         x = [flow |-> f, step |-> k, data |-> D, to |-> to, preview |-> 0, template |-> None]
  PROVE  ConvOK(x, n) /\ x.preview = 0 /\ x.flow = f
<1>1. /\ x.flow = f /\ x.step = k /\ x.data = D /\ x.to = to
      /\ x.preview = 0 /\ x.template = None
  OBVIOUS
<1>2. x = [flow |-> x.flow, step |-> x.step, data |-> x.data, to |-> x.to,
           preview |-> x.preview, template |-> x.template]
  BY <1>1
<1>3. x.flow \in Flows /\ x.flow # "broadcast_preview" BY <1>1, FlowNames
<1>4. x.step \in 1..Len(Questions[x.flow]) /\ \A j \in 1..x.step - 1 : Questions[x.flow][j] \in x.data
  BY <1>1
<1> QED BY <1>1, <1>2, <1>3, <1>4 DEF ConvOK

LEMMA NewConversationOK ==
  ASSUME NEW n \in Nat, NEW f \in Flows \ {"notify_one"}
  PROVE  /\ ConvOK(NewConversation(f), n) /\ NewConversation(f).preview = 0
         /\ NewConversation(f).flow = f
<1> SUFFICES ASSUME NEW x, x = NewConversation(f)
             PROVE  ConvOK(x, n) /\ x.preview = 0 /\ x.flow = f
  OBVIOUS
<1>1. PICK D : D = {} OBVIOUS
<1>2. x = [flow |-> f, step |-> 1, data |-> D, to |-> None, preview |-> 0, template |-> None]
  BY <1>1 DEF NewConversation, NoConv
<1>3. 1 \in 1..Len(Questions[f]) /\ \A j \in 1..1 - 1 : Questions[f][j] \in D BY FlowNames
<1> QED BY <1>2, <1>3, InFlow

LEMMA NotifyOneOK ==
  ASSUME NEW n \in Nat, NEW c \in Customers, NEW x
  PROVE  x = [NewConversation("notify_one") EXCEPT !.data = {"customer_id", "name"}, !.to = c]
            => ConvOK(x, n) /\ x.preview = 0 /\ x.flow = "notify_one"
<1>1. PICK D : D = {"customer_id", "name"} OBVIOUS
<1>2. PICK f \in Flows : f = "notify_one" BY FlowNames
<1>3. ASSUME x = [NewConversation("notify_one") EXCEPT !.data = {"customer_id", "name"}, !.to = c]
      PROVE  x = [flow |-> f, step |-> 1, data |-> D, to |-> c, preview |-> 0, template |-> None]
  <2>1. PICK y : y = NewConversation(f) OBVIOUS
  <2>2. y = [flow |-> f, step |-> 1, data |-> {}, to |-> None, preview |-> 0, template |-> None]
    BY <2>1 DEF NewConversation, NoConv
  <2>3. x = [y EXCEPT !.data = D, !.to = c] BY <1>1, <1>2, <1>3, <2>1
  <2> QED BY <2>2, <2>3
<1>4. 1 \in 1..Len(Questions[f]) /\ \A j \in 1..1 - 1 : Questions[f][j] \in D
  BY FlowNames
<1>5. c \in Customers \cup {None} /\ {"customer_id", "name"} \subseteq D BY <1>1
<1>6. ASSUME x = [flow |-> f, step |-> 1, data |-> D, to |-> c, preview |-> 0, template |-> None]
      PROVE  ConvOK(x, n) /\ x.preview = 0 /\ x.flow = f
  BY <1>4, <1>5, <1>6, InFlow
<1> QED BY <1>2, <1>3, <1>6

\* The preview of whatever has been collected.
LEMMA PreviewOK ==
  ASSUME previews \in Nat, NEW t \in Templates, NEW c, Preview(c, t),
         c = [flow |-> c.flow, step |-> c.step, data |-> c.data, to |-> c.to,
              preview |-> c.preview, template |-> c.template],
         c.to \in Customers \cup {None}
  PROVE  ConvOK(conv', previews + 1) /\ conv'.preview = previews + 1
<1>1. \A x : x = [c EXCEPT !.flow = "broadcast_preview", !.step = 1,
                            !.data = @ \cup {"preview_content"},
                            !.preview = previews + 1, !.template = t]
                 => ConvOK(x, previews + 1) /\ x.preview = previews + 1
  <2> SUFFICES ASSUME NEW x,
                      x = [c EXCEPT !.flow = "broadcast_preview", !.step = 1,
                                    !.data = @ \cup {"preview_content"},
                                    !.preview = previews + 1, !.template = t]
               PROVE  ConvOK(x, previews + 1) /\ x.preview = previews + 1
    OBVIOUS
  <2>1. x = [flow |-> "broadcast_preview", step |-> 1, data |-> c.data \cup {"preview_content"},
             to |-> c.to, preview |-> previews + 1, template |-> t]
    OBVIOUS
  <2>2. /\ x.flow = "broadcast_preview" /\ x.to \in Customers \cup {None}
        /\ x.preview = previews + 1 /\ x.template \in Templates
    BY <2>1
  <2>3. x = [flow |-> x.flow, step |-> x.step, data |-> x.data, to |-> x.to,
             preview |-> x.preview, template |-> x.template]
    BY <2>1
  <2>4. x.flow \notin Flows /\ x.preview \in 1..previews + 1 BY <2>2, FlowNames
  <2> QED BY <2>2, <2>3, <2>4 DEF ConvOK
<1> QED BY <1>1 DEF Preview

\* One more answer.
LEMMA AnswerOK ==
  ASSUME previews \in Nat, ConvOK(conv, previews), conv.flow \in Flows, ~AtLastStep, NEW x
  PROVE  x = [conv EXCEPT !.data = @ \cup Stored, !.step = @ + 1]
            => ConvOK(x, previews) /\ x.flow = conv.flow /\ x.preview = conv.preview
<1> DEFINE L == Len(Questions[conv.flow])
<1>1. L \in Nat /\ conv.step \in 1..L /\ conv.step # L
  BY FlowNames DEF ConvOK, AtLastStep
<1>2. PICK D : D = conv.data \cup {Questions[conv.flow][conv.step]} OBVIOUS
<1>3. PICK k : k = conv.step + 1 OBVIOUS
<1>4. PICK f \in Flows : f = conv.flow OBVIOUS
<1>5. k \in 1..Len(Questions[f]) BY <1>1, <1>3, <1>4
<1>6. ASSUME NEW j \in 1..k - 1 PROVE Questions[f][j] \in D
  <2>1. j \in 1..conv.step - 1 \/ j = conv.step BY <1>1, <1>3
  <2>2. ASSUME j \in 1..conv.step - 1 PROVE Questions[conv.flow][j] \in conv.data
    BY <2>2 DEF ConvOK
  <2> QED BY <1>2, <1>4, <2>1, <2>2
<1>7. PICK to \in Customers \cup {None} : to = conv.to BY DEF ConvOK
<1>8. conv.preview = 0 /\ conv.template = None BY FlowNames DEF ConvOK
<1>9. f = "notify_one" => {"customer_id", "name"} \subseteq D /\ to \in Customers
  BY <1>2, <1>4, <1>7 DEF ConvOK
<1>10. ASSUME x = [conv EXCEPT !.data = @ \cup Stored, !.step = @ + 1]
       PROVE  x = [flow |-> f, step |-> k, data |-> D, to |-> to, preview |-> 0, template |-> None]
  BY <1>2, <1>3, <1>4, <1>7, <1>8, <1>10 DEF ConvOK, Stored
<1> HIDE DEF L
<1>11. ASSUME x = [flow |-> f, step |-> k, data |-> D, to |-> to, preview |-> 0, template |-> None]
       PROVE  ConvOK(x, previews) /\ x.preview = 0 /\ x.flow = f
  BY <1>5, <1>6, <1>9, <1>11, InFlow
<1> QED BY <1>4, <1>8, <1>10, <1>11

-----------------------------------------------------------------------------
(* The database.                                                            *)

LEMMA DbType ==
  ASSUME NEW d, NEW n \in Nat, NEW lost, DbOK(d, n, lost)
  PROVE  /\ Len(d.history) \in Nat
         /\ \A i \in 1..Len(d.history) :
               /\ d.history[i].of \in Nat /\ d.history[i].of \in Sent(d.history)
               /\ d.history[i].targets \subseteq Customers
         /\ EnabledIn(d) \subseteq Customers
         /\ d.history \in Seq([of : Nat, targets : SUBSET Customers])
<1>1. d.history \in Seq([of : Nat, targets : SUBSET Customers]) BY DEF DbOK
<1>2. \A i \in 1..Len(d.history) : d.history[i].of \in Nat /\ d.history[i].targets \subseteq Customers
  <2> DEFINE R == [of : Nat, targets : SUBSET Customers]
  <2>1. \A r \in R : r.of \in Nat /\ r.targets \subseteq Customers OBVIOUS
  <2>2. d.history \in Seq(R) BY <1>1
  <2> HIDE DEF R
  <2>3. \A i \in 1..Len(d.history) : d.history[i] \in R BY <2>2
  <2> QED BY <2>1, <2>3
<1>3. \A i \in 1..Len(d.history) : d.history[i].of \in Sent(d.history) BY DEF Sent
<1>4. EnabledIn(d) \subseteq Customers BY DEF EnabledIn
<1> QED BY <1>1, <1>2, <1>3, <1>4

\* More previews, and others lost, as long as none of them was sent.
LEMMA DbMore ==
  ASSUME NEW d, NEW n \in Nat, NEW m \in Nat, n <= m, NEW lost, NEW more, DbOK(d, n, lost),
         Sent(d.history) \cap more = {}
  PROVE  DbOK(d, m, more)
<1>1. Sent(d.history) \subseteq (1..m) \ more BY DEF DbOK
<1>2. d.rows \subseteq (0..m) \X Customers BY DEF DbOK
<1>3. ASSUME NEW b \in 1..m, NEW c \in Customers, <<b, c>> \in d.rows
      PROVE  b \in Sent(d.history)
  <2>1. b \in 1..n BY <1>3 DEF DbOK
  <2> QED BY <1>3, <2>1 DEF DbOK
<1> QED BY <1>1, <1>2, <1>3 DEF DbOK

\* A statement that tells no broadcast from another: who is deleted stays the
\* same, and so do the rows but for plain notifications.
LEMMA DbPlain ==
  ASSUME NEW d, NEW e, NEW n \in Nat, NEW lost, DbOK(d, n, lost),
         e = [status |-> e.status, rows |-> e.rows, history |-> e.history, latest |-> e.latest],
         e.history = d.history, e.latest = d.latest,
         e.status \in [Customers -> {"absent", "enabled", "disabled", "deleted"}],
         \A c \in Customers : e.status[c] = "deleted" <=> d.status[c] = "deleted",
         d.rows \subseteq e.rows, e.rows \subseteq d.rows \cup RowsOf(0, Customers)
  PROVE  DbOK(e, n, lost)
<1>1. e.rows \subseteq (0..n) \X Customers BY DEF DbOK, RowsOf
<1>2. \A b \in Nat \ {0}, c \in Customers : <<b, c>> \in e.rows <=> <<b, c>> \in d.rows
  BY DEF RowsOf
<1>3. \A b \in 1..n, c \in Customers : <<b, c>> \in e.rows => b \in Sent(e.history)
  BY <1>2 DEF DbOK
<1>4. ASSUME NEW i \in 1..Len(e.history), NEW c \in Customers
      PROVE  <<e.history[i].of, c>> \in e.rows
                <=> c \in e.history[i].targets /\ e.status[c] # "deleted"
  <2>1. d.history[i].of \in Sent(d.history) BY DbType
  <2>2. e.history[i].of \in Nat \ {0} BY <2>1 DEF DbOK
  <2> QED BY <1>2, <2>2 DEF DbOK
<1> QED BY <1>1, <1>3, <1>4 DEF DbOK

\* The transaction of a release.
LEMMA DbPublished ==
  ASSUME NEW d, NEW e, NEW n \in Nat, NEW lost, DbOK(d, n, lost),
         e = [status |-> e.status, rows |-> e.rows, history |-> e.history, latest |-> e.latest],
         e.status = d.status, e.rows = d.rows, e.history = d.history,
         NEW v \in Versions, e.latest = {v}
  PROVE  DbOK(e, n, lost)
BY DEF DbOK

\* That of a broadcast: all of its rows come with its entry.
LEMMA DbSent ==
  ASSUME NEW d, NEW e, NEW n \in Nat, NEW lost, DbOK(d, n, lost),
         e = [status |-> e.status, rows |-> e.rows, history |-> e.history, latest |-> e.latest],
         e.status = d.status, e.latest = d.latest,
         NEW b \in 1..n, b \notin Sent(d.history), b \notin lost,
         e.history = Append(d.history, [of |-> b, targets |-> EnabledIn(d)]),
         e.rows = d.rows \cup RowsOf(b, EnabledIn(d))
  PROVE  DbOK(e, n, lost) /\ Sent(e.history) = Sent(d.history) \cup {b}
<1> DEFINE r == [of |-> b, targets |-> EnabledIn(d)]
           L == Len(d.history)
           R == [of : Nat, targets : SUBSET Customers]
<1>1. r \in R /\ d.history \in Seq(R)
  <2>1. r \in R BY DEF EnabledIn
  <2> QED BY <2>1, DbType
<1>2. /\ e.history \in Seq(R) /\ Len(e.history) = L + 1 /\ L \in Nat
      /\ \A i \in 1..L : e.history[i] = d.history[i]
      /\ e.history[L + 1] = r
  BY <1>1, AppendProperties
<1>3. r.of = b /\ r.targets = EnabledIn(d) OBVIOUS
<1>4. \A i \in 1..L : d.history[i].of \in Sent(d.history) /\ d.history[i].of # b BY DEF Sent
<1> HIDE DEF r, R
<1>5. \A i \in 1..L + 1 : i \in 1..L \/ i = L + 1 BY <1>2
<1>6. Sent(e.history) = Sent(d.history) \cup {b}
  <2>1. \A i \in 1..L + 1 : e.history[i].of \in Sent(d.history) \cup {b}
    BY <1>2, <1>3, <1>4, <1>5
  <2>2. \A i \in 1..L : d.history[i].of \in Sent(e.history)
    <3> SUFFICES ASSUME NEW i \in 1..L PROVE d.history[i].of \in Sent(e.history) OBVIOUS
    <3>1. i \in 1..L + 1 /\ e.history[i].of = d.history[i].of BY <1>2
    <3> QED BY <1>2, <3>1 DEF Sent
  <2>3. b \in Sent(e.history)
    <3>1. L + 1 \in 1..Len(e.history) /\ e.history[L + 1].of = b BY <1>2, <1>3
    <3> QED BY <3>1 DEF Sent
  <2>4. Sent(e.history) \subseteq Sent(d.history) \cup {b} BY <1>2, <2>1 DEF Sent
  <2>5. Sent(d.history) \subseteq Sent(e.history) BY <2>2 DEF Sent
  <2> QED BY <2>3, <2>4, <2>5
<1>7. ASSUME NEW i \in 1..L + 1, NEW j \in 1..L + 1, e.history[i].of = e.history[j].of
      PROVE  i = j
  <2>1. CASE i \in 1..L /\ j \in 1..L BY <1>2, <1>7, <2>1 DEF DbOK
  <2>2. CASE i = L + 1 /\ j \in 1..L BY <1>2, <1>3, <1>4, <1>7, <2>2
  <2>3. CASE i \in 1..L /\ j = L + 1 BY <1>2, <1>3, <1>4, <1>7, <2>3
  <2> QED BY <1>5, <2>1, <2>2, <2>3
<1>8. \A a \in Nat, c \in Customers : <<a, c>> \in e.rows <=>
          <<a, c>> \in d.rows \/ (a = b /\ c \in EnabledIn(d))
  BY DEF RowsOf
<1>9. \A c \in Customers : <<b, c>> \notin d.rows BY DEF DbOK
<1>10. ASSUME NEW i \in 1..L + 1, NEW c \in Customers
       PROVE  <<e.history[i].of, c>> \in e.rows
                 <=> c \in e.history[i].targets /\ e.status[c] # "deleted"
  <2>1. CASE i \in 1..L
    <3>1. e.history[i] = d.history[i] /\ d.history[i].of \in Nat /\ d.history[i].of # b
      BY <1>2, <1>4, <2>1, DbType
    <3> QED BY <1>8, <2>1, <3>1 DEF DbOK
  <2>2. CASE i = L + 1
    <3>1. <<b, c>> \in e.rows <=> c \in EnabledIn(d) BY <1>8, <1>9
    <3>2. c \in EnabledIn(d) => e.status[c] # "deleted" BY DEF EnabledIn
    <3> QED BY <1>2, <1>3, <2>2, <3>1, <3>2
  <2> QED BY <1>5, <2>1, <2>2
<1>11. e.rows \subseteq (0..n) \X Customers
  <2>1. d.rows \subseteq (0..n) \X Customers BY DEF DbOK
  <2>2. RowsOf(b, EnabledIn(d)) \subseteq (0..n) \X Customers BY DEF RowsOf, EnabledIn
  <2> QED BY <2>1, <2>2
<1>12. \A a \in 1..n, c \in Customers : <<a, c>> \in e.rows => a \in Sent(e.history)
  BY <1>6, <1>8 DEF DbOK
<1>13. Sent(e.history) \subseteq (1..n) \ lost BY <1>6 DEF DbOK
<1> QED BY <1>2, <1>6, <1>7, <1>10, <1>11, <1>12, <1>13 DEF DbOK, R

\* That of a deletion: the rows go with the customer.
LEMMA DbDeleted ==
  ASSUME NEW d, NEW e, NEW n \in Nat, NEW lost, DbOK(d, n, lost),
         e = [status |-> e.status, rows |-> e.rows, history |-> e.history, latest |-> e.latest],
         e.history = d.history, e.latest = d.latest,
         NEW c \in Customers,
         e.rows = {r \in d.rows : r[2] # c},
         e.status = [d.status EXCEPT ![c] = "deleted"]
  PROVE  DbOK(e, n, lost)
<1>1. \A b \in Nat, x \in Customers : <<b, x>> \in e.rows <=> <<b, x>> \in d.rows /\ x # c
  OBVIOUS
<1>2. e.rows \subseteq (0..n) \X Customers BY DEF DbOK
<1>3. \A b \in 1..n, x \in Customers : <<b, x>> \in e.rows => b \in Sent(e.history)
  BY <1>1 DEF DbOK
<1>4. e.status \in [Customers -> {"absent", "enabled", "disabled", "deleted"}] BY DEF DbOK
<1>5. \A x \in Customers : e.status[x] # "deleted" <=> d.status[x] # "deleted" /\ x # c
  BY DEF DbOK
<1>6. ASSUME NEW i \in 1..Len(e.history), NEW x \in Customers
      PROVE  <<e.history[i].of, x>> \in e.rows
                <=> x \in e.history[i].targets /\ e.status[x] # "deleted"
  <2>1. e.history[i].of \in Nat BY DbType
  <2> QED BY <1>1, <1>5, <2>1 DEF DbOK
<1> QED BY <1>2, <1>3, <1>4, <1>6 DEF DbOK
-----------------------------------------------------------------------------
(* The chat.                                                                *)

LEMMA ChatTypes ==
  ASSUME ChatOK
  PROVE  /\ previews \in Nat /\ PreviewOf(conv) \subseteq 1..previews
         /\ PreviewOf(conv) \cap Sent(db.history) = {}
BY ChatAssumption DEF ChatOK, ConvOK, PreviewOf, PreviewIsOpen, Previewing

\* Another conversation, or none, takes the place of this one.
LEMMA ReplaceKeeps ==
  ASSUME ChatOK, NEW c, Replace(c), ConvOK(c, previews), c.preview = 0, previews' = previews,
         DbOK(db', previews, dropped), db'.history = db.history
  PROVE  ChatOK'
<1>1. conv' = c /\ old' = FALSE /\ dropped' = dropped \cup PreviewOf(conv) BY DEF Replace
<1>2. previews \in Nat /\ PreviewOf(conv) \subseteq 1..previews
      /\ PreviewOf(conv) \cap Sent(db.history) = {}
  BY ChatTypes
<1>3. Sent(db'.history) \cap dropped' = {} BY <1>1, <1>2 DEF DbOK
<1>4. DbOK(db', previews, dropped') BY <1>2, <1>3, DbMore
<1>5. c.flow # "broadcast_preview" BY DEF ConvOK
<1> QED BY <1>1, <1>2, <1>4, <1>5 DEF ChatOK, PreviewIsOpen, Previewing

\* It ends without one, its preview having been sent or the error told.
LEMMA EndKeeps ==
  ASSUME ChatOK, conv' = NoConv, old' = FALSE, previews' = previews, dropped' = dropped,
         DbOK(db', previews, dropped)
  PROVE  ChatOK'
<1>1. ConvOK(NoConv, previews) /\ NoConv.flow = "none" BY ChatTypes, NoConvOK
<1> QED BY <1>1 DEF ChatOK, PreviewIsOpen, Previewing

\* It stays, and may grow old.
LEMMA StayKeeps ==
  ASSUME ChatOK, conv' = conv, previews' = previews, dropped' = dropped,
         old' = old \/ (conv # NoConv /\ old' = TRUE),
         DbOK(db', previews, dropped), db'.history = db.history
  PROVE  ChatOK'
<1>1. old' \in BOOLEAN /\ (old' => conv' # NoConv)
  <2>1. CASE old' = old BY <2>1 DEF ChatOK
  <2>2. CASE conv # NoConv /\ old' = TRUE BY <2>2
  <2> QED BY <2>1, <2>2
<1>2. PreviewIsOpen' BY DEF ChatOK, PreviewIsOpen, Previewing
<1> QED BY <1>1, <1>2 DEF ChatOK

\* A preview is one that was neither sent nor dropped so far.
LEMMA PreviewKeeps ==
  ASSUME ChatOK, NEW t \in Templates, NEW c, Preview(c, t),
         c = [flow |-> c.flow, step |-> c.step, data |-> c.data, to |-> c.to,
              preview |-> c.preview, template |-> c.template],
         c.to \in Customers \cup {None}, db' = db
  PROVE  ChatOK'
<1>1. previews \in Nat /\ PreviewOf(conv) \subseteq 1..previews
      /\ PreviewOf(conv) \cap Sent(db.history) = {}
  BY ChatTypes
<1>2. /\ previews < MaxPreviews /\ previews' = previews + 1 /\ old' = FALSE
      /\ dropped' = dropped \cup PreviewOf(conv)
  BY DEF Preview
<1>3. ConvOK(conv', previews') /\ conv'.preview = previews + 1 BY <1>1, <1>2, PreviewOK
<1>4. DbOK(db, previews, dropped) /\ dropped \subseteq 1..previews /\ previews \in 0..MaxPreviews
  BY DEF ChatOK
<1>5. Sent(db.history) \subseteq (1..previews) \ dropped BY <1>4 DEF DbOK
<1>6. DbOK(db', previews', dropped')
  <2>1. previews + 1 \in Nat /\ previews <= previews + 1 BY <1>1
  <2>2. Sent(db.history) \cap dropped' = {} BY <1>1, <1>2, <1>5
  <2> QED BY <1>1, <1>2, <1>4, <2>1, <2>2, DbMore
<1>7. conv'.preview \notin Sent(db'.history) \cup dropped' BY <1>1, <1>2, <1>3, <1>4, <1>5
<1>8. conv' # NoConv BY <1>1, <1>3, NoConvOK
<1>9. previews' \in 0..MaxPreviews /\ dropped' \subseteq 1..previews'
  BY <1>1, <1>2, <1>4, ChatAssumption
<1> QED BY <1>2, <1>3, <1>6, <1>7, <1>8, <1>9 DEF ChatOK, PreviewIsOpen

\* A template is asked for, or shown at once if nothing has to be filled in.
LEMMA StartTemplateKeeps ==
  ASSUME ChatOK, NEW t \in Templates, StartTemplate(t), db' = db
  PROVE  ChatOK'
<1>1. CASE t = "maintenance_done"
  <2>1. PICK c : c = NewConversation("broadcast_preview") OBVIOUS
  <2>2. c = [flow |-> c.flow, step |-> c.step, data |-> c.data, to |-> c.to,
             preview |-> c.preview, template |-> c.template] /\ c.to \in Customers \cup {None}
    BY <2>1 DEF NewConversation, NoConv
  <2>3. Preview(c, t) BY <1>1, <2>1 DEF StartTemplate
  <2> QED BY <2>2, <2>3, PreviewKeeps
<1>2. CASE t # "maintenance_done"
  <2>1. Replace(NewConversation(FlowOf[t])) /\ previews' = previews BY <1>2 DEF StartTemplate
  <2>2. FlowOf[t] \in Flows \ {"notify_one"} BY <1>2, FlowNames
  <2>3. ConvOK(NewConversation(FlowOf[t]), previews) /\ NewConversation(FlowOf[t]).preview = 0
    BY <2>2, ChatTypes, NewConversationOK
  <2>4. DbOK(db', previews, dropped) BY DEF ChatOK
  <2> QED BY <2>1, <2>3, <2>4, ReplaceKeeps
<1> QED BY <1>1, <1>2

-----------------------------------------------------------------------------
(* Statements outside of a transaction.                                     *)

LEMMA NotifyKeeps ==
  ASSUME ChatOK, faults \in 0..MaxFaults, NEW c \in Customers, NotifyCustomer(c)
  PROVE  /\ DbOK(db', previews, dropped) /\ db'.history = db.history /\ db'.latest = db.latest
         /\ faults' \in 0..MaxFaults
<1>1. DbOK(db, previews, dropped) /\ previews \in Nat BY ChatTypes DEF ChatOK
<1>2. CASE db' = db BY <1>1, <1>2, ChatAssumption DEF NotifyCustomer, Fault
<1>3. CASE db' = Apply([op |-> "row", arg |-> <<0, c>>], db) /\ faults' = faults
  <2>1. db' = [db EXCEPT !.rows = @ \cup {<<0, c>>}] BY <1>3, Statements
  <2>2. db = [status |-> db.status, rows |-> db.rows, history |-> db.history, latest |-> db.latest]
    BY <1>1 DEF DbOK
  <2>3. /\ db' = [status |-> db'.status, rows |-> db'.rows, history |-> db'.history, latest |-> db'.latest]
        /\ db'.status = db.status /\ db'.rows = db.rows \cup {<<0, c>>}
        /\ db'.history = db.history /\ db'.latest = db.latest
    BY <2>1, <2>2
  <2>4. db.rows \subseteq db'.rows /\ db'.rows \subseteq db.rows \cup RowsOf(0, Customers)
    BY <2>3 DEF RowsOf
  <2>5. db'.status \in [Customers -> {"absent", "enabled", "disabled", "deleted"}]
    BY <1>1, <2>3 DEF DbOK
  <2>6. DbOK(db', previews, dropped) BY <1>1, <2>3, <2>4, <2>5, DbPlain
  <2> QED BY <1>3, <2>3, <2>6
<1> QED BY <1>2, <1>3 DEF NotifyCustomer

\* Enabling, disabling and creating a customer.
LEMMA StatusKeeps ==
  ASSUME ChatOK, NEW c \in Customers, db.status[c] # "deleted",
         NEW s \in {"enabled", "disabled"}, db' = [db EXCEPT !.status[c] = s]
  PROVE  DbOK(db', previews, dropped) /\ db'.history = db.history /\ db'.latest = db.latest
<1>1. DbOK(db, previews, dropped) /\ previews \in Nat BY ChatTypes DEF ChatOK
<1>2. /\ db = [status |-> db.status, rows |-> db.rows, history |-> db.history, latest |-> db.latest]
      /\ db.status \in [Customers -> {"absent", "enabled", "disabled", "deleted"}]
  BY <1>1 DEF DbOK
<1>3. /\ db' = [status |-> db'.status, rows |-> db'.rows, history |-> db'.history, latest |-> db'.latest]
      /\ db'.status = [db.status EXCEPT ![c] = s] /\ db'.rows = db.rows
      /\ db'.history = db.history /\ db'.latest = db.latest
  BY <1>2
<1>4. db'.status \in [Customers -> {"absent", "enabled", "disabled", "deleted"}] BY <1>2, <1>3
<1>5. \A x \in Customers : db'.status[x] = "deleted" <=> db.status[x] = "deleted"
  BY <1>2, <1>3
<1> QED BY <1>1, <1>3, <1>4, <1>5, DbPlain

LEMMA CreateKeeps ==
  ASSUME ChatOK, faults \in 0..MaxFaults, NEW c \in Customers, CreateCustomer(c)
  PROVE  /\ DbOK(db', previews, dropped) /\ db'.history = db.history /\ db'.latest = db.latest
         /\ faults' \in 0..MaxFaults
<1>1. CASE db' = db BY <1>1, ChatAssumption DEF CreateCustomer, Fault, ChatOK
<1>2. CASE db.status[c] = "absent" /\ db' = [db EXCEPT !.status[c] = "enabled"] /\ faults' = faults
  BY <1>2, StatusKeeps
<1> QED BY <1>1, <1>2 DEF CreateCustomer
-----------------------------------------------------------------------------
(* Transactions.                                                            *)

\* None, or one that has written nothing yet.
LEMMA NoJobOK == ASSUME NEW d, NEW c PROVE JobOK(NoJob, d, c)
BY DEF NoJob, JobOK

LEMMA PublishOK ==
  ASSUME NEW d, NEW n \in Nat, NEW lost, DbOK(d, n, lost), NEW v \in Versions, NEW c
  PROVE  JobOK(PublishRelease(v, d), d, c)
<1> SUFFICES ASSUME NEW j, j = PublishRelease(v, d) PROVE JobOK(j, d, c) OBVIOUS
<1>1. j = [kind |-> "publish", writes |-> PublishWrites(v), work |-> d]
  BY DEF PublishRelease, Transaction
<1>2. j.kind = "publish" /\ j.writes = PublishWrites(v) /\ j.work = d BY <1>1
<1>3. j = [kind |-> j.kind, writes |-> j.writes, work |-> j.work] BY <1>1
<1>4. d = [status |-> d.status, rows |-> d.rows, history |-> d.history, latest |-> d.latest]
  BY DEF DbOK
<1>5. PublishShape(j, d) BY <1>2 DEF PublishShape
<1> QED BY <1>2, <1>3, <1>4, <1>5 DEF JobOK

LEMMA NotifyAllOK ==
  ASSUME NEW d, NEW n \in Nat, NEW lost, DbOK(d, n, lost), NEW c
  PROVE  JobOK(BroadcastNotification(d), d, c)
<1> SUFFICES ASSUME NEW j, j = BroadcastNotification(d) PROVE JobOK(j, d, c) OBVIOUS
<1>1. j = [kind |-> "notify", writes |-> RowWrites(0, d), work |-> d]
  BY DEF BroadcastNotification, Transaction
<1>2. j.kind = "notify" /\ j.writes = RowWrites(0, d) /\ j.work = d BY <1>1
<1>3. j = [kind |-> j.kind, writes |-> j.writes, work |-> j.work] BY <1>1
<1>4. d = [status |-> d.status, rows |-> d.rows, history |-> d.history, latest |-> d.latest]
  BY DEF DbOK
<1>5. j.writes \in Seq(InsertsOf(0, Customers))
  <2>1. InsertsOf(0, EnabledIn(d)) \subseteq InsertsOf(0, Customers) BY DEF InsertsOf, EnabledIn
  <2>2. j.writes \in Seq(InsertsOf(0, EnabledIn(d))) BY <1>2, RowWritesList
  <2> QED BY <2>1, <2>2
<1>6. NotifyShape(j, d) BY <1>2, <1>5 DEF NotifyShape
<1> QED BY <1>2, <1>3, <1>4, <1>6 DEF JobOK

LEMMA BroadcastOK ==
  ASSUME NEW d, NEW n \in Nat, NEW lost, DbOK(d, n, lost),
         NEW c, c.flow = "broadcast_preview"
  PROVE  JobOK(BroadcastWithRecord(c.preview, d), d, c)
<1> SUFFICES ASSUME NEW j, j = BroadcastWithRecord(c.preview, d) PROVE JobOK(j, d, c) OBVIOUS
<1>1. PICK w : w = <<RecordWrite(c.preview, d)>> \o RowWrites(c.preview, d) OBVIOUS
<1>2. j = [kind |-> "broadcast", writes |-> w, work |-> d]
  BY <1>1 DEF BroadcastWithRecord, Transaction
<1>3. j.kind = "broadcast" /\ j.writes = w /\ j.work = d BY <1>2
<1>4. j = [kind |-> j.kind, writes |-> j.writes, work |-> j.work] BY <1>2
<1>5. d = [status |-> d.status, rows |-> d.rows, history |-> d.history, latest |-> d.latest]
  BY DEF DbOK
<1>6. BroadcastShape(j, d, c.preview) BY <1>1, <1>3 DEF BroadcastShape
<1> QED BY <1>3, <1>4, <1>5, <1>6 DEF JobOK

LEMMA DeleteOK ==
  ASSUME NEW d, NEW n \in Nat, NEW lost, DbOK(d, n, lost), NEW x \in Customers, Exists(x, d), NEW c
  PROVE  JobOK(Transaction("delete", DeleteWrites(x), d), d, c)
<1> SUFFICES ASSUME NEW j, j = Transaction("delete", DeleteWrites(x), d) PROVE JobOK(j, d, c)
  OBVIOUS
<1>1. j = [kind |-> "delete", writes |-> DeleteWrites(x), work |-> d] BY DEF Transaction
<1>2. j.kind = "delete" /\ j.writes = DeleteWrites(x) /\ j.work = d BY <1>1
<1>3. j = [kind |-> j.kind, writes |-> j.writes, work |-> j.work] BY <1>1
<1>4. d = [status |-> d.status, rows |-> d.rows, history |-> d.history, latest |-> d.latest]
  BY DEF DbOK
<1>5. DeleteShape(j, d) BY <1>2 DEF DeleteShape
<1> QED BY <1>2, <1>3, <1>4, <1>5 DEF JobOK

\* Only a transaction has something to write or to commit.
LEMMA Busy == ASSUME NEW d, NEW c, JobOK(job, d, c) PROVE Idle <=> job.kind = "none"
BY DEF JobOK, Idle, NoJob

\* The next statement of each.
LEMMA WriteStep ==
  ASSUME NEW c, JobOK(job, db, c), Write
  PROVE  JobOK(job', db, c)
<1>1. PICK w, r : w = Head(job.writes) /\ r = Tail(job.writes) OBVIOUS
<1>2. job = [kind |-> job.kind, writes |-> job.writes, work |-> job.work] BY DEF JobOK
<1>3. job.writes # <<>> /\ job' = [job EXCEPT !.writes = r, !.work = Apply(w, @)]
  BY <1>1 DEF Write
<1>4. /\ job' = [kind |-> job'.kind, writes |-> job'.writes, work |-> job'.work]
      /\ job'.kind = job.kind /\ job'.writes = r /\ job'.work = Apply(w, job.work)
  BY <1>2, <1>3
<1>5. job.kind # "none" BY <1>3 DEF JobOK, NoJob
<1>6. job.work = [status |-> job.work.status, rows |-> job.work.rows,
                  history |-> job.work.history, latest |-> job.work.latest]
  BY <1>5 DEF JobOK
<1> DEFINE e == job.work
           e2 == job'.work
           Whole == e2 = [status |-> e2.status, rows |-> e2.rows, history |-> e2.history, latest |-> e2.latest]
<1>7. CASE job.kind = "publish"
  <2>1. PublishShape(job, db) BY <1>7 DEF JobOK
  <2>2. PICK v \in Versions :
          \/ job.writes = PublishWrites(v) /\ e.latest = db.latest
          \/ job.writes = <<[op |-> "latest", arg |-> v]>> /\ e.latest = {}
    BY <1>3, <2>1 DEF PublishShape
  <2>3. CASE job.writes = PublishWrites(v)
    <3>1. w = [op |-> "outdate", arg |-> v] /\ r = <<[op |-> "latest", arg |-> v]>>
      BY <1>1, <2>3 DEF PublishWrites
    <3>2. e2 = [e EXCEPT !.latest = {}] BY <1>4, <3>1, Statements
    <3>3. Whole /\ e2.status = e.status /\ e2.rows = e.rows /\ e2.history = e.history /\ e2.latest = {}
      BY <1>6, <3>2
    <3>4. PublishShape(job', db) BY <1>4, <2>1, <3>1, <3>3 DEF PublishShape
    <3> QED BY <1>4, <1>7, <3>3, <3>4 DEF JobOK
  <2>4. CASE job.writes = <<[op |-> "latest", arg |-> v]>> /\ e.latest = {}
    <3>1. w = [op |-> "latest", arg |-> v] /\ r = <<>> BY <1>1, <2>4
    <3>2. e2 = [e EXCEPT !.latest = @ \cup {v}] BY <1>4, <3>1, Statements
    <3>3. Whole /\ e2.status = e.status /\ e2.rows = e.rows /\ e2.history = e.history
          /\ e2.latest = e.latest \cup {v}
      BY <1>6, <3>2
    <3>4. PublishShape(job', db) BY <1>4, <2>1, <2>4, <3>1, <3>3 DEF PublishShape
    <3> QED BY <1>4, <1>7, <3>3, <3>4 DEF JobOK
  <2> QED BY <2>2, <2>3, <2>4
<1>8. CASE job.kind = "notify"
  <2>1. NotifyShape(job, db) BY <1>8 DEF JobOK
  <2>2. w \in InsertsOf(0, Customers) /\ r \in Seq(InsertsOf(0, Customers))
    BY <1>1, <1>3, <2>1, FirstWrite DEF NotifyShape
  <2>3. PICK x \in Customers : w = [op |-> "row", arg |-> <<0, x>>] BY <2>2 DEF InsertsOf
  <2>4. e2 = [e EXCEPT !.rows = @ \cup {<<0, x>>}] BY <1>4, <2>3, Statements
  <2>5. Whole /\ e2.status = e.status /\ e2.rows = e.rows \cup {<<0, x>>}
        /\ e2.history = e.history /\ e2.latest = e.latest
    BY <1>6, <2>4
  <2>6. <<0, x>> \in RowsOf(0, Customers) BY DEF RowsOf
  <2>7. NotifyShape(job', db) BY <1>4, <2>1, <2>2, <2>5, <2>6 DEF NotifyShape
  <2> QED BY <1>4, <1>8, <2>5, <2>7 DEF JobOK
<1>9. CASE job.kind = "broadcast"
  <2> DEFINE b == c.preview
             C == EnabledIn(db)
             S == InsertsOf(b, C)
  <2>1. c.flow = "broadcast_preview" /\ BroadcastShape(job, db, b) BY <1>9 DEF JobOK
  <2>2. CASE /\ job.writes = <<RecordWrite(b, db)>> \o RowWrites(b, db)
             /\ e.rows = db.rows /\ e.history = db.history
    <3>1. w = RecordWrite(b, db) /\ r = RowWrites(b, db) /\ r \in Seq(S)
      <4>1. RowWrites(b, db) \in Seq(S) BY RowWritesList
      <4> HIDE DEF S, C, b
      <4>2. /\ Head(<<RecordWrite(b, db)>> \o RowWrites(b, db)) = RecordWrite(b, db)
            /\ Tail(<<RecordWrite(b, db)>> \o RowWrites(b, db)) = RowWrites(b, db)
        BY <4>1, FirstOf
      <4> QED BY <1>1, <2>2, <4>1, <4>2
    <3>2. e2 = [e EXCEPT !.history = Append(@, [of |-> b, targets |-> C])]
      BY <1>4, <3>1, Statements DEF RecordWrite
    <3>3. Whole /\ e2.status = e.status /\ e2.rows = e.rows
          /\ e2.history = Append(e.history, [of |-> b, targets |-> C]) /\ e2.latest = e.latest
      BY <1>6, <3>2
    <3>4. ArgsOf(r) = RowsOf(b, C) BY <3>1, RowWritesList
    <3>5. BroadcastShape(job', db, b) BY <1>4, <2>1, <2>2, <3>1, <3>3, <3>4 DEF BroadcastShape
    <3> QED BY <1>4, <1>9, <2>1, <3>3, <3>5 DEF JobOK
  <2>3. CASE /\ job.writes \in Seq(S)
             /\ e.history = Append(db.history, [of |-> b, targets |-> C])
             /\ e.rows \cup ArgsOf(job.writes) = db.rows \cup RowsOf(b, C)
    <3>1. /\ w \in S /\ r \in Seq(S)
          /\ ArgsOf(job.writes) = {ArgOf(w)} \cup ArgsOf(r)
      <4> HIDE DEF S
      <4>1. PICK T : T = S OBVIOUS
      <4>2. job.writes \in Seq(T) /\ job.writes # <<>> BY <1>3, <2>3, <4>1
      <4>3. /\ Head(job.writes) \in T /\ Tail(job.writes) \in Seq(T)
            /\ ArgsOf(job.writes) = {ArgOf(Head(job.writes))} \cup ArgsOf(Tail(job.writes))
        BY <4>2, FirstWrite
      <4> QED BY <1>1, <4>1, <4>3
    <3>2. PICK x \in C : w = [op |-> "row", arg |-> <<b, x>>] BY <3>1 DEF InsertsOf
    <3>3. e2 = [e EXCEPT !.rows = @ \cup {<<b, x>>}] BY <1>4, <3>2, Statements
    <3>4. Whole /\ e2.status = e.status /\ e2.rows = e.rows \cup {<<b, x>>}
          /\ e2.history = e.history /\ e2.latest = e.latest
      BY <1>6, <3>3
    <3>5. ArgOf(w) = <<b, x>> BY <3>2 DEF ArgOf
    <3>6. e2.rows \cup ArgsOf(r) = db.rows \cup RowsOf(b, C)
      BY <2>3, <3>1, <3>4, <3>5
    <3>7. BroadcastShape(job', db, b) BY <1>4, <2>1, <2>3, <3>1, <3>4, <3>6 DEF BroadcastShape
    <3> QED BY <1>4, <1>9, <2>1, <3>4, <3>7 DEF JobOK
  <2> QED BY <2>1, <2>2, <2>3 DEF BroadcastShape
<1>10. CASE job.kind = "delete"
  <2>1. DeleteShape(job, db) BY <1>10 DEF JobOK
  <2>2. PICK x \in Customers :
          /\ Exists(x, db)
          /\ \/ job.writes = DeleteWrites(x) /\ e.rows = db.rows /\ e.status = db.status
             \/ /\ job.writes = <<[op |-> "remove", arg |-> x]>>
                /\ e.rows = {q \in db.rows : q[2] # x} /\ e.status = db.status
    BY <1>3, <2>1 DEF DeleteShape
  <2>3. CASE job.writes = DeleteWrites(x) /\ e.rows = db.rows /\ e.status = db.status
    <3>1. w = [op |-> "clean", arg |-> x] /\ r = <<[op |-> "remove", arg |-> x]>>
      BY <1>1, <2>3 DEF DeleteWrites
    <3>2. e2 = [e EXCEPT !.rows = {q \in @ : q[2] # x}]
      <4>1. Apply([op |-> "clean", arg |-> x], e) = [e EXCEPT !.rows = {q \in @ : q[2] # x}]
        BY DEF Apply
      <4> QED BY <1>4, <3>1, <4>1
    <3>3. Whole /\ e2.status = e.status /\ e2.rows = {q \in e.rows : q[2] # x}
          /\ e2.history = e.history /\ e2.latest = e.latest
      BY <1>6, <3>2
    <3>4. DeleteShape(job', db) BY <1>4, <2>1, <2>2, <2>3, <3>1, <3>3 DEF DeleteShape
    <3> QED BY <1>4, <1>10, <3>3, <3>4 DEF JobOK
  <2>4. CASE /\ job.writes = <<[op |-> "remove", arg |-> x]>>
             /\ e.rows = {q \in db.rows : q[2] # x} /\ e.status = db.status
    <3>1. w = [op |-> "remove", arg |-> x] /\ r = <<>> BY <1>1, <2>4
    <3>2. e2 = [e EXCEPT !.status[x] = "deleted"] BY <1>4, <3>1, Statements
    <3>3. Whole /\ e2.status = [e.status EXCEPT ![x] = "deleted"] /\ e2.rows = e.rows
          /\ e2.history = e.history /\ e2.latest = e.latest
      BY <1>6, <3>2
    <3>4. DeleteShape(job', db) BY <1>4, <2>1, <2>2, <2>4, <3>1, <3>3 DEF DeleteShape
    <3> QED BY <1>4, <1>10, <3>3, <3>4 DEF JobOK
  <2> QED BY <2>2, <2>3, <2>4
<1> QED BY <1>5, <1>7, <1>8, <1>9, <1>10 DEF JobOK

\* The last statement is in, and the preview shown is open: what is committed
\* is a sound database.
LEMMA CommitStep ==
  ASSUME ChatOK, JobOK(job, db, conv), job.kind # "none", job.writes = <<>>
  PROVE  /\ DbOK(job.work, previews, dropped)
         /\ job.kind # "broadcast" => job.work.history = db.history
         /\ job.kind # "publish" => job.work.latest = db.latest
         /\ job.kind = "publish" => job.work.latest # {}
<1> DEFINE e == job.work
<1>1. DbOK(db, previews, dropped) /\ previews \in Nat BY ChatTypes DEF ChatOK
<1>2. e = [status |-> e.status, rows |-> e.rows, history |-> e.history, latest |-> e.latest]
  BY DEF JobOK
<1>4. CASE job.kind = "publish"
  <2>1. PublishShape(job, db) BY <1>4 DEF JobOK
  <2>2. PICK v \in Versions : e.latest = {v} BY <2>1 DEF PublishShape, PublishWrites
  <2>3. e.status = db.status /\ e.rows = db.rows /\ e.history = db.history
    BY <2>1 DEF PublishShape
  <2>4. DbOK(e, previews, dropped) BY <1>1, <1>2, <2>2, <2>3, DbPublished
  <2> QED BY <1>4, <2>2, <2>3, <2>4
<1>5. CASE job.kind = "notify"
  <2>1. NotifyShape(job, db) BY <1>5 DEF JobOK
  <2>2. /\ e.status = db.status /\ e.history = db.history /\ e.latest = db.latest
        /\ db.rows \subseteq e.rows /\ e.rows \subseteq db.rows \cup RowsOf(0, Customers)
    BY <2>1 DEF NotifyShape
  <2>3. e.status \in [Customers -> {"absent", "enabled", "disabled", "deleted"}]
    BY <1>1, <2>2 DEF DbOK
  <2>4. DbOK(e, previews, dropped) BY <1>1, <1>2, <2>2, <2>3, DbPlain
  <2> QED BY <1>5, <2>2, <2>4
<1>6. CASE job.kind = "broadcast"
  <2>1. conv.flow = "broadcast_preview" /\ BroadcastShape(job, db, conv.preview)
    BY <1>6 DEF JobOK
  <2>2. PICK b \in 1..previews : b = conv.preview /\ b \notin Sent(db.history) /\ b \notin dropped
    BY <2>1 DEF ChatOK, ConvOK, PreviewIsOpen, Previewing
  <2>3. RowWrites(b, db) \in Seq(InsertsOf(b, EnabledIn(db))) BY RowWritesList
  <2>4. <<RecordWrite(b, db)>> \o RowWrites(b, db) # <<>>
    BY <2>3
  <2>5. ArgsOf(job.writes) = {} BY DEF ArgsOf
  <2>6. /\ e.status = db.status /\ e.latest = db.latest
        /\ e.history = Append(db.history, [of |-> b, targets |-> EnabledIn(db)])
        /\ e.rows = db.rows \cup RowsOf(b, EnabledIn(db))
    BY <2>1, <2>2, <2>4, <2>5 DEF BroadcastShape
  <2>7. DbOK(e, previews, dropped) BY <1>1, <1>2, <2>2, <2>6, DbSent
  <2> QED BY <1>6, <2>6, <2>7
<1>7. CASE job.kind = "delete"
  <2>1. DeleteShape(job, db) BY <1>7 DEF JobOK
  <2>2. PICK x \in Customers : /\ e.rows = {r \in db.rows : r[2] # x}
                               /\ e.status = [db.status EXCEPT ![x] = "deleted"]
    BY <2>1 DEF DeleteShape, DeleteWrites
  <2>3. e.history = db.history /\ e.latest = db.latest BY <2>1 DEF DeleteShape
  <2>4. DbOK(e, previews, dropped) BY <1>1, <1>2, <2>2, <2>3, DbDeleted
  <2> QED BY <1>7, <2>3, <2>4
<1> QED BY <1>4, <1>5, <1>6, <1>7 DEF JobOK

-----------------------------------------------------------------------------
(* The steps.                                                               *)

LEMMA InitIInv == ASSUME Init PROVE IInv
<1>1. PICK d : d = db OBVIOUS
<1>2. PICK s : s = [c \in Customers |-> IF c \in Known THEN "enabled" ELSE "absent"] OBVIOUS
<1>3. d = [status |-> s, rows |-> {}, history |-> <<>>, latest |-> {}]
  BY <1>1, <1>2 DEF Init
<1>4. d.status = s /\ d.rows = {} /\ d.history = <<>> /\ d.latest = {} BY <1>3
<1>5. d = [status |-> d.status, rows |-> d.rows, history |-> d.history, latest |-> d.latest]
  BY <1>3
<1>6. s \in [Customers -> {"absent", "enabled", "disabled", "deleted"}] BY <1>2
<1>7. Sent(d.history) = {} /\ Len(d.history) = 0 BY <1>4 DEF Sent
<1>8. d.history \in Seq([of : Nat, targets : SUBSET Customers]) BY <1>4
<1>9. DbOK(d, 0, {}) BY <1>4, <1>5, <1>6, <1>7, <1>8 DEF DbOK
<1>10. ConvOK(NoConv, 0) /\ NoConv.flow = "none" BY NoConvOK
<1>11. JobOK(NoJob, db, conv) BY NoJobOK
<1>12. conv = NoConv /\ old = FALSE /\ job = NoJob /\ previews = 0 /\ dropped = {} /\ faults = 0
  BY DEF Init
<1>13. ChatOK
  <2>1. PreviewIsOpen BY <1>10, <1>12 DEF PreviewIsOpen, Previewing
  <2>2. DbOK(db, previews, dropped) BY <1>1, <1>9, <1>12
  <2>3. ConvOK(conv, previews) BY <1>10, <1>12
  <2>4. old \in BOOLEAN /\ (old => conv # NoConv) BY <1>12
  <2>5. previews \in 0..MaxPreviews /\ dropped \subseteq 1..previews BY <1>12, ChatAssumption
  <2> QED BY <2>1, <2>2, <2>3, <2>4, <2>5 DEF ChatOK
<1> QED BY <1>11, <1>12, <1>13, ChatAssumption DEF IInv

\* Buttons, answers and the clock, which change the conversation only.
LEMMA ChatStep ==
  ASSUME IInv,
         \/ \E f \in DirectFlows : Start(f)
         \/ \E t \in Templates : PressTemplate(t)
         \/ \E c \in Customers : StartNotifyOne(c)
         \/ Edit \/ Cancel \/ Answer \/ AnswerTemplate \/ Age
  PROVE  IInv'
<1>1. Idle /\ job' = job /\ db' = db /\ faults' = faults
  BY DEF Start, PressTemplate, StartNotifyOne, Edit, Cancel, Answer, AnswerTemplate, Age
<1>2. ChatOK /\ previews \in Nat /\ faults \in 0..MaxFaults BY ChatTypes DEF IInv
<1>3. DbOK(db, previews, dropped) /\ ConvOK(conv, previews) BY <1>2 DEF ChatOK
<1>4. SUFFICES ChatOK'
  <2>1. JobOK(NoJob, db', conv') BY NoJobOK
  <2>2. job' = NoJob BY <1>1 DEF Idle
  <2> QED BY <1>1, <1>2, <2>1, <2>2 DEF IInv
<1>5. ConvOK(NoConv, previews) /\ NoConv.preview = 0 BY <1>2, NoConvOK
<1>6. DbOK(db', previews, dropped) /\ db'.history = db.history BY <1>1, <1>3
<1>7. ASSUME Replace(NoConv), previews' = previews PROVE ChatOK'
  BY <1>2, <1>5, <1>6, <1>7, ReplaceKeeps
<1>8. ASSUME NEW f \in Flows \ {"notify_one"}, Replace(NewConversation(f)), previews' = previews
      PROVE  ChatOK'
  <2>1. ConvOK(NewConversation(f), previews) /\ NewConversation(f).preview = 0
    BY <1>2, NewConversationOK
  <2> QED BY <1>2, <1>6, <1>8, <2>1, ReplaceKeeps
<1>9. CASE \E f \in DirectFlows : Start(f)
  <2>1. PICK f \in DirectFlows : Start(f) BY <1>9
  <2>2. f \in Flows \ {"notify_one"} BY FlowNames
  <2> QED BY <1>8, <2>1, <2>2 DEF Start
<1>10. CASE \E t \in Templates : PressTemplate(t)
  <2>1. PICK t \in Templates : StartTemplate(t) BY <1>10 DEF PressTemplate
  <2> QED BY <1>1, <1>2, <2>1, StartTemplateKeeps
<1>11. CASE \E c \in Customers : StartNotifyOne(c)
  <2>1. PICK c \in Customers : StartNotifyOne(c) BY <1>11
  <2>2. PICK x : x = [NewConversation("notify_one") EXCEPT !.data = {"customer_id", "name"}, !.to = c]
    OBVIOUS
  <2>3. ConvOK(x, previews) /\ x.preview = 0 BY <1>2, <2>2, NotifyOneOK
  <2>4. Replace(x) /\ previews' = previews BY <2>1, <2>2 DEF StartNotifyOne
  <2> QED BY <1>2, <1>6, <2>3, <2>4, ReplaceKeeps
<1>12. CASE Edit
  <2>1. CASE Previewing /\ StartTemplate(conv.template)
    <3>1. conv.template \in Templates BY <1>3, <2>1 DEF ConvOK, Previewing
    <3> QED BY <1>1, <1>2, <2>1, <3>1, StartTemplateKeeps
  <2>2. CASE Replace(NoConv) /\ previews' = previews BY <1>7, <2>2
  <2>3. CASE Replace(NewConversation("notify_all")) /\ previews' = previews
    <3>1. "notify_all" \in Flows \ {"notify_one"} BY DEF Flows, Questions
    <3> QED BY <1>8, <2>3, <3>1
  <2> QED BY <1>12, <2>1, <2>2, <2>3 DEF Edit
<1>13. CASE Cancel BY <1>7, <1>13 DEF Cancel
<1>14. CASE Answer
  <2>1. PICK x : x = [conv EXCEPT !.data = @ \cup Stored, !.step = @ + 1] OBVIOUS
  <2>2. conv.flow \in Flows /\ ~AtLastStep BY <1>14 DEF Answer
  <2>3. ConvOK(x, previews) /\ x.flow = conv.flow BY <1>2, <1>3, <2>1, <2>2, AnswerOK
  <2>4. conv' = x /\ old' = old /\ previews' = previews /\ dropped' = dropped
    BY <1>14, <2>1 DEF Answer
  <2>5. x # NoConv /\ x.flow # "broadcast_preview" BY <1>5, <2>2, <2>3, FlowNames, NoConvOK
  <2> QED BY <1>1, <1>2, <2>3, <2>4, <2>5 DEF ChatOK, PreviewIsOpen, Previewing
<1>15. CASE AnswerTemplate
  <2>1. PICK t \in DOMAIN FlowOf : Preview(conv, t) BY <1>15 DEF AnswerTemplate
  <2>2. t \in Templates BY FlowNames
  <2>3. conv = [flow |-> conv.flow, step |-> conv.step, data |-> conv.data, to |-> conv.to,
                preview |-> conv.preview, template |-> conv.template]
        /\ conv.to \in Customers \cup {None}
    BY <1>3 DEF ConvOK
  <2> QED BY <1>1, <1>2, <2>1, <2>2, <2>3, PreviewKeeps
<1>16. CASE Age
  <2>1. conv' = conv /\ previews' = previews /\ dropped' = dropped /\ conv # NoConv /\ old' = TRUE
    BY <1>16 DEF Age, InConversation
  <2> QED BY <1>2, <1>6, <2>1, StayKeeps
<1> QED BY <1>9, <1>10, <1>11, <1>12, <1>13, <1>14, <1>15, <1>16

\* Buttons and answers that open a transaction.
LEMMA OpenStep ==
  ASSUME IInv, Confirm \/ (\E c \in Customers : Delete(c)) \/ AnswerAll
  PROVE  IInv'
<1>1. /\ conv' = conv /\ old' = old /\ db' = db /\ previews' = previews
      /\ dropped' = dropped /\ faults' = faults
  BY DEF Confirm, Delete, AnswerAll
<1>2. ChatOK /\ previews \in Nat /\ faults \in 0..MaxFaults BY ChatTypes DEF IInv
<1>3. DbOK(db, previews, dropped) BY <1>2 DEF ChatOK
<1>4. ChatOK' BY <1>1, <1>2, <1>3, StayKeeps
<1>5. JobOK(job', db, conv)
  <2>1. CASE Confirm
    <3>1. job' = BroadcastWithRecord(conv.preview, db) /\ conv.flow = "broadcast_preview"
      BY <2>1 DEF Confirm, Previewing
    <3> QED BY <1>2, <1>3, <3>1, BroadcastOK
  <2>2. ASSUME NEW c \in Customers, Delete(c) PROVE JobOK(job', db, conv)
    <3>1. job' = Transaction("delete", DeleteWrites(c), db) /\ Exists(c, db) BY <2>2 DEF Delete
    <3> QED BY <1>2, <1>3, <3>1, DeleteOK
  <2>3. ASSUME NEW v \in Versions, job' = PublishRelease(v, db) PROVE JobOK(job', db, conv)
    BY <1>2, <1>3, <2>3, PublishOK
  <2>4. ASSUME job' = BroadcastNotification(db) PROVE JobOK(job', db, conv)
    BY <1>2, <1>3, <2>4, NotifyAllOK
  <2> QED BY <2>1, <2>2, <2>3, <2>4 DEF AnswerAll
<1> QED BY <1>1, <1>2, <1>4, <1>5 DEF IInv

\* Buttons and answers that write one statement.
LEMMA StatementStep ==
  ASSUME IInv, (\E c \in Customers : Toggle(c) \/ SendCommand(c)) \/ AnswerOne
  PROVE  IInv' /\ db'.latest = db.latest
<1>1. Idle /\ job' = job /\ previews' = previews BY DEF Toggle, SendCommand, AnswerOne
<1>2. ChatOK /\ previews \in Nat /\ faults \in 0..MaxFaults BY ChatTypes DEF IInv
<1>3. DbOK(db, previews, dropped) /\ ConvOK(conv, previews) BY <1>2 DEF ChatOK
<1>4. ASSUME NEW c \in Customers, NotifyCustomer(c) \/ CreateCustomer(c)
      PROVE  /\ DbOK(db', previews, dropped) /\ db'.history = db.history /\ db'.latest = db.latest
             /\ faults' \in 0..MaxFaults
  BY <1>2, <1>4, NotifyKeeps, CreateKeeps
<1>5. ChatOK' /\ faults' \in 0..MaxFaults /\ db'.latest = db.latest
  <2>1. ASSUME NEW c \in Customers, Toggle(c)
        PROVE  ChatOK' /\ faults' \in 0..MaxFaults /\ db'.latest = db.latest
    <3>1. PICK s \in {"enabled", "disabled"} : db' = [db EXCEPT !.status[c] = s]
      BY <2>1 DEF Toggle
    <3>2. db.status[c] # "deleted" BY <2>1 DEF Toggle, Exists
    <3>3. DbOK(db', previews, dropped) /\ db'.history = db.history /\ db'.latest = db.latest
      BY <1>2, <3>1, <3>2, StatusKeeps
    <3>4. conv' = conv /\ old' = old /\ dropped' = dropped /\ faults' = faults
      BY <2>1 DEF Toggle
    <3> QED BY <1>1, <1>2, <3>3, <3>4, StayKeeps
  <2>2. ASSUME NEW c \in Customers, SendCommand(c)
        PROVE  ChatOK' /\ faults' \in 0..MaxFaults /\ db'.latest = db.latest
    <3>1. conv' = conv /\ old' = old /\ dropped' = dropped /\ NotifyCustomer(c)
      BY <2>2 DEF SendCommand
    <3> QED BY <1>1, <1>2, <1>4, <3>1, StayKeeps
  <2>3. CASE AnswerOne
    <3>1. /\ DbOK(db', previews, dropped) /\ db'.history = db.history /\ db'.latest = db.latest
          /\ faults' \in 0..MaxFaults
      <4>1. CASE conv.flow = "add_customer" /\ \E c \in Customers : CreateCustomer(c)
        BY <1>4, <4>1
      <4>2. CASE conv.flow = "notify_one" /\ NotifyCustomer(conv.to)
        <5>1. conv.to \in Customers BY <1>3, <4>2 DEF ConvOK
        <5> QED BY <1>4, <4>2, <5>1
      <4>3. CASE db' = db /\ faults' = faults BY <1>2, <1>3, <4>3
      <4> QED BY <2>3, <4>1, <4>2, <4>3 DEF AnswerOne
    <3>2. Replace(NoConv) BY <2>3 DEF AnswerOne
    <3>3. ConvOK(NoConv, previews) /\ NoConv.preview = 0 BY <1>2, NoConvOK
    <3> QED BY <1>1, <1>2, <3>1, <3>2, <3>3, ReplaceKeeps
  <2> QED BY <2>1, <2>2, <2>3
<1>6. JobOK(NoJob, db', conv') /\ job' = NoJob BY <1>1, NoJobOK DEF Idle
<1> QED BY <1>5, <1>6 DEF IInv

\* A text outside of a conversation: a transaction or one statement.
LEMMA DispatchStep ==
  ASSUME IInv, Dispatch
  PROVE  IInv' /\ db'.latest = db.latest
<1>1. Idle /\ Replace(NoConv) /\ previews' = previews BY DEF Dispatch
<1>2. ChatOK /\ previews \in Nat /\ faults \in 0..MaxFaults BY ChatTypes DEF IInv
<1>3. DbOK(db, previews, dropped) BY <1>2 DEF ChatOK
<1>4. ConvOK(NoConv, previews) /\ NoConv.preview = 0 BY <1>2, NoConvOK
<1>5. /\ DbOK(db', previews, dropped) /\ db'.history = db.history /\ db'.latest = db.latest
      /\ faults' \in 0..MaxFaults
  <2>1. CASE db' = db /\ faults' = faults BY <1>2, <1>3, <2>1
  <2>2. ASSUME NEW c \in Customers, CreateCustomer(c) \/ NotifyCustomer(c)
        PROVE  /\ DbOK(db', previews, dropped) /\ db'.history = db.history /\ db'.latest = db.latest
               /\ faults' \in 0..MaxFaults
    BY <1>2, <2>2, NotifyKeeps, CreateKeeps
  <2> QED BY <2>1, <2>2 DEF Dispatch
<1>6. ChatOK' BY <1>1, <1>2, <1>4, <1>5, ReplaceKeeps
<1>7. JobOK(job', db', conv')
  <2>1. ASSUME NEW v \in Versions, job' = PublishRelease(v, db), db' = db
        PROVE  JobOK(job', db', conv')
    BY <1>2, <1>3, <2>1, PublishOK
  <2>2. ASSUME job' = BroadcastNotification(db), db' = db PROVE JobOK(job', db', conv')
    BY <1>2, <1>3, <2>2, NotifyAllOK
  <2>3. CASE job' = job BY <1>1, <2>3, NoJobOK DEF Idle
  <2> QED BY <2>1, <2>2, <2>3 DEF Dispatch
<1> QED BY <1>5, <1>6, <1>7 DEF IInv

\* The transaction ends, written as a whole or not at all.
LEMMA EndStep ==
  ASSUME IInv, Commit \/ Fail
  PROVE  IInv' /\ (db'.latest = db.latest \/ (\E v \in Versions : db'.latest = {v}))
<1>1. ChatOK /\ previews \in Nat /\ faults \in 0..MaxFaults /\ JobOK(job, db, conv)
  BY ChatTypes DEF IInv
<1>2. DbOK(db, previews, dropped) BY <1>1 DEF ChatOK
<1>3. job.kind # "none" BY <1>1, Busy DEF Commit, Fail
<1>4. previews' = previews /\ dropped' = dropped BY DEF Commit, Fail
<1>5. ASSUME job.writes = <<>>
      PROVE  /\ DbOK(job.work, previews, dropped)
             /\ job.kind # "broadcast" => job.work.history = db.history
             /\ job.kind # "publish" => job.work.latest = db.latest
             /\ job.work.latest = db.latest \/ (\E v \in Versions : job.work.latest = {v})
  <2>1. /\ DbOK(job.work, previews, dropped)
        /\ job.kind # "broadcast" => job.work.history = db.history
        /\ job.kind # "publish" => job.work.latest = db.latest
        /\ job.kind = "publish" => job.work.latest # {}
    BY <1>1, <1>3, <1>5, CommitStep
  <2>2. job.work.latest = {} \/ \E v \in Versions : job.work.latest = {v} BY <2>1 DEF DbOK
  <2> QED BY <2>1, <2>2
<1>6. ASSUME DbOK(db', previews, dropped), job.kind # "broadcast" => db'.history = db.history,
             EndConversation
      PROVE  ChatOK'
  <2>1. CASE job.kind = "delete"
    BY <1>1, <1>4, <1>6, <2>1, StayKeeps DEF EndConversation
  <2>2. CASE job.kind # "delete"
    BY <1>1, <1>4, <1>6, <2>2, EndKeeps DEF EndConversation
  <2> QED BY <2>1, <2>2
<1>7. CASE Commit
  <2>1. job.writes = <<>> /\ db' = job.work /\ faults' = faults BY <1>7 DEF Commit
  <2>2. CASE job.kind = "publish"
    <3>1. conv' = conv /\ old' = old /\ job' = BroadcastNotification(db')
      BY <1>7, <2>2 DEF Commit
    <3>2. JobOK(job', db', conv') BY <1>1, <1>5, <2>1, <3>1, NotifyAllOK
    <3>3. ChatOK' BY <1>1, <1>4, <1>5, <2>1, <2>2, <3>1, StayKeeps
    <3> QED BY <1>1, <1>5, <2>1, <3>2, <3>3 DEF IInv
  <2>3. CASE job.kind # "publish"
    <3>1. job' = NoJob /\ EndConversation BY <1>7, <2>3 DEF Commit
    <3>2. ChatOK' BY <1>5, <1>6, <2>1, <3>1
    <3>3. JobOK(NoJob, db', conv') BY NoJobOK
    <3> QED BY <1>1, <1>5, <2>1, <3>1, <3>2, <3>3 DEF IInv
  <2> QED BY <2>2, <2>3
<1>8. CASE Fail
  <2>1. job' = NoJob /\ EndConversation /\ faults' \in 0..MaxFaults
    BY <1>1, <1>8, ChatAssumption DEF Fail, Fault
  <2>2. JobOK(NoJob, db', conv') BY NoJobOK
  <2>3. CASE db' = db
    <3>1. ChatOK' BY <1>2, <1>6, <2>1, <2>3
    <3> QED BY <2>1, <2>2, <2>3, <3>1 DEF IInv
  <2>4. CASE job.writes = <<>> /\ db' = job.work
    <3>1. ChatOK' BY <1>5, <1>6, <2>1, <2>4
    <3> QED BY <1>5, <2>1, <2>2, <2>4, <3>1 DEF IInv
  <2> QED BY <1>8, <2>3, <2>4 DEF Fail
<1> QED BY <1>7, <1>8

\* Whatever step is taken.
LEMMA Step ==
  ASSUME IInv, [Next]_vars
  PROVE  IInv' /\ (db'.latest = db.latest \/ (\E v \in Versions : db'.latest = {v}))
<1>1. CASE \/ \E f \in DirectFlows : Start(f)
           \/ \E t \in Templates : PressTemplate(t)
           \/ \E c \in Customers : StartNotifyOne(c)
           \/ Edit \/ Cancel \/ Answer \/ AnswerTemplate \/ Age
  <2>1. db' = db
    BY <1>1 DEF Start, PressTemplate, StartNotifyOne, Edit, Cancel, Answer, AnswerTemplate, Age
  <2> QED BY <1>1, <2>1, ChatStep
<1>2. CASE Confirm \/ (\E c \in Customers : Delete(c)) \/ AnswerAll
  <2>1. db' = db BY <1>2 DEF Confirm, Delete, AnswerAll
  <2> QED BY <1>2, <2>1, OpenStep
<1>3. CASE (\E c \in Customers : Toggle(c) \/ SendCommand(c)) \/ AnswerOne
  BY <1>3, StatementStep
<1>4. CASE Dispatch BY <1>4, DispatchStep
<1>5. CASE Write
  <2>1. JobOK(job', db, conv) BY <1>5, WriteStep DEF IInv
  <2>2. /\ conv' = conv /\ old' = old /\ db' = db /\ previews' = previews
        /\ dropped' = dropped /\ faults' = faults
    BY <1>5 DEF Write
  <2>3. DbOK(db', previews, dropped) BY <2>2 DEF IInv, ChatOK
  <2>4. ChatOK' BY <2>2, <2>3, StayKeeps DEF IInv
  <2> QED BY <2>1, <2>2, <2>4 DEF IInv
<1>6. CASE Commit \/ Fail BY <1>6, EndStep
<1>7. CASE Crash
  <2>1. /\ Replace(NoConv) /\ job' = NoJob /\ db' = db /\ previews' = previews
        /\ faults' \in 0..MaxFaults
    BY <1>7, ChatAssumption DEF Crash, Fault, IInv
  <2>2. JobOK(NoJob, db', conv') BY NoJobOK
  <2>3. ConvOK(NoConv, previews) /\ NoConv.preview = 0 BY ChatTypes, NoConvOK DEF IInv
  <2>4. DbOK(db', previews, dropped) BY <2>1 DEF IInv, ChatOK
  <2>5. ChatOK' BY <2>1, <2>3, <2>4, ReplaceKeeps DEF IInv
  <2> QED BY <2>1, <2>2, <2>5 DEF IInv
<1>8. CASE UNCHANGED vars
  <2>1. /\ conv' = conv /\ old' = old /\ db' = db /\ job' = job /\ previews' = previews
        /\ dropped' = dropped /\ faults' = faults
    BY <1>8 DEF vars
  <2>2. DbOK(db', previews, dropped) BY <2>1 DEF IInv, ChatOK
  <2>3. ChatOK' BY <2>1, <2>2, StayKeeps DEF IInv
  <2> QED BY <2>1, <2>3 DEF IInv
<1> QED BY <1>1, <1>2, <1>3, <1>4, <1>5, <1>6, <1>7, <1>8 DEF Next

-----------------------------------------------------------------------------
(* The results.                                                             *)

\* The invariant that the properties below rest on.
THEOREM InvCorrect == Spec => []IInv
<1>1. Init => IInv BY InitIInv
<1>2. IInv /\ [Next]_vars => IInv' BY Step
<1> QED BY <1>1, <1>2, PTL DEF Spec

\* No more broadcasts than previews, as each is of a preview of its own.
LEMMA HistoryLength ==
  ASSUME NEW d, NEW n \in Nat, NEW lost, DbOK(d, n, lost)
  PROVE  Len(d.history) <= n
<1> DEFINE L == Len(d.history)
           f == [i \in 1..L |-> d.history[i].of]
<1>1. L \in Nat BY DbType
<1>2. \A i \in 1..L : d.history[i].of \in 1..n
  <2>1. \A i \in 1..L : d.history[i].of \in Sent(d.history) BY DbType
  <2>2. Sent(d.history) \subseteq 1..n BY DEF DbOK
  <2> QED BY <2>1, <2>2
<1>3. \A i, j \in 1..L : d.history[i].of = d.history[j].of => i = j BY DEF DbOK
<1> HIDE DEF L
<1>4. f \in [1..L -> 1..n] BY <1>2
<1>5. IsInjective(f) BY <1>3 DEF IsInjective
<1>6. f \in Injection(1..L, 1..n) BY <1>4, <1>5 DEF Injection
<1> HIDE DEF f
<1>7. /\ IsFiniteSet(1..n) /\ Cardinality(1..n) = n /\ Cardinality(1..L) = L
  BY <1>1, FS_Interval
<1>8. Cardinality(1..L) <= Cardinality(1..n) BY <1>6, <1>7, FS_Injection
<1> QED BY <1>7, <1>8 DEF L

\* Every state is of its type (conversation.go:26-40), and the history is no
\* longer than the previews that were made.
THEOREM TypeCorrect == Spec => []TypeOK
<1>1. IInv => TypeOK
  <2> SUFFICES ASSUME IInv PROVE TypeOK OBVIOUS
  <2>1. /\ ConvOK(conv, previews) /\ DbOK(db, previews, dropped) /\ previews \in Nat
        /\ JobOK(job, db, conv) /\ faults \in 0..MaxFaults
    BY ChatTypes DEF IInv, ChatOK
  <2>2. /\ old => conv # NoConv
        /\ previews \in 0..MaxPreviews /\ dropped \subseteq 1..previews
    BY DEF IInv, ChatOK
  <2>3. /\ conv.flow \in Flows \cup {"none", "broadcast_preview"}
        /\ conv.flow \in Flows => conv.step \in 1..Len(Questions[conv.flow])
        /\ conv.to \in Customers \cup {None}
    BY <2>1 DEF ConvOK
  <2>4. /\ Previewing <=> conv.preview \in 1..previews
        /\ Previewing <=> conv.template \in Templates
    BY <2>1, TemplateAssumption DEF ConvOK, Previewing
  <2>5. /\ db.status \in [Customers -> {"absent", "enabled", "disabled", "deleted"}]
        /\ db.rows \subseteq (0..previews) \X Customers /\ db.latest \subseteq Versions
    BY <2>1 DEF DbOK
  <2>6. Len(db.history) <= previews BY <2>1, HistoryLength
  <2>7. job.kind \in {"none", "broadcast", "publish", "notify", "delete"} BY <2>1 DEF JobOK
  <2> QED BY <2>1, <2>2, <2>3, <2>4, <2>5, <2>6, <2>7 DEF TypeOK
<1> QED BY <1>1, InvCorrect, PTL

\* advanceConversation never panics on a missing entry of c.data
\* (conversation.go:80-200), whatever led to the conversation.
THEOREM DataCorrect == Spec => []StepsHaveData
<1>1. IInv => StepsHaveData
  <2> SUFFICES ASSUME IInv, AtLastStep PROVE Asserted[conv.flow] \subseteq conv.data
    BY DEF StepsHaveData
  <2>1. ConvOK(conv, previews) BY DEF IInv, ChatOK
  <2>2. PICK f \in Flows : f = conv.flow BY DEF AtLastStep
  <2>3. /\ \A j \in 1..Len(Questions[f]) - 1 : Questions[f][j] \in conv.data
        /\ f = "notify_one" => {"customer_id", "name"} \subseteq conv.data
    BY <2>1, <2>2 DEF ConvOK, AtLastStep
  <2>4. f \in {"add_customer", "release_version", "set_agent", "set_min_agent", "notify_all",
               "notify_one", "bcast_maintenance", "bcast_version_preview",
               "bcast_upgrade_failed", "bcast_custom"}
    BY DEF Flows, Questions
  <2>5. CASE f = "add_customer"
    <3>1. Questions[f] = <<"name", "tg_id", "bot_token", "note">> BY <2>5 DEF Questions
    <3>2. {"name", "tg_id", "bot_token"} \subseteq conv.data BY <2>3, <3>1
    <3> QED BY <2>2, <2>5, <3>2 DEF Asserted
  <2>6. CASE f = "notify_one" BY <2>2, <2>3, <2>6 DEF Asserted
  <2>7. CASE f = "bcast_maintenance"
    <3>1. Questions[f] = <<"duration", "reason">> BY <2>7 DEF Questions
    <3>2. {"duration"} \subseteq conv.data BY <2>3, <3>1
    <3> QED BY <2>2, <2>7, <3>2 DEF Asserted
  <2>8. CASE f \in {"release_version", "bcast_version_preview", "bcast_upgrade_failed"}
    <3>1. Len(Questions[f]) = 2 /\ Questions[f][1] = "version" BY <2>8 DEF Questions
    <3>2. {"version"} \subseteq conv.data BY <2>3, <3>1
    <3> QED BY <2>2, <2>8, <3>2 DEF Asserted
  <2>9. CASE f \in {"set_agent", "set_min_agent", "notify_all", "bcast_custom"}
    <3>1. Asserted[f] = {} BY <2>9 DEF Asserted
    <3> QED BY <2>2, <3>1
  <2> QED BY <2>4, <2>5, <2>6, <2>7, <2>8, <2>9
<1> QED BY <1>1, InvCorrect, PTL

\* A preview is sent once or dropped, never both and never twice
\* (callback.go:264-323, broadcast.go:60-140).
THEOREM FateCorrect == Spec => []OneFatePerPreview
<1>1. IInv => OneFatePerPreview
  <2> SUFFICES ASSUME IInv PROVE OneFatePerPreview OBVIOUS
  <2>1. DbOK(db, previews, dropped) /\ previews \in Nat BY ChatTypes DEF IInv, ChatOK
  <2>2. DOMAIN db.history = 1..Len(db.history) BY <2>1, DbType
  <2>3. \A i \in 1..Len(db.history) : db.history[i].of \notin dropped
    <3>1. \A i \in 1..Len(db.history) : db.history[i].of \in Sent(db.history) BY <2>1, DbType
    <3>2. Sent(db.history) \subseteq (1..previews) \ dropped BY <2>1 DEF DbOK
    <3> QED BY <3>1, <3>2
  <2>4. \A i, j \in 1..Len(db.history) : db.history[i].of = db.history[j].of => i = j
    BY <2>1 DEF DbOK
  <2> QED BY <2>2, <2>3, <2>4 DEF OneFatePerPreview
<1> QED BY <1>1, InvCorrect, PTL

\* The history of broadcasts agrees with the rows of the queue whatever fails
\* in between (store.go, BroadcastWithRecord).
THEOREM HistoryCorrect == Spec => []HistoryMatchesQueue
<1>1. IInv => HistoryMatchesQueue
  <2> SUFFICES ASSUME IInv, NEW i \in DOMAIN db.history
               PROVE  {c \in Customers : <<db.history[i].of, c>> \in db.rows}
                        = {c \in db.history[i].targets : db.status[c] # "deleted"}
    BY DEF HistoryMatchesQueue
  <2>1. DbOK(db, previews, dropped) /\ previews \in Nat BY ChatTypes DEF IInv, ChatOK
  <2>2. i \in 1..Len(db.history)
    <3>1. DOMAIN db.history = 1..Len(db.history) BY <2>1, DbType
    <3> QED BY <3>1
  <2>3. db.history[i].targets \subseteq Customers BY <2>1, <2>2, DbType
  <2>4. \A c \in Customers : <<db.history[i].of, c>> \in db.rows
                               <=> c \in db.history[i].targets /\ db.status[c] # "deleted"
    BY <2>1, <2>2 DEF DbOK
  <2> QED BY <2>3, <2>4
<1> QED BY <1>1, InvCorrect, PTL

\* No step leaves two latest releases, or none once there was one
\* (PublishRelease and its transaction).
THEOREM LatestCorrect == Spec => LatestIsUnique
<1>1. IInv /\ [Next]_vars => [/\ Cardinality(db'.latest) <= 1
                              /\ db.latest # {} => db'.latest # {}]_vars
  <2> SUFFICES ASSUME IInv, [Next]_vars
               PROVE  Cardinality(db'.latest) <= 1 /\ (db.latest # {} => db'.latest # {})
    OBVIOUS
  <2>1. db'.latest = db.latest \/ (\E v \in Versions : db'.latest = {v}) BY Step
  <2>2. db.latest = {} \/ \E v \in Versions : db.latest = {v} BY DEF IInv, ChatOK, DbOK
  <2>3. db'.latest = {} \/ \E v \in Versions : db'.latest = {v} BY <2>1, <2>2
  <2>4. CASE db'.latest = {} BY <2>1, <2>2, <2>4, FS_EmptySet
  <2>5. ASSUME NEW v \in Versions, db'.latest = {v}
        PROVE  Cardinality(db'.latest) <= 1 /\ db'.latest # {}
    <3>1. Cardinality({v}) = 1 BY FS_Singleton
    <3> QED BY <2>5, <3>1
  <2> QED BY <2>3, <2>4, <2>5
<1> QED BY <1>1, InvCorrect, PTL DEF Spec, LatestIsUnique

-----------------------------------------------------------------------------
(* The pages of the list of customers.                                      *)

\* There is at least one page, and the last one begins before the list ends.
LEMMA PagesType ==
  ASSUME NEW total \in Nat
  PROVE  /\ TotalPages(total) \in Nat \ {0}
         /\ total <= TotalPages(total) * PerPage
         /\ total > 0 => (TotalPages(total) - 1) * PerPage < total
  BY DEF TotalPages, PerPage

\* The page that is shown exists.
LEMMA ClampedType ==
  ASSUME NEW total \in Nat, NEW page \in Int
  PROVE  Clamped(page, total) \in Pages(total)
  BY PagesType DEF Clamped, Pages

\* A page that exists is shown when it is asked for.
LEMMA ClampedInRange ==
  ASSUME NEW total \in Nat, NEW page \in Pages(total)
  PROVE  Clamped(page, total) = page
  BY PagesType DEF Clamped, Pages

\* Whatever page is asked for of a list of whatever length, the slice taken of
\* it lies in the list, and is empty only if the list is (menu.go:148).
THEOREM SliceIsInBounds ==
  ASSUME NEW total \in Nat, NEW page \in Int
  PROVE  SliceInBounds(page, total)
  <1> DEFINE p == Clamped(page, total)
  <1>1. p \in Nat /\ p <= TotalPages(total) - 1
    BY ClampedType, PagesType DEF Pages
  <1>2. p * PerPage <= (TotalPages(total) - 1) * PerPage
    BY <1>1, PagesType DEF PerPage
  <1>3. PageStart(page, total) \in Nat /\ PageStart(page, total) = p * PerPage
    BY <1>1 DEF PageStart, PerPage
  <1>4. CASE total = 0
    <2>1. p = 0
      BY <1>1, <1>4 DEF TotalPages
    <2> QED
      BY <1>3, <1>4, <2>1 DEF SliceInBounds, PageEnd, PerPage
  <1>5. CASE total > 0
    <2>1. PageStart(page, total) < total
      BY <1>2, <1>3, <1>5, PagesType DEF PerPage
    <2>2. PageEnd(page, total) \in Nat /\ PageStart(page, total) < PageEnd(page, total)
          /\ PageEnd(page, total) <= total
      BY <1>3, <2>1 DEF PageEnd, PerPage
    <2>3. PageEnd(page, total) \in Shown(page, total)
      BY <1>3, <2>2 DEF Shown
    <2> QED
      BY <1>3, <2>2, <2>3 DEF SliceInBounds
  <1> QED
    BY <1>4, <1>5

\* Every customer of a list of whatever length is on exactly one page.
THEOREM EveryoneOnOnePage ==
  ASSUME NEW total \in Nat, NEW i \in 1..total
  PROVE  OnOnePage(i, total)
  <1>1. ASSUME NEW q \in Pages(total)
        PROVE  i \in Shown(q, total) <=> q * PerPage < i /\ i <= q * PerPage + PerPage
    <2>1. PageStart(q, total) = q * PerPage /\ q \in Nat
      BY <1>1, ClampedInRange, PagesType DEF PageStart, Pages
    <2> QED
      BY <2>1 DEF Shown, PageEnd, PerPage
  <1> DEFINE p == (i - 1) \div PerPage
  <1>2. p \in Nat /\ p * PerPage < i /\ i <= p * PerPage + PerPage
    BY DEF PerPage
  <1>3. p \in Pages(total)
    BY <1>2, PagesType DEF Pages, PerPage
  <1>4. ASSUME NEW q \in Pages(total), i \in Shown(q, total)
        PROVE  q = p
    <2>1. q \in Nat /\ q * PerPage < i /\ i <= q * PerPage + PerPage
      BY <1>1, <1>4, PagesType DEF Pages
    <2> QED
      BY <1>2, <2>1 DEF PerPage
  <1> HIDE DEF p
  <1> QED
    BY <1>1, <1>2, <1>3, <1>4 DEF OnOnePage
=============================================================================

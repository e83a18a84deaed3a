---------------------------- MODULE ProtocolProofs --------------------------
(***************************************************************************)
(* Proofs about the two modules that work with the lines of Protocol:      *)
(* CommandServer, the server with any number of connections, and           *)
(* Handshake, a run of the client against it.  Both rest on the lemmas     *)
(* about Keep and validate_stream_command that come first.                 *)
(***************************************************************************)
EXTENDS CommandServer, Handshake, FiniteSetTheorems, WellFoundedInduction, TLAPS

(* Keep.  Induction is by a least counterexample, a fact about sets. *)

\* A set of natural numbers that is not empty has a least element.
LEMMA LeastNat ==
  ASSUME NEW T, T \subseteq Nat, T # {}
  PROVE  \E n \in T : \A m \in T : n <= m
<1>1. PICK n \in T : \A m \in T : <<m, n>> \notin OpToRel(<, Nat)
  BY NatLessThanWellFounded, WFMin, Zenon
<1>2. \A m \in T : ~(m < n)
  BY <1>1 DEF OpToRel
<1>3. QED
  BY <1>2

\* f holds what Keep has collected at each place up to n.
Collects(f, s, S, n) ==
  f = [i \in 0 .. n |->
         IF i = 0 THEN << >>
         ELSE IF s[i] \in S THEN Append(f[i - 1], s[i]) ELSE f[i - 1]]

\* The recursion of Keep has a solution.
LEMMA CollectsExists ==
  ASSUME NEW s, NEW S, NEW k \in Nat
  PROVE  \E f : Collects(f, s, S, k)
<1> DEFINE T == {n \in Nat : ~ \E f : Collects(f, s, S, n)}
<1> SUFFICES ASSUME T # {} PROVE FALSE
  OBVIOUS
<1>1. PICK n \in T : \A m \in T : n <= m
  BY LeastNat
<1>2. CASE n = 0
  <2> DEFINE g == [i \in 0 .. 0 |-> << >>]
  <2>1. Collects(g, s, S, 0)
    BY DEF Collects
  <2>2. QED
    BY <1>1, <1>2, <2>1
<1>3. CASE n # 0
  <2>1. n - 1 \in Nat /\ n - 1 \notin T
    BY <1>1, <1>3
  <2>2. PICK g : Collects(g, s, S, n - 1)
    BY <2>1
  <2> DEFINE last == IF s[n] \in S THEN Append(g[n - 1], s[n]) ELSE g[n - 1]
             h == [i \in 0 .. n |-> IF i = n THEN last ELSE g[i]]
  <2>3. \A i \in 0 .. n - 1 : h[i] = g[i]
    BY <1>1
  <2>4. \A i \in 0 .. n - 1 :
          g[i] = IF i = 0 THEN << >>
                 ELSE IF s[i] \in S THEN Append(g[i - 1], s[i]) ELSE g[i - 1]
    BY <2>2, Zenon DEF Collects
  <2>5. ASSUME NEW i \in 0 .. n
        PROVE  h[i] = IF i = 0 THEN << >>
                      ELSE IF s[i] \in S THEN Append(h[i - 1], s[i]) ELSE h[i - 1]
    <3>1. CASE i = n
      BY <3>1, <1>1, <1>3, <2>3
    <3>2. CASE i # n
      <4>1. i \in 0 .. n - 1 /\ (i # 0 => i - 1 \in 0 .. n - 1)
        BY <3>2, <1>1
      <4>2. QED
        BY <4>1, <2>3, <2>4
    <3>3. QED
      BY <3>1, <3>2
  <2> HIDE DEF last
  <2>6. Collects(h, s, S, n)
    BY <2>5 DEF Collects
  <2>7. QED
    BY <1>1, <2>6
<1>4. QED
  BY <1>2, <1>3

\* What Keep returns is the last thing collected.
LEMMA KeepCollects ==
  ASSUME NEW s, NEW S, Len(s) \in Nat
  PROVE  \E f :
           /\ Keep(s, S) = f[Len(s)]
           /\ f[0] = << >>
           /\ \A i \in 1 .. Len(s) :
                f[i] = IF s[i] \in S THEN Append(f[i - 1], s[i]) ELSE f[i - 1]
<1> DEFINE f == CHOOSE g : Collects(g, s, S, Len(s))
<1>1. Collects(f, s, S, Len(s))
  BY CollectsExists, Zenon
<1>2. Keep(s, S) = f[Len(s)]
  BY DEF Keep, Collects
<1>3. \A i \in 0 .. Len(s) :
        f[i] = IF i = 0 THEN << >>
               ELSE IF s[i] \in S THEN Append(f[i - 1], s[i]) ELSE f[i - 1]
  <2> HIDE DEF f
  <2> QED BY <1>1, Zenon DEF Collects
<1> HIDE DEF f
<1>4. f[0] = << >>
  BY <1>3
<1>5. ASSUME NEW i \in 1 .. Len(s)
      PROVE  f[i] = IF s[i] \in S THEN Append(f[i - 1], s[i]) ELSE f[i - 1]
  BY <1>3
<1>6. QED
  BY <1>2, <1>4, <1>5

\* Induction over sequences: a set that has the empty sequence and is closed
\* under Append has them all.
LEMMA AppendInduction ==
  ASSUME NEW A, NEW Q, << >> \in Q,
         \A s \in Seq(A) : \A e \in A : s \in Q => Append(s, e) \in Q
  PROVE  Seq(A) \subseteq Q
<1> DEFINE T == {n \in Nat : \E s \in Seq(A) : Len(s) = n /\ s \notin Q}
<1> SUFFICES ASSUME T # {} PROVE FALSE
  <2>1. \A s \in Seq(A) : Len(s) \in Nat
    OBVIOUS
  <2>2. QED
    BY <2>1
<1>1. PICK n \in T : \A m \in T : n <= m
  BY LeastNat
<1>2. PICK s \in Seq(A) : Len(s) = n /\ s \notin Q
  BY <1>1
<1>3. Len(s) # 0
  BY <1>2
<1> DEFINE front == SubSeq(s, 1, Len(s) - 1)
<1>4. /\ front \in Seq(A) /\ Len(front) = n - 1 /\ n - 1 \in Nat
      /\ s[Len(s)] \in A /\ s = Append(front, s[Len(s)])
  BY <1>2, <1>3
<1> HIDE DEF front
<1>5. front \in Q
  BY <1>1, <1>4
<1>6. QED
  BY <1>2, <1>4, <1>5

\* Nothing is kept of nothing.
LEMMA KeepEmpty == ASSUME NEW S PROVE Keep(<< >>, S) = << >>
<1>1. Len(<< >>) = 0
  OBVIOUS
<1>2. QED
  BY <1>1, KeepCollects

\* Keep goes along with Append.
LEMMA KeepAppend ==
  ASSUME NEW A, NEW s \in Seq(A), NEW e \in A, NEW S
  PROVE  Keep(Append(s, e), S) = IF e \in S THEN Append(Keep(s, S), e) ELSE Keep(s, S)
<1>u. PICK u, n : u = Append(s, e) /\ n = Len(s)
  OBVIOUS
<1>1. /\ n \in Nat /\ n + 1 \in Nat /\ Len(u) = n + 1
      /\ u[n + 1] = e /\ \A i \in 1 .. n : u[i] = s[i]
  BY <1>u
<1>2. PICK p : /\ Keep(s, S) = p[n]
               /\ p[0] = << >>
               /\ \A i \in 1 .. n : p[i] = IF s[i] \in S THEN Append(p[i - 1], s[i]) ELSE p[i - 1]
  BY <1>1, <1>u, KeepCollects
<1>3. PICK q : /\ Keep(u, S) = q[n + 1]
               /\ q[0] = << >>
               /\ \A i \in 1 .. n + 1 :
                    q[i] = IF u[i] \in S THEN Append(q[i - 1], u[i]) ELSE q[i - 1]
  <2>1. Len(u) \in Nat
    BY <1>1
  <2>2. \E q : /\ Keep(u, S) = q[Len(u)]
               /\ q[0] = << >>
               /\ \A i \in 1 .. Len(u) :
                    q[i] = IF u[i] \in S THEN Append(q[i - 1], u[i]) ELSE q[i - 1]
    BY <2>1, KeepCollects
  <2>3. QED
    BY <1>1, <2>2, Zenon
<1>4. p[n] = q[n]
  <2> DEFINE T == {i \in 0 .. n : p[i] # q[i]}
  <2> SUFFICES ASSUME T # {} PROVE FALSE
    BY <1>1
  <2>0. T \subseteq Nat
    BY <1>1
  <2>1. PICK i \in T : \A j \in T : i <= j
    BY <2>0, LeastNat
  <2>2. i # 0
    BY <1>2, <1>3
  <2>3. i \in 1 .. n /\ i \in 1 .. n + 1 /\ i - 1 \in 0 .. n /\ i - 1 \notin T
    BY <1>1, <2>1, <2>2
  <2>4. QED
    BY <1>1, <1>2, <1>3, <2>1, <2>3
<1>5. q[n + 1] = IF e \in S THEN Append(q[n], e) ELSE q[n]
  <2>1. n + 1 \in 1 .. n + 1 /\ n + 1 - 1 = n
    BY <1>1
  <2>2. QED
    BY <1>1, <1>3, <2>1
<1>6. QED
  BY <1>u, <1>2, <1>3, <1>4, <1>5

\* Append adds one element.
LEMMA ElementsAppend ==
  ASSUME NEW A, NEW s \in Seq(A), NEW e
  PROVE  Elements(Append(s, e)) = Elements(s) \cup {e}
<1>1. /\ DOMAIN s = 1 .. Len(s) /\ Len(s) \in Nat
      /\ DOMAIN Append(s, e) = 1 .. Len(s) + 1
      /\ \A i \in 1 .. Len(s) : Append(s, e)[i] = s[i]
      /\ Append(s, e)[Len(s) + 1] = e
  OBVIOUS
<1>2. QED
  BY <1>1 DEF Elements

\* What is kept are elements of the sequence and of the set, and all of them.
LEMMA KeepElements ==
  ASSUME NEW A, NEW S
  PROVE  \A s \in Seq(A) :
           /\ Keep(s, S) \in Seq(A \cap S)
           /\ Elements(Keep(s, S)) = Elements(s) \cap S
<1> DEFINE Q == {s \in Seq(A) : /\ Keep(s, S) \in Seq(A \cap S)
                                /\ Elements(Keep(s, S)) = Elements(s) \cap S}
<1>0. Elements(<< >>) = {} /\ << >> \in Seq(A) /\ << >> \in Seq(A \cap S)
  BY DEF Elements
<1>1. << >> \in Q
  BY <1>0, KeepEmpty
<1>2. ASSUME NEW s \in Seq(A), NEW e \in A, s \in Q
      PROVE  Append(s, e) \in Q
  <2> DEFINE k == Keep(s, S)
  <2>1. k \in Seq(A \cap S) /\ Elements(k) = Elements(s) \cap S
    BY <1>2
  <2>2. Keep(Append(s, e), S) = IF e \in S THEN Append(k, e) ELSE k
    BY KeepAppend
  <2> HIDE DEF k
  <2>3. Elements(Append(s, e)) = Elements(s) \cup {e}
    BY ElementsAppend
  <2>4. CASE e \in S
    <3>1. Elements(Append(k, e)) = Elements(k) \cup {e}
      BY <2>1, <2>4, ElementsAppend
    <3>2. Append(k, e) \in Seq(A \cap S) /\ Append(s, e) \in Seq(A)
      BY <2>1, <2>4
    <3>3. QED
      BY <2>1, <2>2, <2>3, <2>4, <3>1, <3>2
  <2>5. CASE e \notin S
    BY <2>1, <2>2, <2>3, <2>5
  <2>6. QED
    BY <2>4, <2>5
<1>3. Seq(A) \subseteq Q
  <2> HIDE DEF Q
  <2> QED BY <1>1, <1>2, AppendInduction
<1>4. QED
  BY <1>3

\* Keep has the type of the set.
LEMMA KeepType ==
  ASSUME NEW A, NEW S, S \subseteq A, NEW s \in Seq(A)
  PROVE  Keep(s, S) \in Seq(S)
<1>1. A \cap S = S
  OBVIOUS
<1>2. Keep(s, S) \in Seq(A \cap S)
  BY KeepElements
<1>3. QED
  BY <1>1, <1>2

\* No element of the set is at two places of the sequence.
Once(s, S) == \A i, j \in DOMAIN s : s[i] \in S /\ s[i] = s[j] => i = j

\* Append repeats nothing if what it adds is new.
LEMMA OnceAppend ==
  ASSUME NEW A, NEW s \in Seq(A), NEW e \in A, NEW S
  PROVE  Once(Append(s, e), S) <=> Once(s, S) /\ (e \in S => e \notin Elements(s))
<1>1. /\ DOMAIN s = 1 .. Len(s) /\ Len(s) \in Nat
      /\ DOMAIN Append(s, e) = 1 .. Len(s) + 1
      /\ \A i \in 1 .. Len(s) : Append(s, e)[i] = s[i]
      /\ Append(s, e)[Len(s) + 1] = e
  OBVIOUS
<1>2. Once(Append(s, e), S) => Once(s, S) /\ (e \in S => e \notin Elements(s))
  BY <1>1 DEF Once, Elements
<1>3. Once(s, S) /\ (e \in S => e \notin Elements(s)) => Once(Append(s, e), S)
  BY <1>1 DEF Once, Elements
<1>4. QED
  BY <1>2, <1>3

\* Keep repeats an element exactly when the sequence does.
LEMMA KeepOnce ==
  ASSUME NEW A, NEW S
  PROVE  \A s \in Seq(A) : Once(Keep(s, S), S) <=> Once(s, S)
<1> DEFINE Q == {s \in Seq(A) : Once(Keep(s, S), S) <=> Once(s, S)}
<1>1. << >> \in Q
  BY KeepEmpty
<1>2. ASSUME NEW s \in Seq(A), NEW e \in A, s \in Q
      PROVE  Append(s, e) \in Q
  <2>1. PICK k : k = Keep(s, S)
    OBVIOUS
  <2>2. k \in Seq(A) /\ Elements(k) = Elements(s) \cap S
    <3>1. k \in Seq(A \cap S) /\ Elements(k) = Elements(s) \cap S
      BY <2>1, KeepElements
    <3>2. QED
      BY <3>1
  <2>3. Keep(Append(s, e), S) = IF e \in S THEN Append(k, e) ELSE k
    BY <2>1, KeepAppend
  <2>4. Once(k, S) <=> Once(s, S)
    BY <1>2, <2>1
  <2>5. Once(Append(s, e), S) <=> Once(s, S) /\ (e \in S => e \notin Elements(s))
    BY OnceAppend
  <2>6. Once(Append(k, e), S) <=> Once(k, S) /\ (e \in S => e \notin Elements(k))
    BY <2>2, OnceAppend
  <2>7. Once(Keep(Append(s, e), S), S) <=> Once(Append(s, e), S)
    BY <2>2, <2>3, <2>4, <2>5, <2>6
  <2>8. Append(s, e) \in Seq(A)
    OBVIOUS
  <2>9. QED
    BY <2>7, <2>8
<1>3. Seq(A) \subseteq Q
  <2> HIDE DEF Q
  <2> QED BY <1>1, <1>2, AppendInduction
<1>4. QED
  BY <1>3

\* The test of validate_stream_command for repetitions, which compares the
\* sizes of the list and of the set made of it, is right (run.rs:85-88).
LEMMA SizesTellOnce ==
  ASSUME NEW A
  PROVE  \A s \in Seq(A) :
           /\ IsFiniteSet(Elements(s))
           /\ Cardinality(Elements(s)) \in 0 .. Len(s)
           /\ Cardinality(Elements(s)) = Len(s) <=> Once(s, A)
<1> DEFINE Q == {s \in Seq(A) : /\ IsFiniteSet(Elements(s))
                                /\ Cardinality(Elements(s)) \in 0 .. Len(s)
                                /\ Cardinality(Elements(s)) = Len(s) <=> Once(s, A)}
<1>1. << >> \in Q
  <2>1. Elements(<< >>) = {} /\ Once(<< >>, A) /\ Len(<< >>) = 0 /\ << >> \in Seq(A)
    BY DEF Elements, Once
  <2>2. IsFiniteSet({}) /\ Cardinality({}) = 0
    BY FS_EmptySet
  <2>3. QED
    BY <2>1, <2>2
<1>2. ASSUME NEW s \in Seq(A), NEW e \in A, s \in Q
      PROVE  Append(s, e) \in Q
  <2>1. PICK n, k : n = Len(s) /\ k = Cardinality(Elements(s))
    OBVIOUS
  <2>2. /\ IsFiniteSet(Elements(s)) /\ n \in Nat /\ k \in 0 .. n
        /\ (k = n) <=> Once(s, A)
    BY <1>2, <2>1
  <2>3. Append(s, e) \in Seq(A) /\ Len(Append(s, e)) = n + 1
    BY <2>1
  <2>4. Elements(Append(s, e)) = Elements(s) \cup {e}
    BY ElementsAppend
  <2>5. /\ IsFiniteSet(Elements(s) \cup {e})
        /\ Cardinality(Elements(s) \cup {e}) = IF e \in Elements(s) THEN k ELSE k + 1
    BY <2>1, <2>2, FS_AddElement
  <2>6. Once(Append(s, e), A) <=> Once(s, A) /\ e \notin Elements(s)
    BY OnceAppend
  <2>7. /\ Cardinality(Elements(Append(s, e))) \in 0 .. n + 1
        /\ Cardinality(Elements(Append(s, e))) = n + 1 <=> Once(Append(s, e), A)
    BY <2>2, <2>4, <2>5, <2>6
  <2>8. QED
    BY <2>3, <2>4, <2>5, <2>7
<1>3. Seq(A) \subseteq Q
  <2> HIDE DEF Q
  <2> QED BY <1>1, <1>2, AppendInduction
<1>4. QED
  BY <1>3

-------------------------------------------------------------------------------
(* The protocol *)

\* The ticker list of a line is a list of names.
LEMMA TickersType ==
  ASSUME NEW line \in Line
  PROVE  /\ line.items \in Seq(Names \cup {Blank})
         /\ TickersOf(line) \in Seq(Names)
         /\ Elements(TickersOf(line)) = Elements(line.items) \cap Names
<1>1. line.items \in Seq(Names \cup {Blank})
  BY DEF Line
<1>2. (Names \cup {Blank}) \cap Names = Names
  OBVIOUS
<1>3. QED
  BY <1>1, <1>2, KeepElements DEF TickersOf

\* validate_stream_command passes a list exactly when the README says a STREAM
\* line that holds it is right (run.rs:81-99, protocol.rs:52-83).
LEMMA ValidIsAcceptable ==
  ASSUME NEW line \in Line, line.verb = "STREAM", line.addr = "udp"
  PROVE  ValidateStreamCommand(TickersOf(line)) = "valid" <=> Acceptable(line)
<1>1. PICK items, ts : items = line.items /\ ts = TickersOf(line)
  OBVIOUS
<1>2. /\ items \in Seq(Names \cup {Blank}) /\ ts \in Seq(Names)
      /\ Elements(ts) = Elements(items) \cap Names
  BY <1>1, TickersType
<1>3. Cardinality(Elements(ts)) = Len(ts) <=> Once(items, Names)
  <2>1. Cardinality(Elements(ts)) = Len(ts) <=> Once(ts, Names)
    BY <1>2, SizesTellOnce
  <2>2. Once(ts, Names) <=> Once(items, Names)
    BY <1>1, <1>2, KeepOnce DEF TickersOf
  <2>3. QED
    BY <2>1, <2>2
<1>4. ts = << >> <=> Elements(ts) = {}
  <2>1. ts # << >> => 1 \in DOMAIN ts
    BY <1>2
  <2>2. QED
    BY <2>1 DEF Elements
<1>5. \A i \in DOMAIN items : items[i] \in Names <=> items[i] # Blank
  BY <1>2, NamesAssumption
<1>6. Acceptable(line) <=>
        /\ Elements(items) \cap Names # {}
        /\ Elements(items) \cap Names \subseteq DefaultTickers
        /\ Once(items, Names)
  BY <1>1, <1>5 DEF Acceptable, Elements, Once
<1>7. ValidateStreamCommand(ts) = "valid" <=>
        /\ ts # << >>
        /\ Cardinality(Elements(ts)) = Len(ts)
        /\ Elements(ts) \subseteq DefaultTickers
  BY DEF ValidateStreamCommand
<1>8. QED
  BY <1>1, <1>2, <1>3, <1>4, <1>6, <1>7

\* What a line is parsed to is a command, and the line the handler writes for
\* it is the answer the README promises.
LEMMA ParsedRight ==
  ASSUME NEW line \in Line
  PROVE  /\ Parse(line) \in Command
         /\ Parse(line).cmd = "PONG" <=> line.verb = "PONG"
         /\ line.verb # "PONG" => ReplyTo(Parse(line)) = Answer(line)
         /\ Acceptable(line) => Parse(line).tickers = TickersOf(line)
<1>1. CASE line.verb \in {"PING", "PONG"}
  BY <1>1 DEF Parse, Command, ReplyTo, Answer, Acceptable
<1>2. CASE line.verb = "STREAM" /\ line.items # << >> /\ line.addr = "udp"
  <2>1. Parse(line) = [cmd |-> "STREAM", tickers |-> TickersOf(line)]
    BY <1>2 DEF Parse
  <2>2. Parse(line) \in Command
    BY <2>1, TickersType DEF Command
  <2>3. ReplyTo(Parse(line)) = Answer(line)
    BY <1>2, <2>1, ValidIsAcceptable DEF ReplyTo, Answer
  <2>4. QED
    BY <1>2, <2>1, <2>2, <2>3
<1>3. CASE /\ line.verb \notin {"PING", "PONG"}
           /\ ~(line.verb = "STREAM" /\ line.items # << >> /\ line.addr = "udp")
  <2>1. Parse(line) = [cmd |-> "unknown", long |-> line.text > ECHO_LIMIT, whole |-> line.whole]
    BY <1>3 DEF Parse
  <2>2. line.whole \in BOOLEAN
    BY DEF Line
  <2>3. Parse(line) \in Command
    BY <2>1, <2>2 DEF Command
  <2>4. ~Acceptable(line)
    BY <1>3 DEF Acceptable
  <2>5. QED
    BY <1>3, <2>1, <2>3, <2>4 DEF ReplyTo, Answer
<1>4. QED
  BY <1>1, <1>2, <1>3

-------------------------------------------------------------------------------
(* The invariant *)

\* After Ctrl+C the accept loop takes one connection and tests the flag.
StopInv ==
  /\ ~sigint => late = 0
  /\ late # 0 => late = 1 /\ srv \in {"head", "exited"}

\* Handlers that owe no reply.
Even == {"none", "start", "read", "subscribe", "returned"}

\* A handler at p with command k, which was asked a, granted g, replied r, of
\* which o OKs, and made the streams m.
HandlerInv(p, k, a, g, r, o, m) ==
  /\ Len(r) <= Len(a) /\ Len(a) <= Len(r) + 1
  /\ \A i \in 1 .. Len(r) : r[i] = Answer(a[i].line)
  /\ o <= Len(g)
  /\ p \in Even => Len(a) = Len(r) /\ Len(g) = o
  /\ p \in {"reply", "subscribe"} =>
       /\ Len(a) > 0
       /\ k = Parse(a[Len(a)].line)
       /\ Acceptable(a[Len(a)].line) => Len(g) > 0 /\ g[Len(g)] = a[Len(a)]
  /\ p = "reply" =>
       /\ Len(a) = Len(r) + 1
       /\ Len(g) = IF Acceptable(a[Len(a)].line) THEN o + 1 ELSE o
  /\ p = "subscribe" => Acceptable(a[Len(a)].line)
  /\ Len(m) = IF p = "subscribe" THEN o - 1 ELSE o
  /\ \A i \in 1 .. Len(m) : m[i].tickers = TickersOf(g[i].line)

HandlersInv ==
  \A c \in Conns :
    HandlerInv(pc[c], cmd[c], Asked(c), Granted(c), replies[c], Oks(c), Streams(c))

IInv == TypeOK /\ StopInv /\ HandlersInv

\* The lines peers send are lines.
LEMMA AllLinesType == AllLines \subseteq Line
BY LinesAssumption DEF AllLines

\* Types of what the invariant is about.
LEMMA KeptTypes ==
  ASSUME TypeOK, NEW c \in Conns
  PROVE  /\ taken[c] \in Seq(Taken) /\ replies[c] \in Seq({"OK", "ERR", "PONG"})
         /\ Asked(c) \in Seq({t \in Taken : Answerable(t)})
         /\ Granted(c) \in Seq(Taken)
         /\ Oks(c) \in Nat
         /\ subs \in Seq([conn : Conns, tickers : Seq(Names)])
         /\ Streams(c) \in Seq([conn : {c}, tickers : Seq(Names)])
<1> DEFINE A == {t \in Taken : Answerable(t)}
           G == {t \in Taken : Answerable(t) /\ Acceptable(t.line)}
           M == [conn : Conns, tickers : Seq(Names)]
           C == [conn : {c}, tickers : Seq(Names)]
           R == {"OK", "ERR", "PONG"}
<1>1. taken[c] \in Seq(Taken) /\ replies[c] \in Seq(R) /\ subs \in Seq(M)
  BY DEF TypeOK
<1>2. A \subseteq Taken /\ G \subseteq Taken
  OBVIOUS
<1>3. C \subseteq M
  OBVIOUS
<1>4. Asked(c) \in Seq(A) /\ Granted(c) \in Seq(G)
  <2> HIDE DEF A, G
  <2>1. Asked(c) = Keep(taken[c], A) /\ Granted(c) = Keep(taken[c], G)
    BY DEF Asked, Granted, A, G
  <2>2. QED
    BY <1>1, <1>2, <2>1, KeepType
<1>5. Streams(c) \in Seq(C)
  <2> HIDE DEF M, C
  <2>1. Streams(c) = Keep(subs, C)
    BY DEF Streams, C
  <2>2. QED
    BY <1>1, <1>3, <2>1, KeepType
<1>6. Keep(replies[c], {"OK"}) \in Seq(R \cap {"OK"})
  BY <1>1, KeepElements
<1>7. Oks(c) \in Nat
  BY <1>6 DEF Oks
<1>8. Granted(c) \in Seq(Taken)
  BY <1>4
<1>9. QED
  BY <1>1, <1>4, <1>5, <1>7, <1>8

\* The invariant holds before the server has started.
LEMMA InitInv == Init => IInv
<1> SUFFICES ASSUME Init PROVE IInv
  OBVIOUS
<1>0. NoCommand \in Command
  BY DEF Command, NoCommand
<1>a. /\ << >> \in Seq(AllLines) /\ << >> \in Seq(Taken) /\ << >> \in Seq({"OK", "ERR", "PONG"})
      /\ << >> \in Seq([conn : Conns, tickers : Seq(Names)])
  OBVIOUS
<1>b. sent \in [Conns -> Nat] /\ \A c \in Conns : sent[c] <= MaxSent[c]
  BY MaxSentAssumption DEF Init
<1>c. /\ wire \in [Conns -> Seq(AllLines)] /\ taken \in [Conns -> Seq(Taken)]
      /\ replies \in [Conns -> Seq({"OK", "ERR", "PONG"})]
      /\ subs \in Seq([conn : Conns, tickers : Seq(Names)])
  BY <1>a DEF Init
<1>d. /\ srv \in {"boot", "head", "accept", "sleep", "exited"} /\ late \in 0 .. 2
      /\ peer \in [Conns -> {"idle", "open", "closed"}]
      /\ pc \in [Conns -> {"none", "start", "read", "reply", "subscribe"} \cup Over]
      /\ cmd \in [Conns -> Command]
  BY <1>0 DEF Init
<1>e. sigint \in BOOLEAN /\ ended \in [Conns -> BOOLEAN]
  BY Zenon DEF Init
<1>1. TypeOK
  BY <1>b, <1>c, <1>d, <1>e DEF TypeOK
<1>2. StopInv
  BY DEF Init, StopInv
<1>3. ASSUME NEW c \in Conns
      PROVE  HandlerInv(pc[c], cmd[c], Asked(c), Granted(c), replies[c], Oks(c), Streams(c))
  <2>1. Asked(c) = << >> /\ Granted(c) = << >> /\ Streams(c) = << >>
    BY KeepEmpty DEF Init, Asked, Granted, Streams
  <2>2. Oks(c) = 0 /\ replies[c] = << >> /\ pc[c] = "none"
    BY KeepEmpty DEF Init, Oks
  <2>3. QED
    BY <2>1, <2>2 DEF HandlerInv, Even
<1>4. QED
  BY <1>1, <1>2, <1>3 DEF IInv, HandlersInv

\* Steps that do not touch handlers keep what is known of them.
LEMMA HandlersFrame == HandlersInv /\ UNCHANGED handlerVars => HandlersInv'
<1> SUFFICES ASSUME HandlersInv, UNCHANGED handlerVars PROVE HandlersInv'
  OBVIOUS
<1>1. pc' = pc /\ cmd' = cmd /\ taken' = taken /\ replies' = replies /\ subs' = subs
  BY DEF handlerVars
<1>2. ASSUME NEW c \in Conns
      PROVE  /\ Asked(c)' = Asked(c) /\ Granted(c)' = Granted(c)
             /\ Oks(c)' = Oks(c) /\ Streams(c)' = Streams(c)
  BY <1>1 DEF Asked, Granted, Oks, Streams
<1>3. QED
  BY <1>1, <1>2, Zenon DEF HandlersInv

\* Nor does a step of one handler touch another: it is enough to look at the
\* handler that takes the step.
LEMMA OneHandler ==
  ASSUME NEW c \in Conns, HandlersInv, TypeOK,
         \A d \in Conns \ {c} :
           /\ pc'[d] = pc[d] /\ cmd'[d] = cmd[d] /\ taken'[d] = taken[d] /\ replies'[d] = replies[d],
         \/ subs' = subs
         \/ \E ts \in Seq(Names) : subs' = Append(subs, [conn |-> c, tickers |-> ts]),
         HandlerInv(pc'[c], cmd'[c], Asked(c)', Granted(c)', replies'[c], Oks(c)', Streams(c)')
  PROVE  HandlersInv'
<1>1. ASSUME NEW d \in Conns, d # c
      PROVE  HandlerInv(pc'[d], cmd'[d], Asked(d)', Granted(d)', replies'[d], Oks(d)', Streams(d)')
  <2>1. /\ pc'[d] = pc[d] /\ cmd'[d] = cmd[d] /\ taken'[d] = taken[d] /\ replies'[d] = replies[d]
    BY <1>1
  <2>2. Asked(d)' = Asked(d) /\ Granted(d)' = Granted(d) /\ Oks(d)' = Oks(d)
    BY <2>1 DEF Asked, Granted, Oks
  <2>3. Streams(d)' = Streams(d)
    <3>1. CASE subs' = subs
      BY <3>1 DEF Streams
    <3>2. ASSUME NEW ts \in Seq(Names), subs' = Append(subs, [conn |-> c, tickers |-> ts])
          PROVE  Streams(d)' = Streams(d)
      <4>1. PICK e, M, D : /\ e = [conn |-> c, tickers |-> ts]
                           /\ M = [conn : Conns, tickers : Seq(Names)]
                           /\ D = [conn : {d}, tickers : Seq(Names)]
        OBVIOUS
      <4>2. e \in M /\ e \notin D
        BY <1>1, <4>1
      <4>3. subs \in Seq(M)
        BY <4>1 DEF TypeOK
      <4>4. Keep(Append(subs, e), D) = Keep(subs, D)
        BY ONLY <4>2, <4>3, KeepAppend
      <4>5. QED
        BY <3>2, <4>1, <4>4 DEF Streams
    <3>3. QED
      BY <3>1, <3>2
  <2>4. QED
    BY <2>1, <2>2, <2>3, Zenon DEF HandlersInv
<1>2. QED
  BY <1>1, Zenon DEF HandlersInv

\* The main thread and Ctrl+C.
LEMMA MainInv ==
  IInv /\ (Boot \/ LoopHead \/ AcceptEmpty \/ WakeUp \/ AcceptFails \/ CtrlC) => IInv'
<1> SUFFICES ASSUME IInv, Boot \/ LoopHead \/ AcceptEmpty \/ WakeUp \/ AcceptFails \/ CtrlC
             PROVE  IInv'
  OBVIOUS
<1>1. UNCHANGED <<late, peerVars, handlerVars>>
  BY DEF Boot, LoopHead, AcceptEmpty, WakeUp, AcceptFails, CtrlC
<1>2. HandlersInv'
  BY <1>1, HandlersFrame DEF IInv
<1>3. StopInv'
  BY <1>1 DEF IInv, TypeOK, StopInv, Boot, LoopHead, StopFlag, AcceptEmpty, WakeUp, AcceptFails, CtrlC
<1>4. srv' \in {"boot", "head", "accept", "sleep", "exited"} /\ sigint' \in BOOLEAN
  BY DEF IInv, TypeOK, Boot, LoopHead, AcceptEmpty, WakeUp, AcceptFails, CtrlC
<1>5. TypeOK'
  BY <1>1, <1>4 DEF IInv, TypeOK, peerVars, handlerVars
<1>6. QED
  BY <1>2, <1>3, <1>5 DEF IInv

\* The peers.
LEMMA PeersInv ==
  ASSUME NEW c \in Conns
  PROVE  IInv /\ (Connect(c) \/ PeerWrites(c) \/ PeerEndsLine(c) \/ PeerCloses(c)) => IInv'
<1> SUFFICES ASSUME IInv, Connect(c) \/ PeerWrites(c) \/ PeerEndsLine(c) \/ PeerCloses(c)
             PROVE  IInv'
  OBVIOUS
<1>1. UNCHANGED <<srvVars, handlerVars>>
  BY DEF Connect, PeerWrites, PeerEndsLine, PeerCloses
<1>2. HandlersInv' /\ StopInv'
  BY <1>1, HandlersFrame DEF IInv, StopInv, srvVars
<1>3. peer' \in [Conns -> {"idle", "open", "closed"}]
  BY DEF IInv, TypeOK, Connect, PeerWrites, PeerEndsLine, PeerCloses
<1>4. wire' \in [Conns -> Seq(AllLines)]
  <2>1. CASE PeerWrites(c)
    <3>1. PICK line \in Lines[c] : wire' = [wire EXCEPT ![c] = Append(@, line)]
      BY <2>1 DEF PeerWrites
    <3>2. line \in AllLines /\ wire \in [Conns -> Seq(AllLines)]
      BY DEF AllLines, IInv, TypeOK
    <3>3. QED
      BY <3>1, <3>2
  <2>2. CASE wire' = wire
    BY <2>2 DEF IInv, TypeOK
  <2>3. QED
    BY <2>1, <2>2 DEF Connect, PeerEndsLine, PeerCloses
<1>5. ended' \in [Conns -> BOOLEAN]
  BY DEF IInv, TypeOK, Connect, PeerWrites, PeerEndsLine, PeerCloses
<1>6. sent' \in [Conns -> Nat] /\ \A d \in Conns : sent'[d] <= MaxSent[d]
  <2>1. sent \in [Conns -> Nat] /\ \A d \in Conns : sent[d] <= MaxSent[d] /\ MaxSent[d] \in Nat
    BY MaxSentAssumption DEF IInv, TypeOK
  <2>2. CASE PeerWrites(c)
    <3>1. sent[c] < MaxSent[c] /\ sent' = [sent EXCEPT ![c] = @ + 1]
      BY <2>2 DEF PeerWrites
    <3>2. QED
      BY ONLY <2>1, <3>1, c \in Conns
  <2>3. CASE sent' = sent
    BY <2>1, <2>3
  <2>4. QED
    BY <2>2, <2>3 DEF Connect, PeerEndsLine, PeerCloses
<1>7. TypeOK'
  BY <1>1, <1>3, <1>4, <1>5, <1>6 DEF IInv, TypeOK, srvVars, handlerVars
<1>8. QED
  BY <1>2, <1>7 DEF IInv

\* A step that only moves a handler, to a place that asks no more of it.
LEMMA MovesInv ==
  ASSUME NEW c \in Conns, NEW next, IInv,
         pc' = [pc EXCEPT ![c] = next],
         \/ pc[c] \in Even \ {"subscribe"} /\ next \in {"start", "read", "returned", "failed"}
         \/ pc[c] = "reply" /\ next = "failed",
         UNCHANGED <<cmd, taken, replies, subs>>
  PROVE  HandlersInv'
<1>1. TypeOK /\ HandlersInv /\ pc \in [Conns -> {"none", "start", "read", "reply", "subscribe"} \cup Over]
  BY DEF IInv, TypeOK
<1>2. /\ pc'[c] = next
      /\ \A d \in Conns \ {c} :
           pc'[d] = pc[d] /\ cmd'[d] = cmd[d] /\ taken'[d] = taken[d] /\ replies'[d] = replies[d]
  BY <1>1
<1>3. /\ Asked(c)' = Asked(c) /\ Granted(c)' = Granted(c)
      /\ Oks(c)' = Oks(c) /\ Streams(c)' = Streams(c) /\ replies'[c] = replies[c] /\ cmd'[c] = cmd[c]
  BY DEF Asked, Granted, Oks, Streams
<1>4. HandlerInv(pc[c], cmd[c], Asked(c), Granted(c), replies[c], Oks(c), Streams(c))
  BY <1>1 DEF HandlersInv
<1>5. HandlerInv(next, cmd[c], Asked(c), Granted(c), replies[c], Oks(c), Streams(c))
  BY <1>4 DEF HandlerInv, Even
<1>6. HandlerInv(pc'[c], cmd'[c], Asked(c)', Granted(c)', replies'[c], Oks(c)', Streams(c)')
  BY <1>2, <1>3, <1>5, Zenon
<1>7. QED
  BY <1>1, <1>2, <1>6, OneHandler

\* The steps of this kind.
LEMMA SimpleInv ==
  ASSUME NEW c \in Conns
  PROVE  IInv /\ (Accept(c) \/ StartHandler(c) \/ ReadEnd(c) \/ WriteFails(c)) => IInv'
<1> SUFFICES ASSUME IInv, Accept(c) \/ StartHandler(c) \/ ReadEnd(c) \/ WriteFails(c)
             PROVE  IInv'
  OBVIOUS
<1>1. PICK next : /\ pc' = [pc EXCEPT ![c] = next]
                  /\ \/ pc[c] \in Even \ {"subscribe"} /\ next \in {"start", "read", "returned", "failed"}
                     \/ pc[c] = "reply" /\ next = "failed"
                  /\ UNCHANGED <<cmd, taken, replies, subs>>
  BY DEF Accept, Waiting, StartHandler, ReadEnd, WriteFails, Even
<1>2. HandlersInv'
  BY <1>1, MovesInv
<1>3. srv' \in {"boot", "head", "accept", "sleep", "exited"} /\ late' \in 0 .. 2
  BY DEF IInv, TypeOK, Accept, AfterAccept, StartHandler, ReadEnd, WriteFails, srvVars
<1>4. StopInv'
  BY DEF IInv, TypeOK, StopInv, Accept, AfterAccept, StartHandler, ReadEnd, WriteFails, srvVars
<1>5. UNCHANGED <<sigint, peerVars>>
  BY DEF Accept, StartHandler, ReadEnd, WriteFails, srvVars
<1>6. pc' \in [Conns -> {"none", "start", "read", "reply", "subscribe"} \cup Over]
  BY <1>1 DEF IInv, TypeOK, Over
<1>7. TypeOK'
  BY <1>1, <1>3, <1>5, <1>6 DEF IInv, TypeOK, peerVars
<1>8. QED
  BY <1>2, <1>4, <1>7 DEF IInv

\* A line that was read is asked, and granted, if it is answerable.
LEMMA ReadInv == ASSUME NEW c \in Conns PROVE IInv /\ ReadCommand(c) => IInv'
<1> SUFFICES ASSUME IInv, ReadCommand(c) PROVE IInv'
  OBVIOUS
<1>1. PICK line, end, t : line = Head(wire[c]) /\ end = HeadEnded(c) /\ t = [line |-> line, ended |-> end]
  OBVIOUS
<1>2. /\ line \in AllLines /\ line \in Line /\ end \in BOOLEAN /\ t \in Taken
      /\ Tail(wire[c]) \in Seq(AllLines)
  <2>1. wire[c] \in Seq(AllLines) /\ wire[c] # << >> /\ ended[c] \in BOOLEAN
    BY DEF IInv, TypeOK, ReadCommand, LineArrived
  <2>2. line \in AllLines /\ Tail(wire[c]) \in Seq(AllLines)
    BY <1>1, <2>1
  <2>3. end \in BOOLEAN
    BY <1>1, <2>1 DEF HeadEnded
  <2>4. QED
    BY <1>1, <2>2, <2>3, AllLinesType DEF Taken
<1>3. Answerable(t) <=> Readable(line, end) /\ line.verb # "PONG"
  <2>1. line.size \in Nat /\ t.line = line /\ t.ended = end
    BY <1>1, <1>2 DEF Line
  <2>2. QED
    BY <1>2, <2>1 DEF Answerable, Readable, MAX_COMMAND_LINE_BYTES
<1>4. /\ pc[c] = "read"
      /\ IF Readable(line, end)
         THEN pc' = [pc EXCEPT ![c] = Dispatch(Parse(line))] /\ cmd' = [cmd EXCEPT ![c] = Parse(line)]
         ELSE pc' = [pc EXCEPT ![c] = "failed"] /\ UNCHANGED cmd
      /\ taken' = [taken EXCEPT ![c] = Append(@, t)]
      /\ wire' = [wire EXCEPT ![c] = Tail(@)]
      /\ UNCHANGED <<srvVars, peer, ended, sent, replies, subs>>
  BY <1>1 DEF ReadCommand
<1>5. PICK p, k : /\ pc' = [pc EXCEPT ![c] = p] /\ cmd' = [cmd EXCEPT ![c] = k]
                  /\ k \in Command
                  /\ \/ ~Answerable(t) /\ p \in {"read", "failed"}
                     \/ Answerable(t) /\ p \in {"reply", "panicked"} /\ k = Parse(line)
  <2>1. Parse(line) \in Command /\ (Parse(line).cmd = "PONG" <=> line.verb = "PONG")
    BY <1>2, ParsedRight
  <2>2. CASE Readable(line, end)
    <3>1. Dispatch(Parse(line)) \in IF line.verb = "PONG" THEN {"read"} ELSE {"reply", "panicked"}
      BY <2>1 DEF Dispatch
    <3>2. QED
      BY <1>3, <1>4, <2>1, <2>2, <3>1
  <2>3. CASE ~Readable(line, end)
    <3>1. cmd \in [Conns -> Command]
      BY DEF IInv, TypeOK
    <3>2. cmd' = [cmd EXCEPT ![c] = cmd[c]] /\ cmd[c] \in Command
      BY <1>4, <2>3, <3>1
    <3>3. QED
      BY <1>3, <1>4, <2>3, <3>2
  <2>4. QED
    BY <2>2, <2>3
<1>6. TypeOK'
  <2>1. pc' \in [Conns -> {"none", "start", "read", "reply", "subscribe"} \cup Over]
    BY <1>5 DEF IInv, TypeOK, Over
  <2>2. cmd' \in [Conns -> Command]
    BY <1>5 DEF IInv, TypeOK
  <2>3. taken' \in [Conns -> Seq(Taken)]
    <3>1. taken \in [Conns -> Seq(Taken)]
      BY DEF IInv, TypeOK
    <3>2. Append(taken[c], t) \in Seq(Taken)
      BY <3>1, <1>2
    <3>3. QED
      BY <1>4, <3>1, <3>2
  <2>4. wire' \in [Conns -> Seq(AllLines)]
    <3>1. wire \in [Conns -> Seq(AllLines)]
      BY DEF IInv, TypeOK
    <3>2. QED
      BY <1>2, <1>4, <3>1
  <2>5. QED
    BY <1>4, <2>1, <2>2, <2>3, <2>4 DEF IInv, TypeOK, srvVars
<1>7. HandlersInv'
  <2>0. TypeOK /\ HandlersInv
    BY DEF IInv
  <2>1. PICK a, g, r, o, m :
          /\ a = Asked(c) /\ g = Granted(c) /\ r = replies[c] /\ o = Oks(c) /\ m = Streams(c)
    OBVIOUS
  <2>2. /\ a \in Seq({u \in Taken : Answerable(u)}) /\ g \in Seq(Taken)
        /\ r \in Seq({"OK", "ERR", "PONG"}) /\ o \in Nat
        /\ m \in Seq([conn : {c}, tickers : Seq(Names)]) /\ taken[c] \in Seq(Taken)
    BY <2>0, <2>1, KeptTypes
  <2>3. HandlerInv("read", cmd[c], a, g, r, o, m)
    BY <1>4, <2>0, <2>1 DEF HandlersInv
  <2>4. /\ taken'[c] = Append(taken[c], t) /\ pc'[c] = p /\ cmd'[c] = k
        /\ replies'[c] = r /\ Oks(c)' = o /\ Streams(c)' = m /\ subs' = subs
        /\ \A d \in Conns \ {c} :
             pc'[d] = pc[d] /\ cmd'[d] = cmd[d] /\ taken'[d] = taken[d] /\ replies'[d] = replies[d]
    BY <1>4, <1>5, <2>0, <2>1 DEF TypeOK, Oks, Streams
  <2>5. Asked(c)' = IF Answerable(t) THEN Append(a, t) ELSE a
    <3>1. PICK S : S = {u \in Taken : Answerable(u)}
      OBVIOUS
    <3>2. Keep(Append(taken[c], t), S) = IF t \in S THEN Append(Keep(taken[c], S), t) ELSE Keep(taken[c], S)
      BY <1>2, <2>2, KeepAppend
    <3>3. QED
      BY <1>2, <2>1, <2>4, <3>1, <3>2 DEF Asked
  <2>6. Granted(c)' = IF Answerable(t) /\ Acceptable(line) THEN Append(g, t) ELSE g
    <3>1. PICK S : S = {u \in Taken : Answerable(u) /\ Acceptable(u.line)}
      OBVIOUS
    <3>2. Keep(Append(taken[c], t), S) = IF t \in S THEN Append(Keep(taken[c], S), t) ELSE Keep(taken[c], S)
      BY <1>2, <2>2, KeepAppend
    <3>3. t \in S <=> Answerable(t) /\ Acceptable(line)
      BY <1>1, <1>2, <3>1
    <3>4. QED
      BY <2>1, <2>4, <3>1, <3>2, <3>3 DEF Granted
  <2>7. PICK a2, g2 : a2 = Asked(c)' /\ g2 = Granted(c)'
    OBVIOUS
  <2>8. HandlerInv(p, k, a2, g2, r, o, m)
    <3>1. CASE ~Answerable(t)
      <4>1. a2 = a /\ g2 = g /\ p \in {"read", "failed"}
        BY <1>5, <2>5, <2>6, <2>7, <3>1
      <4>2. QED
        BY <2>3, <4>1 DEF HandlerInv, Even
    <3>2. CASE Answerable(t)
      <4>1. /\ a2 = Append(a, t) /\ t.line = line /\ k = Parse(line) /\ p \in {"reply", "panicked"}
            /\ g2 = IF Acceptable(line) THEN Append(g, t) ELSE g
        BY <1>1, <1>5, <2>5, <2>6, <2>7, <3>2
      <4>2. Len(a) \in Nat /\ Len(g) \in Nat /\ Len(r) \in Nat /\ Len(m) \in Nat
        BY <2>2
      <4>3. /\ Len(a2) = Len(a) + 1 /\ a2[Len(a) + 1] = t /\ \A i \in 1 .. Len(a) : a2[i] = a[i]
        BY <2>2, <4>1
      <4>4. /\ Len(g2) = IF Acceptable(line) THEN Len(g) + 1 ELSE Len(g)
            /\ \A i \in 1 .. Len(g) : g2[i] = g[i]
            /\ Acceptable(line) => g2[Len(g) + 1] = t
        BY <2>2, <4>1
      <4>5. /\ Len(r) = Len(a) /\ Len(g) = o /\ Len(m) = o
            /\ \A i \in 1 .. Len(r) : r[i] = Answer(a[i].line)
            /\ \A i \in 1 .. Len(m) : m[i].tickers = TickersOf(g[i].line)
        BY ONLY <2>3 DEF HandlerInv, Even
      <4>6. /\ \A i \in 1 .. Len(r) : r[i] = Answer(a2[i].line)
            /\ \A i \in 1 .. Len(m) : m[i].tickers = TickersOf(g2[i].line)
        BY ONLY <4>3, <4>4, <4>5
      <4>7. /\ Len(a2) = Len(r) + 1 /\ a2[Len(a2)].line = line /\ Len(a2) > 0
            /\ Len(g2) = IF Acceptable(line) THEN o + 1 ELSE o
            /\ o <= Len(g2)
            /\ Acceptable(line) => Len(g2) > 0 /\ g2[Len(g2)] = a2[Len(a2)]
        BY ONLY <4>1, <4>2, <4>3, <4>4, <4>5
      <4>8. QED
        BY ONLY <4>1, <4>2, <4>5, <4>6, <4>7 DEF HandlerInv, Even
    <3>3. QED
      BY <3>1, <3>2
  <2>9. HandlerInv(pc'[c], cmd'[c], Asked(c)', Granted(c)', replies'[c], Oks(c)', Streams(c)')
    BY <2>4, <2>7, <2>8, Zenon
  <2>10. QED
    BY <2>0, <2>4, <2>9, OneHandler
<1>8. StopInv'
  BY <1>4 DEF IInv, StopInv, srvVars
<1>9. QED
  BY <1>6, <1>7, <1>8 DEF IInv

\* The answer is the right one for the line that was read last.
LEMMA WriteInv == ASSUME NEW c \in Conns PROVE IInv /\ WriteReply(c) => IInv'
<1> SUFFICES ASSUME IInv, WriteReply(c) PROVE IInv'
  OBVIOUS
<1>0. TypeOK /\ HandlersInv
  BY DEF IInv
<1>1. PICK k, a, g, r, o, m :
        /\ k = cmd[c] /\ a = Asked(c) /\ g = Granted(c) /\ r = replies[c]
        /\ o = Oks(c) /\ m = Streams(c)
  OBVIOUS
<1>2. /\ a \in Seq({u \in Taken : Answerable(u)}) /\ g \in Seq(Taken)
      /\ r \in Seq({"OK", "ERR", "PONG"}) /\ o \in Nat
      /\ m \in Seq([conn : {c}, tickers : Seq(Names)]) /\ taken[c] \in Seq(Taken)
  BY <1>0, <1>1, KeptTypes
<1>3. HandlerInv("reply", k, a, g, r, o, m)
  BY <1>0, <1>1 DEF HandlersInv, WriteReply
<1>4. PICK line : line = a[Len(a)].line
  OBVIOUS
<1>5. /\ line \in Line /\ line.verb # "PONG"
      /\ k = Parse(line)
      /\ Len(a) = Len(r) + 1
  <2>1. Len(a) > 0 /\ k = Parse(line) /\ Len(a) = Len(r) + 1
    BY <1>3, <1>4 DEF HandlerInv
  <2>2. a[Len(a)] \in {u \in Taken : Answerable(u)}
    BY <1>2, <2>1
  <2>3. QED
    BY <1>4, <2>1, <2>2, AllLinesType DEF Taken, Answerable
<1>6. PICK w : w = ReplyTo(k)
  OBVIOUS
<1>7. w = Answer(line) /\ w \in {"OK", "ERR", "PONG"} /\ (w = "OK" <=> Acceptable(line))
  BY <1>5, <1>6, ParsedRight DEF Answer, Acceptable
<1>8. /\ pc[c] = "reply"
      /\ replies' = [replies EXCEPT ![c] = Append(@, w)]
      /\ pc' = [pc EXCEPT ![c] = IF w = "OK" THEN "subscribe" ELSE "read"]
      /\ UNCHANGED <<srvVars, peerVars, cmd, taken, subs>>
  BY <1>1, <1>6 DEF WriteReply, AfterReply
<1>9. TypeOK'
  <2>1. pc' \in [Conns -> {"none", "start", "read", "reply", "subscribe"} \cup Over]
    BY <1>0, <1>8 DEF TypeOK
  <2>2. replies' \in [Conns -> Seq({"OK", "ERR", "PONG"})]
    <3>1. Append(r, w) \in Seq({"OK", "ERR", "PONG"})
      BY <1>2, <1>7
    <3>2. replies \in [Conns -> Seq({"OK", "ERR", "PONG"})]
      BY <1>0 DEF TypeOK
    <3>3. QED
      BY <1>1, <1>8, <3>1, <3>2
  <2>3. QED
    BY <1>0, <1>8, <2>1, <2>2 DEF TypeOK, srvVars, peerVars
<1>10. HandlersInv'
  <2>1. PICK r2, o2, p : r2 = replies'[c] /\ o2 = Oks(c)' /\ p = pc'[c]
    OBVIOUS
  <2>2. /\ r2 = Append(r, w) /\ p = (IF w = "OK" THEN "subscribe" ELSE "read")
        /\ Asked(c)' = a /\ Granted(c)' = g /\ Streams(c)' = m /\ cmd'[c] = k /\ subs' = subs
        /\ \A d \in Conns \ {c} :
             pc'[d] = pc[d] /\ cmd'[d] = cmd[d] /\ taken'[d] = taken[d] /\ replies'[d] = replies[d]
    BY <1>0, <1>1, <1>8, <2>1 DEF TypeOK, Asked, Granted, Streams
  <2>3. o2 = IF w = "OK" THEN o + 1 ELSE o
    <3>1. PICK R, K : R = {"OK", "ERR", "PONG"} /\ K = {"OK"}
      OBVIOUS
    <3>2. r \in Seq(R) /\ w \in R /\ K \subseteq R /\ (w \in K <=> w = "OK")
      BY <1>2, <1>7, <3>1
    <3>3. PICK q, q2 : q = Keep(r, K) /\ q2 = Keep(r2, K)
      OBVIOUS
    <3>4. q2 = IF w \in K THEN Append(q, w) ELSE q
      BY <2>2, <3>2, <3>3, KeepAppend
    <3>5. q \in Seq(K)
      BY <3>2, <3>3, KeepType
    <3>6. o = Len(q) /\ o2 = Len(q2)
      BY <1>1, <2>1, <3>1, <3>3 DEF Oks
    <3>7. QED
      BY ONLY <3>2, <3>4, <3>5, <3>6
  <2>4. Len(a) \in Nat /\ Len(g) \in Nat /\ Len(r) \in Nat /\ Len(m) \in Nat
    BY <1>2
  <2>5. /\ Len(r2) = Len(r) + 1 /\ r2[Len(r) + 1] = w /\ \A i \in 1 .. Len(r) : r2[i] = r[i]
    BY <1>2, <1>7, <2>2
  <2>6. /\ Len(m) = o /\ k = Parse(line) /\ Len(a) > 0
        /\ \A i \in 1 .. Len(r) : r[i] = Answer(a[i].line)
        /\ \A i \in 1 .. Len(m) : m[i].tickers = TickersOf(g[i].line)
        /\ Len(g) = IF Acceptable(line) THEN o + 1 ELSE o
        /\ Acceptable(line) => Len(g) > 0 /\ g[Len(g)] = a[Len(a)]
    BY ONLY <1>3, <1>4 DEF HandlerInv
  <2>7. \A i \in 1 .. Len(r2) : r2[i] = Answer(a[i].line)
    BY ONLY <1>4, <1>5, <1>7, <2>4, <2>5, <2>6
  <2>8. Len(g) = o2 /\ Len(a) = Len(r2) /\ o2 \in Nat
    BY ONLY <1>2, <1>5, <1>7, <2>3, <2>4, <2>5, <2>6
  <2>9. HandlerInv(p, k, a, g, r2, o2, m)
    BY ONLY <1>2, <1>4, <1>7, <2>2, <2>3, <2>4, <2>6, <2>7, <2>8 DEF HandlerInv, Even
  <2>10. HandlerInv(pc'[c], cmd'[c], Asked(c)', Granted(c)', replies'[c], Oks(c)', Streams(c)')
    BY <2>1, <2>2, <2>9, Zenon
  <2>11. QED
    BY <1>0, <2>2, <2>10, OneHandler
<1>11. StopInv'
  BY <1>8 DEF IInv, StopInv, srvVars
<1>12. QED
  BY <1>9, <1>10, <1>11 DEF IInv

\* The subscription is to the tickers of the line that was read last.
LEMMA SubscribeInv == ASSUME NEW c \in Conns PROVE IInv /\ Subscribe(c) => IInv'
<1> SUFFICES ASSUME IInv, Subscribe(c) PROVE IInv'
  OBVIOUS
<1>0. TypeOK /\ HandlersInv
  BY DEF IInv
<1>1. PICK k, a, g, r, o, m :
        /\ k = cmd[c] /\ a = Asked(c) /\ g = Granted(c) /\ r = replies[c]
        /\ o = Oks(c) /\ m = Streams(c)
  OBVIOUS
<1>2. /\ a \in Seq({u \in Taken : Answerable(u)}) /\ g \in Seq(Taken)
      /\ r \in Seq({"OK", "ERR", "PONG"}) /\ o \in Nat
      /\ m \in Seq([conn : {c}, tickers : Seq(Names)])
      /\ subs \in Seq([conn : Conns, tickers : Seq(Names)])
  BY <1>0, <1>1, KeptTypes
<1>3. HandlerInv("subscribe", k, a, g, r, o, m)
  BY <1>0, <1>1 DEF HandlersInv, Subscribe
<1>4. /\ Len(a) = Len(r) /\ Len(g) = o /\ Len(m) = o - 1
      /\ \A i \in 1 .. Len(r) : r[i] = Answer(a[i].line)
      /\ \A i \in 1 .. Len(m) : m[i].tickers = TickersOf(g[i].line)
      /\ Len(a) > 0 /\ k = Parse(a[Len(a)].line) /\ Acceptable(a[Len(a)].line)
      /\ Len(g) > 0 /\ g[Len(g)] = a[Len(a)]
  BY ONLY <1>3 DEF HandlerInv, Even
<1>5. PICK line, e : line = g[Len(g)].line /\ e = [conn |-> c, tickers |-> TickersOf(line)]
  OBVIOUS
<1>6. line \in Line /\ k.tickers = TickersOf(line) /\ TickersOf(line) \in Seq(Names)
  <2>1. g[Len(g)] \in Taken
    BY <1>2, <1>4
  <2>2. line \in Line
    BY <1>5, <2>1, AllLinesType DEF Taken
  <2>3. QED
    BY <1>4, <1>5, <2>2, ParsedRight, TickersType
<1>7. /\ pc' = [pc EXCEPT ![c] = "read"] /\ subs' = Append(subs, e)
      /\ UNCHANGED <<srvVars, peerVars, cmd, taken, replies>>
  BY <1>1, <1>5, <1>6 DEF Subscribe
<1>8. TypeOK'
  <2>1. pc' \in [Conns -> {"none", "start", "read", "reply", "subscribe"} \cup Over]
    BY <1>0, <1>7 DEF TypeOK
  <2>2. subs' \in Seq([conn : Conns, tickers : Seq(Names)])
    <3>1. e \in [conn : Conns, tickers : Seq(Names)]
      BY <1>5, <1>6
    <3>2. QED
      BY <1>2, <1>7, <3>1
  <2>3. QED
    BY <1>0, <1>7, <2>1, <2>2 DEF TypeOK, srvVars, peerVars
<1>9. HandlersInv'
  <2>1. PICK m2 : m2 = Streams(c)'
    OBVIOUS
  <2>2. /\ Asked(c)' = a /\ Granted(c)' = g /\ Oks(c)' = o /\ cmd'[c] = k /\ replies'[c] = r
        /\ pc'[c] = "read"
        /\ \A d \in Conns \ {c} :
             pc'[d] = pc[d] /\ cmd'[d] = cmd[d] /\ taken'[d] = taken[d] /\ replies'[d] = replies[d]
    BY <1>0, <1>1, <1>7 DEF TypeOK, Asked, Granted, Oks
  <2>3. m2 = Append(m, e)
    <3>1. PICK M, C : M = [conn : Conns, tickers : Seq(Names)] /\ C = [conn : {c}, tickers : Seq(Names)]
      OBVIOUS
    <3>2. e \in M /\ e \in C /\ subs \in Seq(M)
      BY <1>2, <1>5, <1>6, <3>1
    <3>3. Keep(Append(subs, e), C) = Append(Keep(subs, C), e)
      BY ONLY <3>2, KeepAppend
    <3>4. QED
      BY <1>1, <1>7, <2>1, <3>1, <3>3 DEF Streams
  <2>4. e \in [conn : {c}, tickers : Seq(Names)] /\ e.tickers = TickersOf(line)
    BY <1>5, <1>6
  <2>5. /\ Len(m2) = Len(m) + 1 /\ m2[Len(m) + 1] = e /\ \A i \in 1 .. Len(m) : m2[i] = m[i]
    BY <1>2, <2>3, <2>4
  <2>6. Len(a) \in Nat /\ Len(g) \in Nat /\ Len(r) \in Nat /\ Len(m) \in Nat
    BY <1>2
  <2>7. ASSUME NEW i \in 1 .. Len(m2)
        PROVE  m2[i].tickers = TickersOf(g[i].line)
    <3>1. CASE i = Len(m) + 1
      <4>1. i = Len(g)
        BY ONLY <1>2, <1>4, <2>6, <3>1
      <4>2. QED
        BY <1>5, <2>4, <2>5, <3>1, <4>1
    <3>2. CASE i # Len(m) + 1
      <4>1. i \in 1 .. Len(m)
        BY ONLY <2>5, <2>6, <3>2, i \in 1 .. Len(m2)
      <4>2. QED
        BY <1>4, <2>5, <4>1
    <3>3. QED
      BY <3>1, <3>2
  <2>8. Len(m2) = o
    BY ONLY <1>2, <1>4, <2>5, <2>6
  <2>9. HandlerInv("read", k, a, g, r, o, m2)
    BY ONLY <1>2, <1>4, <2>6, <2>7, <2>8 DEF HandlerInv, Even
  <2>10. HandlerInv(pc'[c], cmd'[c], Asked(c)', Granted(c)', replies'[c], Oks(c)', Streams(c)')
    BY <2>1, <2>2, <2>9, Zenon
  <2>11. \E ts \in Seq(Names) : subs' = Append(subs, [conn |-> c, tickers |-> ts])
    BY <1>5, <1>6, <1>7
  <2>12. QED
    BY <1>0, <2>2, <2>10, <2>11, OneHandler
<1>10. StopInv'
  BY <1>7 DEF IInv, StopInv, srvVars
<1>11. QED
  BY <1>8, <1>9, <1>10 DEF IInv

\* Every step preserves the invariant.
LEMMA NextInv == IInv /\ [Next]_vars => IInv'
<1>1. ASSUME IInv, UNCHANGED vars PROVE IInv'
  <2>1. UNCHANGED handlerVars /\ UNCHANGED srvVars /\ UNCHANGED peerVars
    BY <1>1 DEF vars, handlerVars, srvVars, peerVars
  <2>2. HandlersInv'
    BY <1>1, <2>1, HandlersFrame DEF IInv
  <2>3. QED
    BY <1>1, <2>1, <2>2 DEF IInv, TypeOK, StopInv, handlerVars, srvVars, peerVars
<1>2. QED
  BY <1>1, MainInv, PeersInv, SimpleInv, ReadInv, WriteInv, SubscribeInv DEF Next

\* The inductive invariant holds in every reachable state.
THEOREM Invariant == Spec => []IInv
BY InitInv, NextInv, PTL DEF Spec

\* Server, peers and handlers keep their types.
THEOREM CommandsTypeOK == Spec => []TypeOK
<1>1. IInv => TypeOK
  BY DEF IInv
<1>2. QED
  BY <1>1, Invariant, PTL

\* After Ctrl+C at most one more connection is accepted, however many wait and
\* whatever their peers and handlers do (run.rs:57-76).
THEOREM CommandsAcceptsStop == Spec => []AcceptsStop
<1>1. IInv => AcceptsStop
  BY DEF IInv, TypeOK, StopInv, AcceptsStop
<1>2. QED
  BY <1>1, Invariant, PTL

\* On every connection the replies are the ones the README promises for the
\* lines read, in their order, for all lines and any number of connections
\* (run.rs:81-133, protocol.rs:52-83).
THEOREM CommandsInOrder == Spec => []InOrder
<1>1. ASSUME IInv, NEW c \in Conns
      PROVE  /\ Len(replies[c]) <= Len(Expected(c))
             /\ replies[c] = SubSeq(Expected(c), 1, Len(replies[c]))
             /\ Len(Expected(c)) <= Len(replies[c]) + 1
             /\ pc[c] \in {"read", "subscribe", "returned"} => Len(replies[c]) = Len(Expected(c))
  <2>1. PICK a, r, x : a = Asked(c) /\ r = replies[c] /\ x = Expected(c)
    OBVIOUS
  <2>2. a \in Seq({t \in Taken : Answerable(t)}) /\ r \in Seq({"OK", "ERR", "PONG"})
    BY <1>1, <2>1, KeptTypes DEF IInv
  <2>3. x = [i \in 1 .. Len(a) |-> Answer(a[i].line)] /\ Len(x) = Len(a) /\ Len(a) \in Nat
    <3>1. DOMAIN a = 1 .. Len(a) /\ Len(a) \in Nat
      BY <2>2
    <3>2. x = [i \in 1 .. Len(a) |-> Answer(a[i].line)]
      BY <2>1, <3>1 DEF Expected
    <3>3. QED
      BY <3>1, <3>2
  <2>4. /\ Len(r) <= Len(a) /\ Len(a) <= Len(r) + 1
        /\ \A i \in 1 .. Len(r) : r[i] = Answer(a[i].line)
        /\ pc[c] \in Even => Len(a) = Len(r)
    BY <1>1, <2>1 DEF IInv, HandlersInv, HandlerInv
  <2>5. r = SubSeq(x, 1, Len(r))
    BY <2>2, <2>3, <2>4
  <2>6. QED
    BY <2>1, <2>3, <2>4, <2>5 DEF Even
<1>2. IInv => InOrder
  BY <1>1 DEF InOrder
<1>3. QED
  BY <1>2, Invariant, PTL

\* Every OK stands for one subscription, to the tickers of its line, whatever
\* happens on other connections in between (run.rs:105-112).
THEOREM CommandsOkMeansSubscribed == Spec => []OkMeansSubscribed
<1>1. ASSUME IInv, NEW c \in Conns
      PROVE  /\ Len(Streams(c)) = IF pc[c] = "subscribe" THEN Oks(c) - 1 ELSE Oks(c)
             /\ \A i \in DOMAIN Streams(c) :
                  Streams(c)[i].tickers = Keep(Granted(c)[i].line.items, Names)
  <2>1. DOMAIN Streams(c) = 1 .. Len(Streams(c))
    BY <1>1, KeptTypes DEF IInv
  <2>2. HandlerInv(pc[c], cmd[c], Asked(c), Granted(c), replies[c], Oks(c), Streams(c))
    BY <1>1 DEF IInv, HandlersInv
  <2>3. QED
    BY <2>1, <2>2 DEF HandlerInv, TickersOf
<1>2. IInv => OkMeansSubscribed
  BY <1>1 DEF OkMeansSubscribed
<1>3. QED
  BY <1>2, Invariant, PTL

-------------------------------------------------------------------------------
(* The lists of Handshake: Joined and SizeOfItems are recursions, too. *)

\* f follows from a by the steps of g.
Solves(f, a, g, n) == f = [i \in 0 .. n |-> IF i = 0 THEN a ELSE g[i][f[i - 1]]]

\* A recursion along 0 .. n whose steps stay in a set has a solution there.
LEMMA RecursionExists ==
  ASSUME NEW k \in Nat, NEW B, NEW a \in B, NEW g \in [Nat -> [B -> B]]
  PROVE  \E f \in [0 .. k -> B] : Solves(f, a, g, k)
<1> DEFINE T == {n \in Nat : ~ \E f \in [0 .. n -> B] : Solves(f, a, g, n)}
<1> SUFFICES ASSUME T # {} PROVE FALSE
  OBVIOUS
<1>1. PICK n \in T : \A m \in T : n <= m
  BY LeastNat
<1>2. CASE n = 0
  <2> DEFINE h == [i \in 0 .. 0 |-> a]
  <2>1. h \in [0 .. 0 -> B] /\ Solves(h, a, g, 0)
    BY DEF Solves
  <2>2. QED
    BY <1>1, <1>2, <2>1
<1>3. CASE n # 0
  <2>1. n \in Nat /\ n - 1 \in Nat /\ n - 1 \notin T
    BY <1>1, <1>3
  <2>2. PICK p \in [0 .. n - 1 -> B] : Solves(p, a, g, n - 1)
    BY <2>1
  <2>3. \A i \in 0 .. n - 1 : p[i] = IF i = 0 THEN a ELSE g[i][p[i - 1]]
    BY <2>2, Zenon DEF Solves
  <2>4. g[n][p[n - 1]] \in B
    BY <2>1, <2>2
  <2> DEFINE h == [i \in 0 .. n |-> IF i = n THEN g[n][p[n - 1]] ELSE p[i]]
  <2>5. h \in [0 .. n -> B]
    BY <2>1, <2>2, <2>4
  <2>6. ASSUME NEW i \in 0 .. n
        PROVE  h[i] = IF i = 0 THEN a ELSE g[i][h[i - 1]]
    <3>1. \A j \in 0 .. n - 1 : h[j] = p[j]
      BY <2>1
    <3>2. CASE i = n
      BY <3>1, <3>2, <1>3, <2>1
    <3>3. CASE i # n
      <4>1. i \in 0 .. n - 1 /\ (i # 0 => i - 1 \in 0 .. n - 1)
        BY <3>3, <2>1
      <4>2. QED
        BY <4>1, <3>1, <2>3
    <3>4. QED
      BY <3>2, <3>3
  <2> HIDE DEF h
  <2>7. DOMAIN h = 0 .. n /\ h = [i \in 0 .. n |-> h[i]]
    BY <2>5
  <2>8. Solves(h, a, g, n)
    BY <2>6, <2>7 DEF Solves
  <2>9. QED
    BY <1>1, <2>5, <2>8
<1>4. QED
  BY <1>2, <1>3

\* Two recursions with the same steps agree.
LEMMA RecursionsAgree ==
  ASSUME NEW n \in Nat, NEW p, NEW q, p[0] = q[0],
         \A i \in 1 .. n : p[i - 1] = q[i - 1] => p[i] = q[i]
  PROVE  p[n] = q[n]
<1> DEFINE T == {i \in 0 .. n : p[i] # q[i]}
<1> SUFFICES ASSUME T # {} PROVE FALSE
  OBVIOUS
<1>1. T \subseteq Nat
  OBVIOUS
<1>2. PICK i \in T : \A j \in T : i <= j
  BY <1>1, LeastNat
<1>3. i # 0
  BY <1>2
<1>4. i \in 1 .. n /\ i - 1 \in 0 .. n /\ i - 1 \notin T
  BY <1>1, <1>2, <1>3
<1>5. QED
  BY <1>2, <1>4

\* What Joined returns is the last of the lists it builds up.
LEMMA JoinedSteps ==
  ASSUME NEW A, NEW s \in Seq(Seq(A))
  PROVE  \E f \in [0 .. Len(s) -> Seq(A)] :
           /\ Joined(s) = f[Len(s)]
           /\ f[0] = << >>
           /\ \A i \in 1 .. Len(s) : f[i] = f[i - 1] \o s[i]
<1>n. PICK n \in Nat : n = Len(s)
  OBVIOUS
<1> DEFINE W(f) == f = [i \in 0 .. n |-> IF i = 0 THEN << >> ELSE f[i - 1] \o s[i]]
           g == [i \in Nat |-> IF i \in 1 .. n THEN [v \in Seq(A) |-> v \o s[i]] ELSE [v \in Seq(A) |-> v]]
<1>s. \A i \in 1 .. n : s[i] \in Seq(A)
  BY <1>n
<1>1. g \in [Nat -> [Seq(A) -> Seq(A)]] /\ << >> \in Seq(A)
  BY <1>s
<1>2. PICK f \in [0 .. n -> Seq(A)] : Solves(f, << >>, g, n)
  <2>1. PICK B : B = Seq(A)
    OBVIOUS
  <2> HIDE DEF g
  <2>2. g \in [Nat -> [B -> B]] /\ << >> \in B
    BY <1>1, <2>1
  <2>3. \E f \in [0 .. n -> B] : Solves(f, << >>, g, n)
    BY <2>2, RecursionExists
  <2>4. QED
    BY <2>1, <2>3, Zenon
<1>3. \A i \in 0 .. n : f[i] = IF i = 0 THEN << >> ELSE g[i][f[i - 1]]
  <2> HIDE DEF g
  <2> QED BY <1>2, Zenon DEF Solves
<1>4. f[0] = << >> /\ \A i \in 1 .. n : f[i] = f[i - 1] \o s[i]
  <2>1. f[0] = << >>
    BY <1>3
  <2>2. ASSUME NEW i \in 1 .. n PROVE f[i] = f[i - 1] \o s[i]
    <3>1. i \in Nat /\ i # 0 /\ i \in 0 .. n /\ i - 1 \in 0 .. n
      OBVIOUS
    <3>2. f[i - 1] \in Seq(A)
      BY <1>2, <3>1
    <3>3. g[i] = [v \in Seq(A) |-> v \o s[i]]
      BY <3>1
    <3> HIDE DEF g
    <3>4. g[i][f[i - 1]] = f[i - 1] \o s[i]
      BY ONLY <3>2, <3>3, Zenon
    <3>5. QED
      BY ONLY <3>1, <3>4, <1>3, Zenon
  <2>3. QED
    BY <2>1, <2>2
<1>5. W(f)
  <2>1. f = [i \in 0 .. n |-> f[i]]
    BY <1>2, Zenon
  <2>2. \A i \in 0 .. n : f[i] = IF i = 0 THEN << >> ELSE f[i - 1] \o s[i]
    <3>1. \A i \in 0 .. n : i = 0 \/ i \in 1 .. n
      OBVIOUS
    <3>2. 0 \notin 1 .. n
      OBVIOUS
    <3>3. QED
      BY ONLY <3>1, <3>2, <1>4, Zenon
  <2>3. QED
    BY ONLY <2>1, <2>2, Zenon
<1> DEFINE v == CHOOSE h : W(h)
<1>6. Joined(s) = v[n]
  BY <1>n, Zenon DEF Joined
<1>7. W(v)
  <2> HIDE DEF W
  <2> QED BY <1>5, Zenon
<1> HIDE DEF v
<1>8. \A i \in 0 .. n : v[i] = IF i = 0 THEN << >> ELSE v[i - 1] \o s[i]
  BY <1>7, Zenon
<1>9. v[0] = f[0] /\ \A i \in 1 .. n : v[i - 1] = f[i - 1] => v[i] = f[i]
  <2>1. 0 \in 0 .. n /\ \A i \in 1 .. n : i \in 0 .. n /\ i # 0
    OBVIOUS
  <2>2. QED
    BY ONLY <2>1, <1>4, <1>8, Zenon
<1>10. v[n] = f[n]
  BY <1>9, RecursionsAgree
<1>11. QED
  BY <1>n, <1>4, <1>6, <1>10

\* Joined goes along with Append.
LEMMA JoinedAppend ==
  ASSUME NEW A, NEW s \in Seq(Seq(A)), NEW e \in Seq(A)
  PROVE  Joined(Append(s, e)) = Joined(s) \o e
<1>u. PICK u, n : u = Append(s, e) /\ n = Len(s)
  OBVIOUS
<1>1. /\ n \in Nat /\ u \in Seq(Seq(A)) /\ Len(u) = n + 1
      /\ u[n + 1] = e /\ \A i \in 1 .. n : u[i] = s[i]
  BY <1>u
<1>2. PICK p : /\ Joined(s) = p[n] /\ p[0] = << >>
               /\ \A i \in 1 .. n : p[i] = p[i - 1] \o s[i]
  <2>1. PICK f \in [0 .. Len(s) -> Seq(A)] :
          /\ Joined(s) = f[Len(s)] /\ f[0] = << >>
          /\ \A i \in 1 .. Len(s) : f[i] = f[i - 1] \o s[i]
    BY JoinedSteps, Zenon
  <2>2. QED
    BY <1>u, <2>1, Zenon
<1>3. PICK q : /\ Joined(u) = q[n + 1] /\ q[0] = << >>
               /\ \A i \in 1 .. n + 1 : q[i] = q[i - 1] \o u[i]
  <2>1. \E q : /\ Joined(u) = q[Len(u)] /\ q[0] = << >>
               /\ \A i \in 1 .. Len(u) : q[i] = q[i - 1] \o u[i]
    <3>1. \A t \in Seq(Seq(A)) : \E f \in [0 .. Len(t) -> Seq(A)] :
             /\ Joined(t) = f[Len(t)]
             /\ f[0] = << >>
             /\ \A i \in 1 .. Len(t) : f[i] = f[i - 1] \o t[i]
      BY JoinedSteps, Zenon
    <3>2. QED
      BY ONLY <3>1, <1>1, Zenon
  <2>2. QED
    BY <1>1, <2>1, Zenon
<1>4. p[0] = q[0] /\ \A i \in 1 .. n : p[i - 1] = q[i - 1] => p[i] = q[i]
  <2>1. \A i \in 1 .. n : i \in 1 .. n + 1
    BY <1>1
  <2>2. QED
    BY ONLY <2>1, <1>1, <1>2, <1>3, Zenon
<1>5. p[n] = q[n]
  BY <1>1, <1>4, RecursionsAgree
<1>6. q[n + 1] = q[n] \o e
  <2>1. PICK k : k = n + 1
    OBVIOUS
  <2>2. k \in 1 .. n + 1 /\ k - 1 = n
    BY <1>1, <2>1
  <2>3. q[k] = q[k - 1] \o u[k]
    BY ONLY <1>3, <2>2, Zenon
  <2>4. QED
    BY ONLY <1>1, <2>1, <2>2, <2>3, Zenon
<1>7. QED
  BY <1>u, <1>2, <1>3, <1>5, <1>6

\* Joined has its type, and starts from nothing.
LEMMA JoinedType ==
  ASSUME NEW A
  PROVE  Joined(<< >>) = << >> /\ \A s \in Seq(Seq(A)) : Joined(s) \in Seq(A)
<1>1. ASSUME NEW s \in Seq(Seq(A)) PROVE Joined(s) \in Seq(A)
  <2>1. Len(s) \in 0 .. Len(s)
    OBVIOUS
  <2>2. PICK f \in [0 .. Len(s) -> Seq(A)] : Joined(s) = f[Len(s)]
    BY JoinedSteps, Zenon
  <2>3. QED
    BY ONLY <2>1, <2>2, Zenon
<1>2. Joined(<< >>) = << >>
  <2>1. PICK s : s = << >>
    OBVIOUS
  <2>2. s \in Seq(Seq(A)) /\ Len(s) = 0
    BY <2>1
  <2>3. PICK f \in [0 .. Len(s) -> Seq(A)] : Joined(s) = f[Len(s)] /\ f[0] = << >>
    BY <2>2, JoinedSteps, Zenon
  <2>4. QED
    BY ONLY <2>1, <2>2, <2>3, Zenon
<1>3. QED
  BY <1>1, <1>2

\* The size of an item.
LEMMA ItemSize == \A e \in Names \cup {Blank} : SizeOfItem(e) \in Nat
BY SizesAssumption DEF SizeOfItem

\* What SizeOfItems returns is the last of the sums it builds up.
LEMMA SizeSteps ==
  ASSUME NEW s \in Seq(Names \cup {Blank})
  PROVE  \E f \in [0 .. Len(s) -> Nat] :
           /\ SizeOfItems(s) = f[Len(s)]
           /\ f[0] = 0
           /\ \A i \in 1 .. Len(s) : f[i] = f[i - 1] + SizeOfItem(s[i])
<1>n. PICK n \in Nat : n = Len(s)
  OBVIOUS
<1> DEFINE W(f) == f = [i \in 0 .. n |-> IF i = 0 THEN 0 ELSE f[i - 1] + SizeOfItem(s[i])]
           g == [i \in Nat |-> IF i \in 1 .. n THEN [v \in Nat |-> v + SizeOfItem(s[i])]
                               ELSE [v \in Nat |-> v]]
<1>s. \A i \in 1 .. n : SizeOfItem(s[i]) \in Nat
  BY <1>n, ItemSize
<1>1. g \in [Nat -> [Nat -> Nat]]
  BY <1>s
<1>2. PICK f \in [0 .. n -> Nat] : Solves(f, 0, g, n)
  <2> HIDE DEF g
  <2> QED BY <1>1, RecursionExists
<1>3. \A i \in 0 .. n : f[i] = IF i = 0 THEN 0 ELSE g[i][f[i - 1]]
  <2> HIDE DEF g
  <2> QED BY <1>2, Zenon DEF Solves
<1>4. f[0] = 0 /\ \A i \in 1 .. n : f[i] = f[i - 1] + SizeOfItem(s[i])
  <2>1. f[0] = 0
    <3> HIDE DEF g
    <3> QED BY <1>3
  <2>2. ASSUME NEW i \in 1 .. n PROVE f[i] = f[i - 1] + SizeOfItem(s[i])
    <3>1. i \in Nat /\ i # 0 /\ i \in 0 .. n /\ i - 1 \in 0 .. n
      OBVIOUS
    <3>2. f[i - 1] \in Nat
      BY <1>2, <3>1
    <3>3. g[i][f[i - 1]] = f[i - 1] + SizeOfItem(s[i])
      BY <3>1, <3>2
    <3> HIDE DEF g
    <3>4. QED
      BY <3>1, <3>3, <1>3
  <2>3. QED
    BY <2>1, <2>2
<1>5. W(f)
  <2>1. f = [i \in 0 .. n |-> f[i]]
    BY <1>2
  <2>2. \A i \in 0 .. n : f[i] = IF i = 0 THEN 0 ELSE f[i - 1] + SizeOfItem(s[i])
    BY <1>4
  <2>3. QED
    BY <2>1, <2>2
<1> DEFINE v == CHOOSE h : W(h)
<1>6. SizeOfItems(s) = v[n]
  BY <1>n, Zenon DEF SizeOfItems
<1>7. W(v)
  <2> HIDE DEF W
  <2> QED BY <1>5, Zenon
<1> HIDE DEF v
<1>8. \A i \in 0 .. n : v[i] = IF i = 0 THEN 0 ELSE v[i - 1] + SizeOfItem(s[i])
  BY <1>7, Zenon
<1>9. v[0] = f[0] /\ \A i \in 1 .. n : v[i - 1] = f[i - 1] => v[i] = f[i]
  BY <1>4, <1>8
<1>10. v[n] = f[n]
  BY <1>9, RecursionsAgree
<1>11. QED
  BY <1>n, <1>4, <1>6, <1>10

\* The items of a line have a size, which is not below that of any of them.
LEMMA SizeCovers ==
  ASSUME NEW s \in Seq(Names \cup {Blank})
  PROVE  /\ SizeOfItems(s) \in Nat
         /\ \A e \in Elements(s) : SizeOfItem(e) <= SizeOfItems(s)
<1>1. PICK n \in Nat : n = Len(s)
  OBVIOUS
<1>2. PICK f \in [0 .. n -> Nat] :
        /\ SizeOfItems(s) = f[n]
        /\ \A i \in 1 .. n : f[i] = f[i - 1] + SizeOfItem(s[i])
  BY <1>1, SizeSteps
<1>3. ASSUME NEW k \in 1 .. n PROVE SizeOfItem(s[k]) <= f[n]
  <2> DEFINE T == {i \in k .. n : ~(SizeOfItem(s[k]) <= f[i])}
  <2> SUFFICES ASSUME T # {} PROVE FALSE
    OBVIOUS
  <2>1. T \subseteq Nat
    OBVIOUS
  <2>2. PICK i \in T : \A j \in T : i <= j
    BY <2>1, LeastNat
  <2>3. i \in 1 .. n /\ i - 1 \in 0 .. n
    OBVIOUS
  <2>4. s[k] \in Names \cup {Blank} /\ s[i] \in Names \cup {Blank}
    BY <1>1, <2>3
  <2>5. /\ SizeOfItem(s[k]) \in Nat /\ SizeOfItem(s[i]) \in Nat
        /\ f[i - 1] \in Nat /\ f[i] = f[i - 1] + SizeOfItem(s[i])
    BY <1>2, <2>3, <2>4, ItemSize
  <2>6. CASE i = k
    BY <2>2, <2>5, <2>6
  <2>7. CASE i # k
    <3>1. i - 1 \in k .. n /\ i - 1 \notin T
      BY <2>1, <2>2, <2>7
    <3>2. SizeOfItem(s[k]) <= f[i - 1]
      BY <3>1
    <3>3. QED
      BY <2>2, <2>5, <3>2
  <2>8. QED
    BY <2>6, <2>7
<1>4. f[n] \in Nat
  BY <1>2
<1>5. DOMAIN s = 1 .. n
  BY <1>1
<1>6. QED
  BY <1>2, <1>3, <1>4, <1>5 DEF Elements


\* Keep goes along with concatenation.
LEMMA KeepConcat ==
  ASSUME NEW A, NEW S, NEW s \in Seq(A)
  PROVE  \A t \in Seq(A) : Keep(s \o t, S) = Keep(s, S) \o Keep(t, S)
<1>k. PICK k : k = Keep(s, S)
  OBVIOUS
<1>K. k \in Seq(A)
  <2>1. k \in Seq(A \cap S)
    BY <1>k, KeepElements
  <2>2. QED
    BY <2>1
<1> DEFINE Q == {t \in Seq(A) : Keep(s \o t, S) = k \o Keep(t, S)}
<1>1. << >> \in Q
  <2>1. s \o << >> = s /\ k \o << >> = k /\ << >> \in Seq(A)
    BY <1>K
  <2>2. QED
    BY <1>k, <2>1, KeepEmpty, Zenon
<1>2. ASSUME NEW t \in Seq(A), NEW e \in A, t \in Q
      PROVE  Append(t, e) \in Q
  <2>1. PICK m, u : m = Keep(t, S) /\ u = s \o t
    OBVIOUS
  <2>2. m \in Seq(A)
    <3>1. m \in Seq(A \cap S)
      BY <2>1, KeepElements
    <3>2. QED
      BY <3>1
  <2>3. u \in Seq(A) /\ Append(t, e) \in Seq(A) /\ s \o Append(t, e) = Append(u, e)
    BY <2>1
  <2>4. Keep(u, S) = k \o m
    BY <1>2, <2>1, Zenon
  <2>5. Keep(Append(u, e), S) = IF e \in S THEN Append(k \o m, e) ELSE k \o m
    BY <2>3, <2>4, KeepAppend, Zenon
  <2>6. Keep(Append(t, e), S) = IF e \in S THEN Append(m, e) ELSE m
    BY <2>1, KeepAppend, Zenon
  <2>7. k \o Append(m, e) = Append(k \o m, e)
    BY <1>K, <2>2
  <2>8. Keep(s \o Append(t, e), S) = k \o Keep(Append(t, e), S)
    BY <2>3, <2>5, <2>6, <2>7, Zenon
  <2>9. QED
    BY <2>3, <2>8, Zenon
<1>3. Seq(A) \subseteq Q
  <2> HIDE DEF Q
  <2> QED BY <1>1, <1>2, AppendInduction
<1>4. QED
  BY <1>k, <1>3, Zenon

\* Concatenation has the elements of both sequences.
LEMMA ElementsConcat ==
  ASSUME NEW A, NEW s \in Seq(A), NEW t \in Seq(A)
  PROVE  Elements(s \o t) = Elements(s) \cup Elements(t)
<1>1. PICK u, m, n : u = s \o t /\ m = Len(s) /\ n = Len(t)
  OBVIOUS
<1>2. /\ m \in Nat /\ n \in Nat
      /\ DOMAIN s = 1 .. m /\ DOMAIN t = 1 .. n /\ DOMAIN u = 1 .. m + n
      /\ \A i \in 1 .. m : u[i] = s[i]
      /\ \A i \in 1 .. n : u[m + i] = t[i]
  BY <1>1
<1>3. Elements(u) \subseteq Elements(s) \cup Elements(t)
  <2>1. ASSUME NEW i \in 1 .. m + n PROVE u[i] \in Elements(s) \cup Elements(t)
    <3>1. CASE i <= m
      BY <1>2, <3>1 DEF Elements
    <3>2. CASE ~(i <= m)
      <4>1. i - m \in 1 .. n /\ i = m + (i - m)
        BY <1>2, <3>2
      <4>2. u[i] = t[i - m]
        BY <1>2, <4>1
      <4>3. QED
        BY <1>2, <4>1, <4>2 DEF Elements
    <3>3. QED
      BY <3>1, <3>2
  <2>2. QED
    BY <1>2, <2>1 DEF Elements
<1>4. Elements(s) \subseteq Elements(u)
  <2>1. \A i \in 1 .. m : i \in 1 .. m + n
    BY <1>2
  <2>2. QED
    BY <1>2, <2>1 DEF Elements
<1>5. Elements(t) \subseteq Elements(u)
  <2>1. \A i \in 1 .. n : m + i \in 1 .. m + n
    BY <1>2
  <2>2. QED
    BY <1>2, <2>1 DEF Elements
<1>6. QED
  BY <1>1, <1>3, <1>4, <1>5, Zenon

\* The places of a line that hold a name.
Marks(l) == {j \in DOMAIN l : l[j] # Blank}

\* A line has a place for each item that is not empty.
LEMMA LineMarks ==
  \A l \in Seq(Names \cup {Blank}) :
    /\ IsFiniteSet(Marks(l))
    /\ Cardinality(Marks(l)) = Len(Keep(l, Names))
    /\ {l[j] : j \in Marks(l)} = Elements(Keep(l, Names))
<1>A. PICK A : A = Names \cup {Blank}
  OBVIOUS
<1> DEFINE Q == {l \in Seq(A) : /\ IsFiniteSet(Marks(l))
                                /\ Cardinality(Marks(l)) = Len(Keep(l, Names))}
<1>1. << >> \in Q
  <2>1. Marks(<< >>) = {} /\ Len(<< >>) = 0 /\ << >> \in Seq(A)
    BY DEF Marks
  <2>2. QED
    BY <2>1, KeepEmpty, FS_EmptySet
<1>2. ASSUME NEW l \in Seq(A), NEW e \in A, l \in Q
      PROVE  Append(l, e) \in Q
  <2>1. PICK n, u, k : n = Len(l) /\ u = Append(l, e) /\ k = Keep(l, Names)
    OBVIOUS
  <2>2. /\ n \in Nat /\ u \in Seq(A) /\ DOMAIN l = 1 .. n /\ DOMAIN u = 1 .. n + 1
        /\ u[n + 1] = e /\ \A i \in 1 .. n : u[i] = l[i]
    BY <2>1
  <2>3. IsFiniteSet(Marks(l)) /\ Cardinality(Marks(l)) = Len(k) /\ n + 1 \notin Marks(l)
    <3>1. IsFiniteSet(Marks(l)) /\ Cardinality(Marks(l)) = Len(k)
      BY <1>2, <2>1, Zenon
    <3>2. n + 1 \notin 1 .. n
      BY <2>2
    <3>3. QED
      BY <2>2, <3>1, <3>2 DEF Marks
  <2>4. k \in Seq(A)
    <3>1. k \in Seq(A \cap Names)
      BY <2>1, KeepElements
    <3>2. QED
      BY <3>1
  <2>5. Keep(u, Names) = IF e \in Names THEN Append(k, e) ELSE k
    BY <2>1, KeepAppend, Zenon
  <2>6. CASE e \in Names
    <3>1. e # Blank
      BY <2>6, NamesAssumption
    <3>2. Marks(u) = Marks(l) \cup {n + 1}
      BY <2>2, <3>1 DEF Marks
    <3>3. IsFiniteSet(Marks(u)) /\ Cardinality(Marks(u)) = Len(k) + 1
      <4>1. PICK m : m = n + 1
        OBVIOUS
      <4>2. /\ IsFiniteSet(Marks(l) \cup {m})
            /\ Cardinality(Marks(l) \cup {m}) =
                 IF m \in Marks(l) THEN Cardinality(Marks(l)) ELSE Cardinality(Marks(l)) + 1
        BY <2>3, FS_AddElement, Zenon
      <4>3. QED
        BY <2>3, <3>2, <4>1, <4>2, Zenon
    <3>4. Len(Append(k, e)) = Len(k) + 1
      BY <2>4
    <3>5. QED
      BY <2>1, <2>2, <2>5, <2>6, <3>3, <3>4
  <2>7. CASE e \notin Names
    <3>1. e = Blank
      BY <2>7, <1>A
    <3>2. Marks(u) = Marks(l)
      BY <2>2, <3>1 DEF Marks
    <3>3. QED
      BY <2>1, <2>2, <2>3, <2>5, <2>7, <3>2
  <2>8. QED
    BY <2>6, <2>7
<1>3. Seq(A) \subseteq Q
  <2> HIDE DEF Q
  <2> QED BY <1>1, <1>2, AppendInduction
<1>4. ASSUME NEW l \in Seq(A) PROVE {l[j] : j \in Marks(l)} = Elements(Keep(l, Names))
  <2>1. Elements(Keep(l, Names)) = Elements(l) \cap Names
    BY KeepElements
  <2>2. \A j \in DOMAIN l : l[j] \in Names <=> l[j] # Blank
    BY <1>A, NamesAssumption
  <2>3. QED
    BY <2>1, <2>2 DEF Marks, Elements
<1>5. QED
  BY <1>A, <1>3, <1>4

\* The names of a file, by line and place in the line.
PlacesOf(f) == {p \in UNION {{i} \X DOMAIN f[i] : i \in DOMAIN f} : f[p[1]][p[2]] # Blank}
NamesOf(f) == {f[p[1]][p[2]] : p \in PlacesOf(f)}

\* The tickers the server reads out of the command made of a file.
Tickers(f) == Keep(Joined(Keep(f, FileLine \ {<<Blank>>})), Names)

\* A place is a line and a place in it.
LEMMA PlacesByLine ==
  ASSUME NEW f
  PROVE  \A p : p \in PlacesOf(f) <=>
           \E i \in DOMAIN f : \E j \in Marks(f[i]) : p = <<i, j>>
BY DEF PlacesOf, Marks

\* The names of a file are those in its lines.
LEMMA NamesByLine ==
  ASSUME NEW f
  PROVE  \A x : x \in NamesOf(f) <=>
           \E i \in DOMAIN f : \E j \in Marks(f[i]) : x = f[i][j]
<1>1. ASSUME NEW i \in DOMAIN f, NEW j \in Marks(f[i]) PROVE f[i][j] \in NamesOf(f)
  <2>1. PICK p : p = <<i, j>>
    OBVIOUS
  <2>2. p \in PlacesOf(f)
    BY <2>1, PlacesByLine, Zenon
  <2>3. p[1] = i /\ p[2] = j
    BY <2>1
  <2>4. QED
    BY <2>2, <2>3, Zenon DEF NamesOf
<1>2. ASSUME NEW p \in PlacesOf(f)
      PROVE  \E i \in DOMAIN f : \E j \in Marks(f[i]) : f[p[1]][p[2]] = f[i][j]
  <2>0. PICK i \in DOMAIN f : \E j \in Marks(f[i]) : p = <<i, j>>
    BY PlacesByLine
  <2>1. PICK j \in Marks(f[i]) : p = <<i, j>>
    BY <2>0
  <2>2. p[1] = i /\ p[2] = j
    BY <2>1
  <2>3. QED
    BY <2>2, Zenon
<1>3. QED
  <2>1. ASSUME NEW x \in NamesOf(f)
        PROVE  \E i \in DOMAIN f : \E j \in Marks(f[i]) : x = f[i][j]
    <3>1. PICK p \in PlacesOf(f) : x = f[p[1]][p[2]]
      BY Zenon DEF NamesOf
    <3>2. QED
      BY <1>2, <3>1, Zenon
  <2>2. QED
    BY <1>1, <2>1, Zenon

\* A line more.
LEMMA FileAppend ==
  ASSUME NEW f \in Seq(FileLine), NEW l \in FileLine
  PROVE  /\ PlacesOf(Append(f, l)) = PlacesOf(f) \cup ({Len(f) + 1} \X Marks(l))
         /\ PlacesOf(f) \cap ({Len(f) + 1} \X Marks(l)) = {}
         /\ NamesOf(Append(f, l)) = NamesOf(f) \cup {l[j] : j \in Marks(l)}
<1>1. PICK n, u : n = Len(f) /\ u = Append(f, l)
  OBVIOUS
<1>2. /\ n \in Nat /\ DOMAIN f = 1 .. n /\ DOMAIN u = 1 .. n + 1
      /\ u[n + 1] = l /\ \A i \in 1 .. n : u[i] = f[i]
  BY <1>1
<1>3. DOMAIN u = DOMAIN f \cup {n + 1} /\ n + 1 \notin DOMAIN f
  BY <1>2
<1>4. \A i \in DOMAIN f : u[i] = f[i]
  BY <1>2
<1>5. \A p : p \in {n + 1} \X Marks(l) <=> \E j \in Marks(l) : p = <<n + 1, j>>
  OBVIOUS
<1>6. \A p : p \in PlacesOf(u) <=> p \in PlacesOf(f) \/ p \in {n + 1} \X Marks(l)
  <2>1. ASSUME NEW p
        PROVE  (\E i \in DOMAIN u : \E j \in Marks(u[i]) : p = <<i, j>>) <=>
                 \/ \E i \in DOMAIN f : \E j \in Marks(f[i]) : p = <<i, j>>
                 \/ \E j \in Marks(l) : p = <<n + 1, j>>
    BY <1>2, <1>3, <1>4, Zenon
  <2>2. QED
    <3>1. ASSUME NEW p PROVE p \in PlacesOf(u) <=> p \in PlacesOf(f) \/ p \in {n + 1} \X Marks(l)
      <4>1. p \in PlacesOf(u) <=> \E i \in DOMAIN u : \E j \in Marks(u[i]) : p = <<i, j>>
        BY PlacesByLine
      <4>2. p \in PlacesOf(f) <=> \E i \in DOMAIN f : \E j \in Marks(f[i]) : p = <<i, j>>
        BY PlacesByLine
      <4>3. QED
        BY <1>5, <2>1, <4>1, <4>2, Zenon
    <3>2. QED
      BY <3>1
<1>7. ASSUME NEW p \in PlacesOf(f), p \in {n + 1} \X Marks(l) PROVE FALSE
  <2>0. PICK i \in DOMAIN f : \E j \in Marks(f[i]) : p = <<i, j>>
    BY PlacesByLine
  <2>1. PICK j \in Marks(f[i]) : p = <<i, j>>
    BY <2>0
  <2>2. PICK k \in Marks(l) : p = <<n + 1, k>>
    BY <1>5, <1>7, Zenon
  <2>3. i = n + 1
    BY <2>1, <2>2
  <2>4. QED
    BY <1>3, <2>3, Zenon
<1>8. \A x : x \in NamesOf(u) <=> x \in NamesOf(f) \/ \E j \in Marks(l) : x = l[j]
  <2>1. ASSUME NEW x
        PROVE  (\E i \in DOMAIN u : \E j \in Marks(u[i]) : x = u[i][j]) <=>
                 \/ \E i \in DOMAIN f : \E j \in Marks(f[i]) : x = f[i][j]
                 \/ \E j \in Marks(l) : x = l[j]
    BY <1>2, <1>3, <1>4, Zenon
  <2>2. ASSUME NEW x
        PROVE  x \in NamesOf(u) <=> x \in NamesOf(f) \/ \E j \in Marks(l) : x = l[j]
    <3>1. x \in NamesOf(u) <=> \E i \in DOMAIN u : \E j \in Marks(u[i]) : x = u[i][j]
      BY NamesByLine
    <3>2. x \in NamesOf(f) <=> \E i \in DOMAIN f : \E j \in Marks(f[i]) : x = f[i][j]
      BY NamesByLine
    <3>3. QED
      BY <2>1, <3>1, <3>2, Zenon
  <2>3. QED
    BY <2>2
<1>9. QED
  BY <1>1, <1>6, <1>7, <1>8, Zenon

\* Whatever way the names of a file are spread over lines and commas, and
\* though empty lines do not make it into the command, a line adds its names.
LEMMA TickersAppend ==
  ASSUME NEW f \in Seq(FileLine), NEW l \in FileLine
  PROVE  /\ Tickers(f) \in Seq(Names)
         /\ Keep(l, Names) \in Seq(Names)
         /\ Tickers(Append(f, l)) = Tickers(f) \o Keep(l, Names)
<1>1. PICK A, L, K : A = Names \cup {Blank} /\ L = FileLine /\ K = FileLine \ {<<Blank>>}
  OBVIOUS
<1>2. /\ Names \subseteq A /\ f \in Seq(L) /\ l \in L /\ K \subseteq L
      /\ K \subseteq Seq(A) /\ l \in Seq(A) /\ (l \notin K => l = <<Blank>>)
  BY <1>1 DEF FileLine
<1>3. PICK k : k = Keep(f, K)
  OBVIOUS
<1>4. k \in Seq(K)
  BY <1>2, <1>3, KeepType
<1>5. k \in Seq(Seq(A))
  BY <1>2, <1>4
<1>6. PICK m : m = Joined(k)
  OBVIOUS
<1>7. m \in Seq(A)
  BY <1>5, <1>6, JoinedType
<1>8. Keep(m, Names) \in Seq(Names) /\ Keep(l, Names) \in Seq(Names)
  <2>1. \A s \in Seq(A) : Keep(s, Names) \in Seq(Names)
    BY <1>2, KeepType, Zenon
  <2>2. QED
    BY <1>2, <1>7, <2>1, Zenon
<1>9. Keep(Append(f, l), K) = IF l \in K THEN Append(k, l) ELSE k
  <2>1. Keep(Append(f, l), K) = IF l \in K THEN Append(Keep(f, K), l) ELSE Keep(f, K)
    BY <1>2, KeepAppend
  <2>2. QED
    BY ONLY <1>3, <2>1, Zenon
<1>10. Tickers(f) = Keep(m, Names)
  BY <1>1, <1>3, <1>6, Zenon DEF Tickers
<1>11. CASE l \in K
  <2>1. Joined(Append(k, l)) = m \o l
    BY <1>2, <1>5, <1>6, JoinedAppend, Zenon
  <2>2. Keep(m \o l, Names) = Keep(m, Names) \o Keep(l, Names)
    BY <1>2, <1>7, KeepConcat, Zenon
  <2>3. Tickers(Append(f, l)) = Keep(m \o l, Names)
    BY <1>1, <1>9, <1>11, <2>1, Zenon DEF Tickers
  <2>4. QED
    BY <1>8, <1>10, <2>2, <2>3, Zenon
<1>12. CASE l \notin K
  <2>1. l = Append(<< >>, Blank) /\ << >> \in Seq(A) /\ Blank \in A
    BY <1>1, <1>2, <1>12
  <2>2. Keep(l, Names) = << >>
    <3>1. Keep(l, Names) = Keep(<< >>, Names)
      BY <2>1, KeepAppend, NamesAssumption, Zenon
    <3>2. QED
      BY <3>1, KeepEmpty, Zenon
  <2>3. Tickers(Append(f, l)) = Keep(m, Names)
    BY <1>1, <1>6, <1>9, <1>12, Zenon DEF Tickers
  <2>4. Keep(m, Names) \o << >> = Keep(m, Names)
    BY <1>8
  <2>5. QED
    BY <1>8, <1>10, <2>2, <2>3, <2>4, Zenon
<1>13. QED
  BY <1>11, <1>12

\* The server reads as many tickers as the file has names, and the same.
LEMMA FilePlaces ==
  \A f \in Seq(FileLine) :
    /\ Tickers(f) \in Seq(Names)
    /\ IsFiniteSet(PlacesOf(f))
    /\ Cardinality(PlacesOf(f)) = Len(Tickers(f))
    /\ NamesOf(f) = Elements(Tickers(f))
<1>L. PICK L : L = FileLine
  OBVIOUS
<1> DEFINE Q == {f \in Seq(L) : /\ Tickers(f) \in Seq(Names)
                                /\ IsFiniteSet(PlacesOf(f))
                                /\ Cardinality(PlacesOf(f)) = Len(Tickers(f))
                                /\ NamesOf(f) = Elements(Tickers(f))}
<1>1. << >> \in Q
  <2>1. /\ PlacesOf(<< >>) = {} /\ Elements(<< >>) = {} /\ Len(<< >>) = 0
        /\ << >> \in Seq(L) /\ << >> \in Seq(Names)
    BY DEF PlacesOf, Elements
  <2>2. NamesOf(<< >>) = {}
    BY <2>1, Zenon DEF NamesOf
  <2>3. Tickers(<< >>) = << >>
    BY KeepEmpty, JoinedType, Zenon DEF Tickers
  <2>4. QED
    BY <2>1, <2>2, <2>3, FS_EmptySet, Zenon
<1>2. ASSUME NEW f \in Seq(L), NEW l \in L, f \in Q
      PROVE  Append(f, l) \in Q
  <2>1. PICK u, ts, ks, P, M :
          /\ u = Append(f, l) /\ ts = Tickers(f) /\ ks = Keep(l, Names)
          /\ P = PlacesOf(f) /\ M = {Len(f) + 1} \X Marks(l)
    OBVIOUS
  <2>2. u \in Seq(L)
    BY <2>1
  <2>3. /\ IsFiniteSet(P) /\ Cardinality(P) = Len(ts) /\ NamesOf(f) = Elements(ts)
        /\ ts \in Seq(Names)
    BY <1>2, <2>1, Zenon
  <2>4. /\ PlacesOf(u) = P \cup M /\ P \cap M = {}
        /\ NamesOf(u) = NamesOf(f) \cup {l[j] : j \in Marks(l)}
    BY <1>L, <2>1, FileAppend, Zenon
  <2>5. Tickers(u) = ts \o ks /\ ks \in Seq(Names)
    BY <1>L, <2>1, TickersAppend, Zenon
  <2>6. l \in Seq(Names \cup {Blank})
    BY <1>L, Zenon DEF FileLine
  <2>7. /\ IsFiniteSet(Marks(l)) /\ Cardinality(Marks(l)) = Len(ks)
        /\ {l[j] : j \in Marks(l)} = Elements(ks)
    BY <2>1, <2>6, LineMarks, Zenon
  <2>8. IsFiniteSet(M) /\ Cardinality(M) = Len(ks)
    <3>1. PICK one : one = {Len(f) + 1}
      OBVIOUS
    <3>2. IsFiniteSet(one) /\ Cardinality(one) = 1
      BY <3>1, FS_Singleton, Zenon
    <3>3. /\ IsFiniteSet(one \X Marks(l))
          /\ Cardinality(one \X Marks(l)) = Cardinality(one) * Cardinality(Marks(l))
      BY <2>7, <3>2, FS_Product
    <3>4. Len(ks) \in Nat
      BY <2>5
    <3>5. 1 * Len(ks) = Len(ks)
      BY <3>4
    <3>6. QED
      BY <2>1, <2>7, <3>1, <3>2, <3>3, <3>5, Zenon
  <2>9. IsFiniteSet(P \cup M) /\ Cardinality(P \cup M) = Len(ts) + Len(ks)
    <3>1. /\ IsFiniteSet(P \cup M)
          /\ Cardinality(P \cup M) = Len(ts) + Len(ks) - Cardinality(P \cap M)
      BY <2>3, <2>8, FS_Union, Zenon
    <3>2. Cardinality(P \cap M) = 0
      BY <2>4, FS_EmptySet, Zenon
    <3>3. Len(ts) \in Nat /\ Len(ks) \in Nat
      BY <2>3, <2>5
    <3>4. QED
      BY <3>1, <3>2, <3>3
  <2>10. ts \o ks \in Seq(Names) /\ Len(ts \o ks) = Len(ts) + Len(ks)
    BY <2>3, <2>5
  <2>11. Elements(ts \o ks) = Elements(ts) \cup Elements(ks)
    BY <2>3, <2>5, ElementsConcat
  <2>12. /\ Tickers(u) \in Seq(Names) /\ IsFiniteSet(PlacesOf(u))
         /\ Cardinality(PlacesOf(u)) = Len(Tickers(u))
         /\ NamesOf(u) = Elements(Tickers(u))
    BY <2>3, <2>4, <2>5, <2>7, <2>9, <2>10, <2>11, Zenon
  <2>13. QED
    BY <2>1, <2>2, <2>12, Zenon
<1>3. Seq(L) \subseteq Q
  <2> HIDE DEF Q
  <2> QED BY <1>1, <1>2, AppendInduction
<1>4. QED
  BY <1>L, <1>3, Zenon

\* Names that are said once, by place.
OnceIn(f) == \A p, q \in PlacesOf(f) : f[p[1]][p[2]] = f[q[1]][q[2]] => p = q

\* validate_stream_command passes the tickers of a file exactly when the file
\* holds names, all of them known and none of them twice.
LEMMA ValidFile ==
  ASSUME NEW f \in Seq(FileLine)
  PROVE  ValidateStreamCommand(Tickers(f)) = "valid" <=>
           /\ PlacesOf(f) # {}
           /\ \A p \in PlacesOf(f) : f[p[1]][p[2]] \in DefaultTickers
           /\ OnceIn(f)
<1>1. PICK ts, P, N : ts = Tickers(f) /\ P = PlacesOf(f) /\ N = NamesOf(f)
  OBVIOUS
<1>2. /\ ts \in Seq(Names) /\ IsFiniteSet(P) /\ Cardinality(P) = Len(ts) /\ N = Elements(ts)
  BY <1>1, FilePlaces, Zenon
<1>3. PICK h : h = [p \in P |-> f[p[1]][p[2]]]
  OBVIOUS
<1>4. N = {h[p] : p \in P} /\ h \in [P -> N] /\ \A p \in P : h[p] = f[p[1]][p[2]]
  BY <1>1, <1>3 DEF NamesOf
<1>5. h \in Surjection(P, N)
  BY <1>4, Zenon DEF Surjection
<1>6. Cardinality(N) = Cardinality(P) <=> h \in Injection(P, N)
  BY <1>2, <1>5, FS_Surjection, Zenon
<1>7. h \in Injection(P, N) <=> OnceIn(f)
  <2>1. h \in Injection(P, N) <=> \A a, b \in P : h[a] = h[b] => a = b
    <3>1. DOMAIN h = P /\ h \in [P -> N]
      BY <1>4
    <3>2. IsInjective(h) <=> \A a, b \in P : h[a] = h[b] => a = b
      BY <3>1, Zenon DEF IsInjective
    <3>3. QED
      BY <3>1, <3>2, Zenon DEF Injection
  <2>2. QED
    <3>1. OnceIn(f) <=> \A p, q \in P : f[p[1]][p[2]] = f[q[1]][q[2]] => p = q
      BY <1>1, Zenon DEF OnceIn
    <3>2. (\A p, q \in P : f[p[1]][p[2]] = f[q[1]][q[2]] => p = q) <=>
            \A a, b \in P : h[a] = h[b] => a = b
      <4>1. \A p, q \in P : h[p] = f[p[1]][p[2]] /\ h[q] = f[q[1]][q[2]]
        BY <1>4, Zenon
      <4>2. \A p, q \in P : (f[p[1]][p[2]] = f[q[1]][q[2]]) <=> (h[p] = h[q])
        BY ONLY <4>1, Zenon
      <4>3. QED
        BY ONLY <4>2, Zenon
    <3>3. QED
      BY ONLY <2>1, <3>1, <3>2, Zenon
<1>8. ts = << >> <=> P = {}
  <2>1. ts = << >> <=> Len(ts) = 0
    BY <1>2
  <2>2. Cardinality(P) = 0 <=> P = {}
    BY <1>2, FS_EmptySet, Zenon
  <2>3. QED
    BY <1>2, <2>1, <2>2, Zenon
<1>9. N \subseteq DefaultTickers <=> \A p \in P : f[p[1]][p[2]] \in DefaultTickers
  BY <1>4, Zenon
<1>10. ValidateStreamCommand(ts) = "valid" <=>
         /\ ts # << >>
         /\ Cardinality(Elements(ts)) = Len(ts)
         /\ Elements(ts) \subseteq DefaultTickers
  BY DEF ValidateStreamCommand
<1>11. QED
  BY <1>1, <1>2, <1>6, <1>7, <1>8, <1>9, <1>10, Zenon

-------------------------------------------------------------------------------
(* The invariant of Handshake *)

\* The line a run sends.
RunLine == IF mode = "stream" THEN StreamLine(Items) ELSE PingLine

\* r is the answer to the line q, and g what was granted with it.
AnsweredBy(q, r, g) ==
  IF Readable(q, TRUE)
  THEN r = AnswerTo(Parse(q)) /\ g = IF r.kind = "OK" THEN Parse(q).tickers ELSE << >>
  ELSE r = Eof /\ g = << >>

\* What is granted with the answer, before and after the subscription is made.
Handed == IF handler = "subscribe" THEN Parse(request).tickers ELSE granted

RunTypes ==
  /\ mode \in {"stream", "tcp-ping"}
  /\ listener \in {"server", "ponger"}
  /\ file \in Seq(FileLine)
  /\ blanks \in Nat
  /\ addrSize \in AddrSizes
  /\ at \in {"load", "bind", "connect", "send", "read", "report", "exited"}

\* What is on its way: the line of this run, and the answer to that very line
\* unless the connection broke first.
OnTheWay ==
  /\ request \in {NoLine, RunLine}
  /\ request = NoLine => reply = NoLine
  /\ reply = NoLine => handler = "read" /\ granted = << >>
  /\ at \in {"load", "bind", "connect", "send"} => request = NoLine
  /\ \/ reply = NoLine
     \/ fault /\ (reply \in {Eof, Reset} \/ \E g : AnsweredBy(request, reply, g))
     \/ AnsweredBy(request, reply, Handed)

\* How a run ends: by the answer, or by an error before anything is sent.
Verdict ==
  /\ at \in {"report", "exited"} =>
       \/ reply # NoLine /\ result = VerdictOn(reply)
       \/ request = NoLine /\ result \in Errors /\ (fault \/ Loaded = << >>)
  /\ at = "exited" => code = IF result = "ok" THEN 0 ELSE 1

RunInv == RunTypes /\ OnTheWay /\ Verdict

\* What depends on the arguments of the run only stays as it is.
LEMMA GivenStays ==
  ASSUME UNCHANGED given
  PROVE  /\ RunLine' = RunLine
         /\ Loaded' = Loaded
         /\ \A q, r, g : AnsweredBy(q, r, g)' <=> AnsweredBy(q, r, g)
         /\ \A r : VerdictOn(r)' = VerdictOn(r)
         /\ RunTypes /\ at' \in {"load", "bind", "connect", "send", "read", "report", "exited"}
              => RunTypes'
<1>1. mode' = mode /\ listener' = listener /\ file' = file /\ blanks' = blanks
      /\ addrSize' = addrSize
  BY DEF given
<1>2. Loaded' = Loaded
  BY <1>1, Zenon DEF Loaded
<1>3. RunLine' = RunLine
  <2>1. Items' = Items
    BY <1>2, Zenon DEF Items
  <2>2. QED
    BY <1>1, <2>1, Zenon DEF RunLine, StreamLine
<1>4. \A c : AnswerTo(c)' = AnswerTo(c)
  BY <1>1, Zenon DEF AnswerTo
<1>5. \A q, r, g : AnsweredBy(q, r, g)' <=> AnsweredBy(q, r, g)
  BY <1>4, Zenon DEF AnsweredBy
<1>6. \A r : VerdictOn(r)' = VerdictOn(r)
  BY <1>1, Zenon DEF VerdictOn, ExpectedKind
<1>7. QED
  BY <1>1, <1>2, <1>3, <1>5, <1>6 DEF RunTypes

\* A run starts with nothing on its way.
LEMMA RunInitInv == RunInit => RunInv
<1> SUFFICES ASSUME RunInit PROVE RunInv
  OBVIOUS
<1>1. RunTypes
  BY FilesAssumption, SizesAssumption DEF RunInit, RunTypes
<1>2. OnTheWay /\ Verdict
  BY DEF RunInit, OnTheWay, Verdict
<1>3. QED
  BY <1>1, <1>2 DEF RunInv

\* A failure before anything is sent.
LEMMA FailsInv ==
  ASSUME RunInv, UNCHANGED <<given, request, reply, handler, granted, code>>,
         at \in {"load", "bind", "connect", "send"},
         NEW e \in Errors, Fails(e), fault' \/ Loaded = << >>
  PROVE  RunInv'
<1>1. RunTypes'
  BY GivenStays DEF RunInv, Fails
<1>2. RunLine' = RunLine /\ Loaded' = Loaded
  BY GivenStays, Zenon
<1>3. OnTheWay'
  BY <1>2 DEF RunInv, OnTheWay, Fails
<1>4. Verdict'
  BY <1>2 DEF RunInv, OnTheWay, Verdict, Fails
<1>5. QED
  BY <1>1, <1>3, <1>4 DEF RunInv

\* A step to the next stage before anything is sent.
LEMMA StageInv ==
  ASSUME RunInv, UNCHANGED <<given, request, reply, handler, granted, code, result, fault>>,
         at \in {"load", "bind", "connect", "send"},
         at' \in {"load", "bind", "connect", "send"}
  PROVE  RunInv'
<1>1. RunTypes'
  BY GivenStays DEF RunInv
<1>2. RunLine' = RunLine
  BY GivenStays, Zenon
<1>3. OnTheWay'
  BY <1>2 DEF RunInv, OnTheWay
<1>4. Verdict'
  BY DEF Verdict
<1>5. QED
  BY <1>1, <1>3, <1>4 DEF RunInv

\* Every step of the two programs keeps the invariant.
LEMMA RunNextInv == RunInv /\ [RunNext]_runVars => RunInv'
<1> SUFFICES ASSUME RunInv, [RunNext]_runVars PROVE RunInv'
  OBVIOUS
<1>1. CASE Load
  <2>1. CASE Loaded # << >> /\ at' = "bind" /\ UNCHANGED <<result, fault>>
    BY <1>1, <2>1, StageInv DEF Load
  <2>2. CASE Fails("Io") /\ (Loaded = << >> \/ fault' = TRUE)
    <3>1. "Io" \in Errors
      BY DEF Errors
    <3>2. QED
      BY <1>1, <2>2, <3>1, FailsInv DEF Load
  <2>3. QED
    BY <1>1, <2>1, <2>2 DEF Load
<1>2. CASE Bind
  <2>1. CASE at' = "connect" /\ UNCHANGED <<result, fault>>
    BY <1>2, <2>1, StageInv DEF Bind
  <2>2. CASE (Fails("AddrParse") \/ Fails("Io")) /\ fault' = TRUE
    <3>1. PICK e \in Errors : Fails(e)
      BY <2>2 DEF Errors
    <3>2. QED
      BY <1>2, <2>2, <3>1, FailsInv DEF Bind
  <2>3. QED
    BY <1>2, <2>1, <2>2 DEF Bind
<1>3. CASE TcpConnect
  <2>1. CASE at' = "send" /\ UNCHANGED <<result, fault>>
    BY <1>3, <2>1, StageInv DEF TcpConnect
  <2>2. CASE Fails("TcpConnectFailed") /\ fault' = TRUE
    <3>1. "TcpConnectFailed" \in Errors
      BY DEF Errors
    <3>2. QED
      BY <1>3, <2>2, <3>1, FailsInv DEF TcpConnect
  <2>3. QED
    BY <1>3, <2>1, <2>2 DEF TcpConnect
<1>4. CASE SendCommand
  <2>1. CASE request' = RunLine /\ at' = "read" /\ UNCHANGED <<result, fault>>
    <3>1. UNCHANGED <<given, reply, handler, granted, code>> /\ at = "send"
      BY <1>4 DEF SendCommand
    <3>2. RunLine' = RunLine
      BY <3>1, GivenStays, Zenon
    <3>3. RunTypes'
      BY <2>1, <3>1, GivenStays DEF RunInv
    <3>4. reply' = NoLine /\ granted' = << >> /\ handler' = "read"
      BY <3>1 DEF RunInv, OnTheWay
    <3>5. OnTheWay' /\ Verdict'
      BY <2>1, <3>2, <3>4 DEF OnTheWay, Verdict
    <3>6. QED
      BY <3>3, <3>5 DEF RunInv
  <2>2. CASE Fails("Io") /\ fault' = TRUE /\ UNCHANGED request
    <3>1. "Io" \in Errors
      BY DEF Errors
    <3>2. QED
      BY <1>4, <2>2, <3>1, FailsInv DEF SendCommand
  <2>3. QED
    BY <1>4, <2>1, <2>2, Zenon DEF SendCommand, RunLine
<1>5. CASE ReadReply
  <2>1. UNCHANGED <<given, request, reply, handler, granted, fault>> /\ at' = "report"
        /\ reply # NoLine /\ result' = VerdictOn(reply)
    BY <1>5 DEF ReadReply
  <2>2. RunTypes'
    BY <2>1, GivenStays DEF RunInv
  <2>3. /\ RunLine' = RunLine
        /\ \A q, r, g : AnsweredBy(q, r, g)' <=> AnsweredBy(q, r, g)
        /\ VerdictOn(reply)' = VerdictOn(reply)
    BY <2>1, GivenStays, Zenon
  <2>4. OnTheWay'
    <3>1. Handed' = Handed
      BY <2>1 DEF Handed
    <3>2. QED
      BY <2>1, <2>3, <3>1 DEF RunInv, OnTheWay
  <2>5. Verdict'
    BY <2>1, <2>3 DEF Verdict
  <2>6. QED
    BY <2>2, <2>4, <2>5 DEF RunInv
<1>6. CASE Report
  <2>1. /\ UNCHANGED <<given, request, reply, handler, granted, result, fault>>
        /\ at = "report" /\ at' = "exited" /\ code' = IF result = "ok" THEN 0 ELSE 1
    BY <1>6 DEF Report
  <2>2. RunTypes'
    BY <2>1, GivenStays DEF RunInv
  <2>3. /\ RunLine' = RunLine /\ Loaded' = Loaded
        /\ \A q, r, g : AnsweredBy(q, r, g)' <=> AnsweredBy(q, r, g)
        /\ VerdictOn(reply)' = VerdictOn(reply)
    BY <2>1, GivenStays, Zenon
  <2>4. OnTheWay'
    <3>1. Handed' = Handed
      BY <2>1 DEF Handed
    <3>2. QED
      BY <2>1, <2>3, <3>1 DEF RunInv, OnTheWay
  <2>5. Verdict'
    BY <2>1, <2>3 DEF RunInv, Verdict
  <2>6. QED
    BY <2>2, <2>4, <2>5 DEF RunInv
<1>7. CASE Serve
  <2>1. /\ UNCHANGED <<given, at, request, granted, result, fault, code>>
        /\ request # NoLine /\ reply = NoLine /\ granted = << >>
        /\ reply' = IF Readable(request, TRUE) THEN AnswerTo(Parse(request)) ELSE Eof
        /\ handler' = IF reply'.kind = "OK" THEN "subscribe" ELSE "done"
    BY <1>7 DEF Serve, RunInv, OnTheWay
  <2>2. RunTypes' /\ Verdict'
    BY <2>1, GivenStays DEF RunInv, RunTypes, Verdict
  <2>3. /\ RunLine' = RunLine
        /\ \A q, r, g : AnsweredBy(q, r, g)' <=> AnsweredBy(q, r, g)
    BY <2>1, GivenStays, Zenon
  <2>4. reply' # NoLine
    BY <2>1 DEF AnswerTo, Eof, NoLine
  <2>5. AnsweredBy(request, reply', Handed')
    <3>1. Handed' = IF reply'.kind = "OK" THEN Parse(request).tickers ELSE << >>
      BY <2>1 DEF Handed
    <3>2. Eof.kind # "OK"
      BY DEF Eof
    <3>3. QED
      BY <2>1, <3>1, <3>2, Zenon DEF AnsweredBy
  <2>6. AnsweredBy(request, reply, Handed)'
    BY <2>1, <2>3, <2>5, Zenon
  <2>7. OnTheWay'
    BY <2>1, <2>3, <2>4, <2>6 DEF RunInv, OnTheWay
  <2>8. QED
    BY <2>2, <2>7 DEF RunInv
<1>8. CASE Broken
  <2>1. /\ UNCHANGED <<given, at, request, granted, result, code>>
        /\ request # NoLine /\ reply = NoLine
        /\ reply' \in {Eof, Reset} /\ fault' = TRUE
    BY <1>8 DEF Broken
  <2>2. RunTypes' /\ RunLine' = RunLine
    BY <2>1, GivenStays DEF RunInv, RunTypes
  <2>3. reply' # NoLine
    BY <2>1 DEF Eof, Reset, NoLine
  <2>4. OnTheWay'
    BY <2>1, <2>2, <2>3 DEF RunInv, OnTheWay
  <2>5. Verdict'
    BY <2>1 DEF RunInv, Verdict
  <2>6. QED
    BY <2>2, <2>4, <2>5 DEF RunInv
<1>9. CASE SubscribeRun
  <2>1. /\ UNCHANGED <<given, at, request, reply, result, fault, code>>
        /\ handler = "subscribe" /\ handler' = "done" /\ granted' = Parse(request).tickers
    BY <1>9 DEF SubscribeRun
  <2>2. RunTypes'
    BY <2>1, GivenStays DEF RunInv, RunTypes
  <2>3. /\ RunLine' = RunLine /\ Loaded' = Loaded
        /\ \A q, r, g : AnsweredBy(q, r, g)' <=> AnsweredBy(q, r, g)
        /\ VerdictOn(reply)' = VerdictOn(reply)
    BY <2>1, GivenStays, Zenon
  <2>4. Handed' = Handed
    BY <2>1 DEF Handed
  <2>5. OnTheWay'
    BY <2>1, <2>3, <2>4 DEF RunInv, OnTheWay
  <2>6. Verdict'
    BY <2>1, <2>3 DEF RunInv, Verdict
  <2>7. QED
    BY <2>2, <2>5, <2>6 DEF RunInv
<1>10. CASE Ended
  <2>1. /\ UNCHANGED <<given, at, request, reply, granted, result, code>>
        /\ handler = "subscribe" /\ fault' = TRUE
    BY <1>10 DEF Ended
  <2>2. RunTypes'
    BY <2>1, GivenStays DEF RunInv, RunTypes
  <2>3. /\ RunLine' = RunLine /\ Loaded' = Loaded
        /\ \A q, r, g : AnsweredBy(q, r, g)' <=> AnsweredBy(q, r, g)
        /\ VerdictOn(reply)' = VerdictOn(reply)
    BY <2>1, GivenStays, Zenon
  <2>4. OnTheWay'
    BY <2>1, <2>3 DEF RunInv, OnTheWay
  <2>5. Verdict'
    BY <2>1, <2>3 DEF RunInv, Verdict
  <2>6. QED
    BY <2>2, <2>4, <2>5 DEF RunInv
<1>11. CASE UNCHANGED runVars
  <2>1. UNCHANGED <<given, at, request, reply, handler, granted, result, fault, code>>
    BY <1>11 DEF runVars, given
  <2>2. RunTypes'
    BY <2>1, GivenStays DEF RunInv, RunTypes
  <2>3. /\ RunLine' = RunLine /\ Loaded' = Loaded
        /\ \A q, r, g : AnsweredBy(q, r, g)' <=> AnsweredBy(q, r, g)
        /\ VerdictOn(reply)' = VerdictOn(reply)
    BY <2>1, GivenStays, Zenon
  <2>4. OnTheWay'
    <3>1. Handed' = Handed
      BY <2>1 DEF Handed
    <3>2. QED
      BY <2>1, <2>3, <3>1 DEF RunInv, OnTheWay
  <2>5. Verdict'
    BY <2>1, <2>3 DEF RunInv, Verdict
  <2>6. QED
    BY <2>2, <2>4, <2>5 DEF RunInv
<1>12. QED
  BY <1>1, <1>2, <1>3, <1>4, <1>5, <1>6, <1>7, <1>8, <1>9, <1>10, <1>11, Zenon
  DEF RunNext, Client

\* Whatever comes back to a client is the answer to the line made of its file,
\* or the connection broke; and a run ends by that answer or before it asked.
THEOREM RunInvariant == RunSpec => []RunInv
BY RunInitInv, RunNextInv, PTL DEF RunSpec

\* The command of a run, and what the other end makes of it.
LEMMA ParsedRun ==
  ASSUME NEW items, NEW size
  PROVE  LET line == [kind |-> "line", size |-> size, utf8 |-> TRUE, text |-> size, whole |-> TRUE,
                      verb |-> "STREAM", addr |-> "udp", items |-> items]
         IN  Parse(line) = IF items # << >> THEN [cmd |-> "STREAM", tickers |-> Keep(items, Names)]
                           ELSE [cmd |-> "unknown", long |-> size > ECHO_LIMIT, whole |-> TRUE]
BY DEF Parse, TickersOf

\* What the listener makes of the command of a streaming run.
LEMMA StreamAnswer ==
  ASSUME NEW q, NEW r, NEW g, NEW ts, ts = Tickers(file),
         q = StreamLine(Items), AnsweredBy(q, r, g)
  PROVE  \/ /\ r = Eof /\ g = << >>
            /\ ~(listener = "server" /\ Readable(q, TRUE) /\ Items # << >>)
         \/ /\ Readable(q, TRUE) /\ listener = "server" /\ Items # << >>
            /\ IF ValidateStreamCommand(ts) = "valid"
               THEN r = [kind |-> "OK", size |-> 2] /\ g = ts
               ELSE /\ r = [kind |-> "ERR", size |-> ErrSize(ValidateStreamCommand(ts), ts)]
                    /\ g = << >>
<1>1. ts = Keep(Items, Names)
  BY DEF Tickers, Items, Loaded
<1>2. PICK items, size : items = Items /\ size = q.size
  OBVIOUS
<1>3. Parse(q) = IF items # << >> THEN [cmd |-> "STREAM", tickers |-> ts]
                 ELSE [cmd |-> "unknown", long |-> size > ECHO_LIMIT, whole |-> TRUE]
  BY <1>1, <1>2, ParsedRun DEF StreamLine
<1>4. CASE ~Readable(q, TRUE)
  BY <1>4 DEF AnsweredBy
<1>5. CASE Readable(q, TRUE) /\ items = << >>
  <2>1. AnswerTo(Parse(q)) = Eof
    BY <1>3, <1>5 DEF AnswerTo
  <2>2. Eof.kind # "OK"
    BY DEF Eof
  <2>3. QED
    BY <1>2, <1>5, <2>1, <2>2, Zenon DEF AnsweredBy
<1>6. CASE Readable(q, TRUE) /\ items # << >>
  <2>1. PICK c : c = Parse(q)
    OBVIOUS
  <2>2. c.cmd = "STREAM" /\ c.tickers = ts
    BY <1>3, <1>6, <2>1
  <2>3. r = AnswerTo(c) /\ g = IF r.kind = "OK" THEN ts ELSE << >>
    BY <1>6, <2>1, <2>2, Zenon DEF AnsweredBy
  <2>4. CASE listener = "server"
    <3>1. PICK ok, err :
            /\ ok = [kind |-> "OK", size |-> 2]
            /\ err = [kind |-> "ERR", size |-> ErrSize(ValidateStreamCommand(ts), ts)]
      OBVIOUS
    <3>2. ok.kind = "OK" /\ err.kind # "OK"
      BY <3>1
    <3>3. AnswerTo(c) = IF ValidateStreamCommand(ts) = "valid" THEN ok ELSE err
      BY <2>2, <2>4, <3>1 DEF AnswerTo
    <3>4. CASE ValidateStreamCommand(ts) = "valid"
      <4>1. r = ok /\ g = ts
        BY <2>3, <3>2, <3>3, <3>4, Zenon
      <4>2. QED
        BY <1>2, <1>6, <2>4, <3>1, <3>4, <4>1, Zenon
    <3>5. CASE ValidateStreamCommand(ts) # "valid"
      <4>1. r = err /\ g = << >>
        BY <2>3, <3>2, <3>3, <3>5, Zenon
      <4>2. QED
        BY <1>2, <1>6, <2>4, <3>1, <3>5, <4>1, Zenon
    <3>6. QED
      BY <3>4, <3>5
  <2>5. CASE listener # "server"
    <3>1. AnswerTo(c) = Eof
      BY <2>2, <2>5 DEF AnswerTo
    <3>2. Eof.kind # "OK"
      BY DEF Eof
    <3>3. QED
      BY <2>3, <2>5, <3>1, <3>2, Zenon
  <2>6. QED
    BY <2>4, <2>5
<1>7. QED
  BY <1>4, <1>5, <1>6

\* What a line of the file's items is.
LEMMA ItemsType ==
  ASSUME RunTypes
  PROVE  /\ Items \in Seq(Names \cup {Blank})
         /\ Tickers(file) \in Seq(Names)
         /\ Elements(Tickers(file)) = Elements(Items) \cap Names
<1>1. PICK A, L, K, k :
        /\ A = Names \cup {Blank} /\ L = FileLine /\ K = FileLine \ {<<Blank>>}
        /\ k = Keep(file, K)
  OBVIOUS
<1>2. file \in Seq(L) /\ K \subseteq L /\ K \subseteq Seq(A) /\ A \cap Names = Names
  BY <1>1 DEF RunTypes, FileLine
<1>3. k \in Seq(K)
  BY <1>1, <1>2, KeepType
<1>4. k \in Seq(Seq(A))
  BY <1>2, <1>3
<1>5. Items = Joined(k) /\ Tickers(file) = Keep(Items, Names)
  BY <1>1, Zenon DEF Items, Loaded, Tickers
<1>6. Items \in Seq(A)
  BY <1>4, <1>5, JoinedType
<1>7. /\ Keep(Items, Names) \in Seq(A \cap Names)
      /\ Elements(Keep(Items, Names)) = Elements(Items) \cap Names
  BY <1>6, KeepElements
<1>8. QED
  BY <1>1, <1>2, <1>5, <1>6, <1>7

\* The size of the command.
LEMMA LineSize ==
  ASSUME RunTypes
  PROVE  /\ SizeOfItems(Items) \in Nat /\ Len(Items) \in Nat
         /\ addrSize \in Nat /\ addrSize >= 6 /\ blanks \in Nat
         /\ StreamLine(Items).size = 14 + addrSize + (Len(Items) - 1) + SizeOfItems(Items) + blanks
         /\ StreamLine(Items).size \in Int
<1>1. SizeOfItems(Items) \in Nat /\ Len(Items) \in Nat
  BY ItemsType, SizeCovers
<1>2. addrSize \in Nat /\ addrSize >= 6 /\ blanks \in Nat
  BY SizesAssumption DEF RunTypes
<1>3. StreamLine(Items).size = 14 + addrSize + (Len(Items) - 1) + SizeOfItems(Items) + blanks
  BY DEF StreamLine
<1>4. QED
  BY <1>1, <1>2, <1>3

\* What has elements has a first one.
LEMMA FirstElement ==
  ASSUME NEW A, NEW s \in Seq(A), Elements(s) # {}
  PROVE  1 \in DOMAIN s /\ Len(s) >= 1
<1>1. DOMAIN s = 1 .. Len(s) /\ Len(s) \in Nat
  OBVIOUS
<1>2. DOMAIN s # {}
  BY Zenon DEF Elements
<1>3. QED
  BY <1>1, <1>2

\* The name an answer says back came with the command, so it is no longer.
LEMMA UnknownFits ==
  ASSUME RunTypes, NEW ts, ts = Tickers(file), ValidateStreamCommand(ts) = "unknown ticker"
  PROVE  /\ Len(Items) >= 1
         /\ SizeOfItem(FirstUnknown(ts)) \in Nat
         /\ SizeOfItem(FirstUnknown(ts)) <= SizeOfItems(Items)
<1>1. PICK X, k : X = Elements(ts) \ DefaultTickers /\ k = Keep(ts, X)
  OBVIOUS
<1>2. ts \in Seq(Names) /\ Elements(ts) = Elements(Items) \cap Names
  BY ItemsType
<1>3. k \in Seq(Names \cap X) /\ Elements(k) = Elements(ts) \cap X
  <2>1. \A s \in Seq(Names) : /\ Keep(s, X) \in Seq(Names \cap X)
                             /\ Elements(Keep(s, X)) = Elements(s) \cap X
    BY KeepElements, Zenon
  <2>2. QED
    BY <1>1, <1>2, <2>1, Zenon
<1>4. ~ Elements(ts) \subseteq DefaultTickers
  BY DEF ValidateStreamCommand
<1>5. Elements(k) # {}
  BY <1>1, <1>2, <1>3, <1>4
<1>6. 1 \in DOMAIN k
  BY <1>3, <1>5, FirstElement
<1>7. k[1] \in Elements(k)
  BY <1>6 DEF Elements
<1>8. PICK e : e = FirstUnknown(ts)
  OBVIOUS
<1>9. e = k[1]
  BY <1>1, <1>8, Zenon DEF FirstUnknown
<1>10. e \in Elements(Items) /\ e \in Names
  BY <1>2, <1>3, <1>7, <1>9
<1>11. Len(Items) >= 1
  <2>1. Items \in Seq(Names \cup {Blank}) /\ Elements(Items) # {}
    BY <1>10, ItemsType
  <2>2. QED
    BY <2>1, FirstElement
<1>12. SizeOfItem(e) \in Nat /\ SizeOfItem(e) <= SizeOfItems(Items)
  BY <1>10, ItemsType, ItemSize, SizeCovers
<1>13. QED
  BY <1>8, <1>11, <1>12

\* The answer to a command that could be read can be read.
LEMMA StreamAnswerFits ==
  ASSUME RunTypes, NEW r, NEW g, AnsweredBy(StreamLine(Items), r, g)
  PROVE  r.size + 1 <= MAX_COMMAND_LINE_BYTES
<1>1. PICK q, ts : q = StreamLine(Items) /\ ts = Tickers(file)
  OBVIOUS
<1>2. PICK why : why = ValidateStreamCommand(ts)
  OBVIOUS
<1>3. \/ r = Eof
      \/ Readable(q, TRUE) /\ r = [kind |-> "OK", size |-> 2]
      \/ Readable(q, TRUE) /\ r = [kind |-> "ERR", size |-> ErrSize(why, ts)]
  <2>1. AnsweredBy(q, r, g)
    BY <1>1, Zenon
  <2>2. QED
    BY <1>1, <1>2, <2>1, StreamAnswer
<1>4. CASE r = Eof \/ r = [kind |-> "OK", size |-> 2]
  BY <1>4 DEF Eof, MAX_COMMAND_LINE_BYTES
<1>5. CASE Readable(q, TRUE) /\ r = [kind |-> "ERR", size |-> ErrSize(why, ts)]
  <2>1. CASE why = "unknown ticker"
    <3>1. PICK n, m : n = SizeOfItem(FirstUnknown(ts)) /\ m = SizeOfItems(Items)
      OBVIOUS
    <3>2. Len(Items) >= 1 /\ n \in Nat /\ n <= m
      BY <1>1, <1>2, <2>1, <3>1, UnknownFits
    <3>3. /\ m \in Nat /\ Len(Items) \in Nat /\ addrSize \in Nat /\ addrSize >= 6
          /\ blanks \in Nat /\ q.size = 14 + addrSize + (Len(Items) - 1) + m + blanks
      BY <1>1, <3>1, LineSize
    <3>4. q.size + 1 <= MAX_COMMAND_LINE_BYTES
      BY <1>5 DEF Readable
    <3>5. r.size = 20 + n
      BY <1>5, <2>1, <3>1 DEF ErrSize
    <3>6. QED
      BY <3>2, <3>3, <3>4, <3>5 DEF MAX_COMMAND_LINE_BYTES
  <2>2. CASE why # "unknown ticker"
    <3>1. r.size = ErrSize(why, ts)
      BY <1>5
    <3>2. ErrSize(why, ts) = 30
      BY <2>2, Zenon DEF ErrSize
    <3>3. QED
      BY <3>1, <3>2 DEF MAX_COMMAND_LINE_BYTES
  <2>3. QED
    BY <2>1, <2>2
<1>6. QED
  BY <1>3, <1>4, <1>5

\* So can the answer to a ping.
LEMMA PingAnswerFits ==
  ASSUME NEW r, NEW g, AnsweredBy(PingLine, r, g)
  PROVE  r.size + 1 <= MAX_COMMAND_LINE_BYTES
<1>1. Parse(PingLine) = [cmd |-> "PING"]
  BY DEF Parse, PingLine
<1>2. AnswerTo(Parse(PingLine)) = [kind |-> "PONG", size |-> 4]
  BY <1>1 DEF AnswerTo
<1>3. r = [kind |-> "PONG", size |-> 4] \/ r = Eof
  BY <1>2, Zenon DEF AnsweredBy
<1>4. QED
  BY <1>3 DEF Eof, MAX_COMMAND_LINE_BYTES

\* A run that got an answer got the one to its own line.
LEMMA StreamRun ==
  ASSUME RunInv, mode = "stream", ~fault, reply # NoLine, NEW ts, ts = Tickers(file)
  PROVE  \/ /\ reply = Eof /\ Handed = << >>
            /\ ~(listener = "server" /\ Readable(StreamLine(Items), TRUE) /\ Items # << >>)
         \/ /\ listener = "server"
            /\ IF ValidateStreamCommand(ts) = "valid"
               THEN reply = [kind |-> "OK", size |-> 2] /\ Handed = ts
               ELSE /\ reply = [kind |-> "ERR", size |-> ErrSize(ValidateStreamCommand(ts), ts)]
                    /\ Handed = << >>
<1>1. request = StreamLine(Items) /\ AnsweredBy(request, reply, Handed)
  BY DEF RunInv, OnTheWay, RunLine
<1>2. QED
  BY <1>1, StreamAnswer, Zenon

\* The exit code of a streaming run that nothing disturbed.
LEMMA StreamExit ==
  ASSUME RunInv, at = "exited", mode = "stream", ~fault, NEW ts, ts = Tickers(file)
  PROVE  /\ result \in Errors \cup {"ok"}
         /\ code = IF result = "ok" THEN 0 ELSE 1
         /\ result = "ok" => ValidateStreamCommand(ts) = "valid" /\ Handed = ts
         /\ result # "ok" => Handed = << >>
         /\ listener = "server" /\ Readable(StreamLine(Items), TRUE)
              /\ ValidateStreamCommand(ts) = "valid" => result = "ok"
<1>1. code = IF result = "ok" THEN 0 ELSE 1
  BY DEF RunInv, Verdict
<1>2. CASE reply # NoLine /\ result = VerdictOn(reply)
  <2>1. CASE /\ reply = Eof /\ Handed = << >>
             /\ ~(listener = "server" /\ Readable(StreamLine(Items), TRUE) /\ Items # << >>)
    <3>1. result = "EmptyCommand"
      <4>1. reply.kind = "eof" /\ ~(reply.kind = "reset" \/ reply.size + 1 > MAX_COMMAND_LINE_BYTES)
        BY <2>1 DEF Eof, MAX_COMMAND_LINE_BYTES
      <4>2. QED
        BY <1>2, <4>1 DEF VerdictOn
    <3>2. CASE Items = << >>
      <4>1. ts = << >>
        BY <3>2, KeepEmpty, Zenon DEF Tickers, Items, Loaded
      <4>2. QED
        BY <1>1, <2>1, <3>1, <4>1 DEF Errors, ValidateStreamCommand
    <3>3. CASE Items # << >>
      BY <1>1, <2>1, <3>1, <3>3 DEF Errors
    <3>4. QED
      BY <3>2, <3>3
  <2>2. CASE /\ listener = "server" /\ ValidateStreamCommand(ts) = "valid"
             /\ reply = [kind |-> "OK", size |-> 2] /\ Handed = ts
    <3>1. result = "ok"
      BY <1>2, <2>2 DEF VerdictOn, ExpectedKind, MAX_COMMAND_LINE_BYTES
    <3>2. QED
      BY <1>1, <2>2, <3>1
  <2>3. CASE /\ ValidateStreamCommand(ts) # "valid" /\ Handed = << >>
             /\ reply = [kind |-> "ERR", size |-> ErrSize(ValidateStreamCommand(ts), ts)]
    <3>1. result \in {"Io", "UnknownCommand"}
      BY <1>2, <2>3 DEF VerdictOn, ExpectedKind
    <3>2. QED
      BY <1>1, <2>3, <3>1 DEF Errors
  <2>4. QED
    BY <1>2, <2>1, <2>2, <2>3, StreamRun
<1>3. CASE request = NoLine /\ result \in Errors /\ Loaded = << >>
  <2>1. Handed = << >> /\ result # "ok"
    BY <1>3 DEF RunInv, OnTheWay, Handed, Errors
  <2>2. Tickers(file) = << >>
    BY <1>3, JoinedType, KeepEmpty, Zenon DEF Tickers, Loaded
  <2>3. ValidateStreamCommand(ts) # "valid"
    BY <2>2 DEF ValidateStreamCommand
  <2>4. QED
    BY <1>1, <1>3, <2>1, <2>3
<1>4. QED
  BY <1>2, <1>3 DEF RunInv, Verdict

\* Both ends agree on a run: the client goes on exactly when the server has
\* subscribed it, to the names of the file (tickers.rs:30-47, protocol.rs:52-95,
\* tcp_command.rs:25-41, run.rs:81-99).
THEOREM HandshakeAgreed == RunSpec => []Agreed
<1>1. RunInv => Agreed
  <2> SUFFICES ASSUME RunInv, at = "exited", handler # "subscribe", mode = "stream", ~fault
               PROVE  /\ (code = 0) <=> (granted # << >>)
                      /\ code = 1 => result \in Errors
                      /\ code = 0 =>
                           /\ {NameAt(p) : p \in Places} = Elements(granted)
                           /\ Cardinality(Places) = Len(granted)
                           /\ \A p \in Places : NameAt(p) \in DefaultTickers
                           /\ \A p, q \in Places : NameAt(p) = NameAt(q) => p = q
    BY Zenon DEF Agreed
  <2>1. PICK ts : ts = Tickers(file)
    OBVIOUS
  <2>2. /\ result \in Errors \cup {"ok"}
        /\ code = IF result = "ok" THEN 0 ELSE 1
        /\ result = "ok" => ValidateStreamCommand(ts) = "valid" /\ granted = ts
        /\ result # "ok" => granted = << >>
    <3>1. Handed = granted
      BY DEF Handed
    <3>2. QED
      BY <2>1, <3>1, StreamExit, Zenon
  <2>3. file \in Seq(FileLine)
    BY DEF RunInv, RunTypes
  <2>4. Places = PlacesOf(file) /\ {NameAt(p) : p \in Places} = NamesOf(file)
    BY Zenon DEF Places, PlacesOf, NamesOf, NameAt
  <2>5. Cardinality(Places) = Len(ts) /\ {NameAt(p) : p \in Places} = Elements(ts)
    BY <2>1, <2>3, <2>4, FilePlaces, Zenon
  <2>6. CASE result = "ok"
    <3>1. /\ \A p \in PlacesOf(file) : file[p[1]][p[2]] \in DefaultTickers
          /\ OnceIn(file)
      BY <2>1, <2>2, <2>3, <2>6, ValidFile, Zenon
    <3>2. /\ \A p \in Places : NameAt(p) \in DefaultTickers
          /\ \A p, q \in Places : NameAt(p) = NameAt(q) => p = q
      BY <2>4, <3>1, Zenon DEF NameAt, OnceIn
    <3>3. ts # << >>
      BY <2>2, <2>6 DEF ValidateStreamCommand
    <3>4. code = 0 /\ granted = ts
      BY <2>2, <2>6
    <3>5. code # 1
      BY <3>4
    <3>6. QED
      BY <2>5, <3>2, <3>3, <3>4, <3>5, Zenon
  <2>7. CASE result # "ok"
    <3>1. code = 1 /\ code # 0 /\ granted = << >> /\ result \in Errors
      BY <2>2, <2>7
    <3>2. QED
      BY <3>1, Zenon
  <2>8. QED
    BY <2>6, <2>7
<1>2. QED
  BY <1>1, RunInvariant, PTL

\* A file of known names without a repetition whose command fits is never
\* refused (tickers.rs:30-47, protocol.rs:52-95, net.rs:48-69, run.rs:81-99).
THEOREM HandshakeNotRefused == RunSpec => []NotRefused
<1>1. RunInv => NotRefused
  <2> SUFFICES ASSUME RunInv, at = "exited", mode = "stream", listener = "server", ~fault,
                      Places # {},
                      \A p \in Places : NameAt(p) \in DefaultTickers,
                      \A p, q \in Places : NameAt(p) = NameAt(q) => p = q,
                      StreamLine(Items).size < MAX_COMMAND_LINE_BYTES
               PROVE  code = 0
    BY Zenon DEF NotRefused
  <2>1. PICK ts : ts = Tickers(file)
    OBVIOUS
  <2>2. file \in Seq(FileLine)
    BY DEF RunInv, RunTypes
  <2>3. Places = PlacesOf(file)
    BY Zenon DEF Places, PlacesOf, NameAt
  <2>4. ValidateStreamCommand(ts) = "valid"
    <3>1. /\ PlacesOf(file) # {}
          /\ \A p \in PlacesOf(file) : file[p[1]][p[2]] \in DefaultTickers
          /\ OnceIn(file)
      BY <2>3, Zenon DEF NameAt, OnceIn
    <3>2. QED
      BY <2>1, <2>2, <3>1, ValidFile, Zenon
  <2>5. Readable(StreamLine(Items), TRUE)
    <3>1. StreamLine(Items).size \in Int
      BY LineSize DEF RunInv
    <3>2. StreamLine(Items).utf8 = TRUE
      BY DEF StreamLine
    <3>3. QED
      BY <3>1, <3>2 DEF Readable, MAX_COMMAND_LINE_BYTES
  <2>6. result = "ok" /\ code = IF result = "ok" THEN 0 ELSE 1
    BY <2>1, <2>4, <2>5, StreamExit, Zenon
  <2>7. QED
    BY <2>6
<1>2. QED
  BY <1>1, RunInvariant, PTL

\* Every answer fits the client's buffer, the one that says a name back
\* included (run.rs:93-97, protocol.rs:86-111, net.rs:48-69).
THEOREM HandshakeReplyReadable == RunSpec => []ReplyReadable
<1>1. RunInv => ReplyReadable
  <2> SUFFICES ASSUME RunInv PROVE reply.size + 1 <= MAX_COMMAND_LINE_BYTES
    BY DEF ReplyReadable
  <2>1. CASE reply \in {NoLine, Eof, Reset}
    BY <2>1 DEF NoLine, Eof, Reset, MAX_COMMAND_LINE_BYTES
  <2>2. CASE reply \notin {NoLine, Eof, Reset}
    <3>1. (\E g : AnsweredBy(request, reply, g)) /\ request = RunLine
      BY <2>2 DEF RunInv, OnTheWay
    <3>2. CASE mode = "stream"
      BY <2>2, <3>1, <3>2, StreamAnswerFits DEF RunLine, RunInv
    <3>3. CASE mode # "stream"
      BY <2>2, <3>1, <3>3, PingAnswerFits DEF RunLine
    <3>4. QED
      BY <3>2, <3>3
  <2>3. QED
    BY <2>1, <2>2
<1>2. QED
  BY <1>1, RunInvariant, PTL
==============================================================================

-------------------------- MODULE ChatClientProofs --------------------------
(***************************************************************************)
(* Proofs about ChatClient, for every number of sessions, prompts and      *)
(* retries: whatever the keyboard does while a reply is due, sessions stay *)
(* conversations, the statistics count each prompt once and the screen     *)
(* shows the active session.                                               *)
(***************************************************************************)
EXTENDS ChatClient, SequenceTheorems, TLAPS

Messages == [role : Roles, prompt : Nat]
Sessions == [id : Nat, title : Nat, messages : Seq(Messages)]

\* The welcome, then prompts each followed by an answer or error to it.
Dialogue(m) ==
    /\ Len(m) >= 1 /\ m[1].role = "system"
    /\ \A k \in 2..Len(m) : (m[k].role = "user") <=> (k % 2 = 0)
    /\ \A k \in 2..Len(m) : k % 2 = 1 => m[k].prompt = m[k - 1].prompt

Named(title, m) == title # 0 => \E k \in 1..Len(m) : m[k] = Message("assistant", title)

Waits(s) == loading /\ call.session = s.id

\* Only the session of the outstanding prompt ends with a prompt, that one.
Ends(s) ==
    /\ (Len(s.messages) % 2 = 0) <=> Waits(s)
    /\ Waits(s) => s.messages[Len(s.messages)].prompt = call.prompt

\* A session of this client, and a conversation.
Good(s) ==
    /\ s.id \in 1..sessionCount /\ s.title <= sent
    /\ \A k \in 1..Len(s.messages) : s.messages[k].prompt <= sent
    /\ Dialogue(s.messages) /\ Named(s.title, s.messages)

Distinct == \A i, j \in 1..Len(sessions) : sessions[i].id = sessions[j].id => i = j

Talks ==
    /\ sessions \in Seq(Sessions) /\ Len(sessions) <= sessionCount
    /\ \A i \in 1..Len(sessions) : Good(sessions[i]) /\ Ends(sessions[i])
    /\ Distinct

Scalars ==
    /\ active \in 1..Len(sessions)
    /\ sessionCount \in 1..MaxSessions /\ focus \in {"input", "sidebar"}
    /\ loading \in BOOLEAN /\ input \in {"blank", "greeting", "question"}
    /\ perf \in [total : Nat, ok : Nat, errors : Nat] /\ sent \in 0..MaxPrompts
    /\ call \in [kind : {"none", "auto", "chat"}, session : 0..sessionCount,
                 prompt : 0..sent, attempt : 0..MaxRetries]

IInv == Talks /\ Scalars /\ PerfLedger /\ ShownIsActive

-----------------------------------------------------------------------------
(* Messages.                                                               *)

LEMMA Parity ==
    ASSUME NEW n \in Nat
    PROVE  (n % 2 = 0 <=> ~(n % 2 = 1)) /\ ((n + 1) % 2 = 0 <=> n % 2 = 1)
  OBVIOUS

LEMMA MessageType ==
    ASSUME NEW role \in Roles, NEW p \in Nat
    PROVE  /\ Message(role, p) \in Messages
           /\ Message(role, p).role = role /\ Message(role, p).prompt = p
  BY DEF Message, Messages

\* A dialogue goes on with a prompt, or with the answer to the prompt it ends with.
LEMMA DialogueGoesOn ==
    ASSUME NEW m \in Seq(Messages), Dialogue(m), NEW role \in Roles, NEW p \in Nat,
           (role = "user") <=> (Len(m) % 2 = 1),
           Len(m) % 2 = 0 => m[Len(m)].prompt = p
    PROVE  Dialogue(Append(m, Message(role, p)))
  <1> DEFINE n == Len(m)
             e == Message(role, p)
             t == Append(m, e)
  <1>1. n \in Nat /\ n >= 1 /\ e \in Messages /\ e.role = role /\ e.prompt = p
    BY MessageType DEF Dialogue
  <1>2. Len(t) = n + 1 /\ t[n + 1] = e /\ \A i \in 1..n : t[i] = m[i]
    BY <1>1, AppendProperties
  <1>3. /\ m[1].role = "system"
        /\ \A k \in 2..n : (m[k].role = "user") <=> (k % 2 = 0)
        /\ \A k \in 2..n : k % 2 = 1 => m[k].prompt = m[k - 1].prompt
    BY DEF Dialogue
  <1>4. (role = "user") <=> (n % 2 = 1)
    OBVIOUS
  <1>5. n % 2 = 0 => m[n].prompt = p
    OBVIOUS
  <1> HIDE DEF n, e, t
  <1>6. t[1].role = "system"
    BY <1>1, <1>2, <1>3
  <1>7. ASSUME NEW k \in 2..(n + 1) PROVE (t[k].role = "user") <=> (k % 2 = 0)
    <2>1. CASE k = n + 1
      <3>1. (k % 2 = 0) <=> (n % 2 = 1)
        BY <1>1, <2>1
      <3> QED
        BY <1>1, <1>2, <1>4, <2>1, <3>1
    <2>2. CASE k # n + 1
      <3>1. k \in 2..n /\ k \in 1..n
        BY <1>1, <2>2
      <3> QED
        BY <1>2, <1>3, <3>1
    <2> QED
      BY <2>1, <2>2
  <1>8. ASSUME NEW k \in 2..(n + 1), k % 2 = 1 PROVE t[k].prompt = t[k - 1].prompt
    <2>1. CASE k = n + 1
      <3>1. n % 2 = 0 /\ k - 1 = n /\ n \in 1..n
        BY <1>1, <1>8, <2>1
      <3> QED
        BY <1>1, <1>2, <1>5, <2>1, <3>1
    <2>2. CASE k # n + 1
      <3>1. k \in 2..n /\ k \in 1..n /\ k - 1 \in 1..n
        BY <1>1, <2>2
      <3> QED
        BY <1>2, <1>3, <1>8, <3>1
    <2> QED
      BY <2>1, <2>2
  <1>9. Dialogue(t)
    BY <1>1, <1>2, <1>6, <1>7, <1>8 DEF Dialogue
  <1> QED
    BY <1>9 DEF t, e

\* A title stays justified when messages are added.
LEMMA NameStays ==
    ASSUME NEW m \in Seq(Messages), NEW title, Named(title, m), NEW e \in Messages
    PROVE  Named(title, Append(m, e))
  <1>1. /\ Len(m) \in Nat /\ Len(Append(m, e)) = Len(m) + 1
        /\ \A i \in 1..Len(m) : Append(m, e)[i] = m[i]
    BY AppendProperties
  <1> QED
    BY <1>1 DEF Named

-----------------------------------------------------------------------------
(* Sessions.                                                               *)

LEMMA SessionFields ==
    ASSUME NEW s \in Sessions
    PROVE  s.id \in Nat /\ s.title \in Nat /\ s.messages \in Seq(Messages)
  BY DEF Sessions

\* What holds of a session is not lost when ids and prompts are counted further.
LEMMA GoodStays ==
    ASSUME NEW s \in Sessions, Good(s), sessionCount \in Nat, sent \in Nat,
           sessionCount' \in Nat, sent' \in Nat, sessionCount' >= sessionCount, sent' >= sent
    PROVE  Good(s)'
  <1>1. s.id \in 1..sessionCount'
    BY DEF Good
  <1>2. s.title <= sent'
    BY SessionFields DEF Good
  <1>3. ASSUME NEW k \in 1..Len(s.messages) PROVE s.messages[k].prompt <= sent'
    <2>1. s.messages[k] \in Messages
      BY SessionFields, ElementOfSeq
    <2>2. s.messages[k].prompt \in Nat /\ s.messages[k].prompt <= sent
      BY <2>1 DEF Good, Messages
    <2> QED
      BY <2>2
  <1> QED
    BY <1>1, <1>2, <1>3 DEF Good

\* AppendTo changes one session, by one message.
LEMMA AppendToFacts ==
    ASSUME NEW S \in Seq(Sessions), NEW i \in 1..Len(S), NEW e \in Messages
    PROVE  /\ AppendTo(S, i, e) \in Seq(Sessions) /\ Len(AppendTo(S, i, e)) = Len(S)
           /\ \A j \in 1..Len(S) : j # i => AppendTo(S, i, e)[j] = S[j]
           /\ AppendTo(S, i, e)[i].id = S[i].id
           /\ AppendTo(S, i, e)[i].title = S[i].title
           /\ AppendTo(S, i, e)[i].messages = Append(S[i].messages, e)
  <1> DEFINE s == S[i]
             t == [s EXCEPT !.messages = Append(s.messages, e)]
  <1>1. s \in Sessions /\ s.messages \in Seq(Messages)
    BY ElementOfSeq, SessionFields
  <1>2. Append(s.messages, e) \in Seq(Messages)
    BY <1>1, AppendProperties
  <1>3. /\ t \in Sessions /\ t.id = s.id /\ t.title = s.title
        /\ t.messages = Append(s.messages, e)
    BY <1>1, <1>2 DEF Sessions
  <1>4. AppendTo(S, i, e) = [S EXCEPT ![i] = t]
    BY DEF AppendTo
  <1> HIDE DEF t
  <1>5. [S EXCEPT ![i] = t] \in Seq(Sessions) /\ Len([S EXCEPT ![i] = t]) = Len(S)
    BY <1>3, ExceptSeq
  <1>6. S \in [1..Len(S) -> Sessions]
    OBVIOUS
  <1>7. [S EXCEPT ![i] = t][i] = t /\ \A j \in 1..Len(S) : j # i => [S EXCEPT ![i] = t][j] = S[j]
    BY <1>6
  <1> QED
    BY <1>3, <1>4, <1>5, <1>7

\* RemoveAt leaves the other sessions, in order.
LEMMA RemoveAtFacts ==
    ASSUME NEW S \in Seq(Sessions), NEW i \in 1..Len(S)
    PROVE  /\ RemoveAt(S, i) \in Seq(Sessions) /\ Len(RemoveAt(S, i)) = Len(S) - 1
           /\ \A j \in 1..(Len(S) - 1) :
                /\ j < i => RemoveAt(S, i)[j] = S[j]
                /\ j >= i => RemoveAt(S, i)[j] = S[j + 1]
  <1> DEFINE n == Len(S)
             low == SubSeq(S, 1, i - 1)
             high == SubSeq(S, i + 1, n)
             r == RemoveAt(S, i)
  <1>1. n \in Nat /\ i \in 1..n /\ \A k \in 1..n : S[k] \in Sessions
    BY ElementOfSeq
  <1>2. r = low \o high
    BY DEF RemoveAt
  <1> HIDE DEF n, r
  <1>3. /\ low \in Seq(Sessions) /\ Len(low) = i - 1
        /\ \A k \in 1..(i - 1) : low[k] = S[k]
    BY <1>1, SubSeqProperties
  <1>4. /\ high \in Seq(Sessions) /\ Len(high) = n - i
        /\ \A k \in 1..(n - i) : high[k] = S[i + k]
    BY <1>1, SubSeqProperties
  <1> HIDE DEF low, high
  <1>5. /\ r \in Seq(Sessions) /\ Len(r) = n - 1
        /\ \A k \in 1..(n - 1) : r[k] = IF k <= i - 1 THEN low[k] ELSE high[k - (i - 1)]
    <2>1. (i - 1) + (n - i) = n - 1
      BY <1>1
    <2>2. /\ r \in Seq(Sessions) /\ Len(r) = Len(low) + Len(high)
          /\ \A k \in 1..(Len(low) + Len(high)) :
               r[k] = IF k <= Len(low) THEN low[k] ELSE high[k - Len(low)]
      BY <1>2, <1>3, <1>4, ConcatProperties
    <2> QED
      BY <1>3, <1>4, <2>1, <2>2
  <1>6. ASSUME NEW j \in 1..(n - 1), j < i PROVE r[j] = S[j]
    BY <1>1, <1>3, <1>5, <1>6
  <1>7. ASSUME NEW j \in 1..(n - 1), j >= i PROVE r[j] = S[j + 1]
    <2>1. /\ r[j] = high[j - (i - 1)] /\ j - (i - 1) \in 1..(n - i)
          /\ i + (j - (i - 1)) = j + 1
      BY <1>1, <1>5, <1>7
    <2> QED
      BY <1>4, <2>1
  <1> QED
    BY <1>5, <1>6, <1>7 DEF n, r

-----------------------------------------------------------------------------
(* The inductive invariant.                                                *)

LEMMA MaxFacts == MaxRetries \in Nat \ {0} /\ MaxSessions \in Nat \ {0} /\ MaxPrompts \in Nat
  BY ClientAssumption

\* A new session is a conversation that waits for nothing.
LEMMA NewSessionFacts ==
    ASSUME NEW id \in Nat
    PROVE  /\ NewSession(id) \in Sessions
           /\ NewSession(id).id = id /\ NewSession(id).title = 0
           /\ Len(NewSession(id).messages) = 1
           /\ NewSession(id).messages[1].prompt = 0
           /\ Dialogue(NewSession(id).messages) /\ Named(0, NewSession(id).messages)
  <1> DEFINE e == Message("system", 0)
             m == <<e>>
  <1>1. e \in Messages /\ e.role = "system" /\ e.prompt = 0
    BY MessageType DEF Roles
  <1>2. m \in Seq(Messages) /\ Len(m) = 1 /\ m[1] = e
    BY <1>1
  <1>3. NewSession(id) = [id |-> id, title |-> 0, messages |-> m]
    BY DEF NewSession
  <1> HIDE DEF e, m
  <1>4. Dialogue(m)
    BY <1>1, <1>2 DEF Dialogue
  <1> QED
    BY <1>1, <1>2, <1>3, <1>4 DEF Sessions, Named

LEMMA InitIInv == Init => IInv
  <1> SUFFICES ASSUME Init PROVE IInv
    OBVIOUS
  <1> DEFINE s == NewSession(1)
  <1>1. sessions = <<s>> /\ s \in Sessions
    BY NewSessionFacts DEF Init
  <1> HIDE DEF s
  <1>2. sessions \in Seq(Sessions) /\ Len(sessions) = 1 /\ sessions[1] = s
    BY <1>1
  <1>3. sessionCount = 1 /\ sent = 0 /\ loading = FALSE
    BY DEF Init
  <1>4. Good(s)
    <2>1. s.id = 1 /\ s.title = 0 /\ Len(s.messages) = 1 /\ s.messages[1].prompt = 0
      BY NewSessionFacts DEF s
    <2>2. Dialogue(s.messages) /\ Named(s.title, s.messages)
      BY <2>1, NewSessionFacts DEF s
    <2> QED
      BY <1>3, <2>1, <2>2 DEF Good
  <1>5. Ends(s)
    <2>1. Len(s.messages) = 1 /\ ~Waits(s)
      BY <1>3, NewSessionFacts DEF Waits, s
    <2> QED
      BY <2>1 DEF Ends
  <1>6. Talks
    BY <1>2, <1>3, <1>4, <1>5 DEF Talks, Distinct
  <1>7. Scalars
    <2>1. perf \in [total : Nat, ok : Nat, errors : Nat]
      BY DEF Init
    <2>2. call \in [kind : {"none", "auto", "chat"}, session : 0..sessionCount,
                    prompt : 0..sent, attempt : 0..MaxRetries]
      BY <1>3, MaxFacts DEF Init, NoCall
    <2> QED
      <3>1. active \in 1..Len(sessions)
        BY <1>2 DEF Init
      <3>2. sessionCount \in 1..MaxSessions /\ sent \in 0..MaxPrompts
        BY <1>3, MaxFacts
      <3>3. focus \in {"input", "sidebar"} /\ input \in {"blank", "greeting", "question"}
        BY DEF Init
      <3>4. loading \in BOOLEAN
        BY <1>3
      <3> QED
        BY <2>1, <2>2, <3>1, <3>2, <3>3, <3>4 DEF Scalars
  <1>8. PerfLedger /\ ShownIsActive
    BY DEF Init, PerfLedger, ShownIsActive, NoCall
  <1> QED
    BY <1>6, <1>7, <1>8 DEF IInv

\* A step that leaves the sessions and the outstanding prompt alone.
LEMMA SameSessions ==
    ASSUME Talks, UNCHANGED <<sessions, sessionCount, loading, sent>>,
           UNCHANGED <<call.session, call.prompt>>
    PROVE  Talks'
  <1>1. ASSUME NEW s PROVE Good(s) => Good(s)'
    BY DEF Good
  <1>2. ASSUME NEW s PROVE Ends(s) => Ends(s)'
    BY DEF Ends, Waits
  <1>3. \A i \in 1..Len(sessions) : Good(sessions[i])' /\ Ends(sessions[i])'
    BY <1>1, <1>2 DEF Talks
  <1> QED
    BY <1>3 DEF Talks, Distinct

\* The types the steps need again and again.
LEMMA Facts ==
    ASSUME IInv
    PROVE  /\ sessions \in Seq(Sessions) /\ Len(sessions) \in Nat /\ Len(sessions) <= sessionCount
           /\ \A i \in 1..Len(sessions) : /\ sessions[i] \in Sessions
                                          /\ Good(sessions[i]) /\ Ends(sessions[i])
           /\ Distinct /\ active \in 1..Len(sessions)
           /\ sessionCount \in Nat /\ sent \in Nat /\ loading \in BOOLEAN
           /\ call.session \in 0..sessionCount /\ call.prompt \in Nat /\ call.prompt <= sent
           /\ loading <=> call.kind # "none"
  <1>1. \A i \in 1..Len(sessions) : sessions[i] \in Sessions
    BY ElementOfSeq DEF IInv, Talks
  <1>2. call.session \in 0..sessionCount /\ call.prompt \in 0..sent
    BY DEF IInv, Scalars
  <1>3. sessionCount \in Nat /\ sent \in Nat
    BY MaxFacts DEF IInv, Scalars
  <1> QED
    BY <1>1, <1>2, <1>3 DEF IInv, Talks, Scalars, PerfLedger

\* ctrl+n: the id of the new session is not the one a reply is due for.
LEMMA CtrlNTalks == ASSUME IInv, CtrlN PROVE Talks'
  <1> DEFINE n == Len(sessions)
  <1>1. /\ sessions' = Append(sessions, NewSession(sessionCount + 1))
        /\ sessionCount' = sessionCount + 1
        /\ sent' = sent /\ loading' = loading /\ call' = call
    BY DEF CtrlN
  <1>2. PICK s \in Sessions :
          /\ s = NewSession(sessionCount + 1) /\ s.id = sessionCount + 1
          /\ s.title = 0 /\ Len(s.messages) = 1 /\ s.messages[1].prompt = 0
          /\ Dialogue(s.messages) /\ Named(0, s.messages)
    <2>1. sessionCount + 1 \in Nat
      BY Facts
    <2> QED
      BY <2>1, NewSessionFacts
  <1>3. /\ sessions' \in Seq(Sessions) /\ Len(sessions') = n + 1 /\ n \in Nat
        /\ sessions'[n + 1] = s /\ \A i \in 1..n : sessions'[i] = sessions[i]
    BY <1>1, <1>2, Facts, AppendProperties
  <1>4. Good(s)' /\ Ends(s)'
    <2>1. s.id \in 1..sessionCount' /\ s.title <= sent'
      BY <1>1, <1>2, Facts
    <2>2. \A k \in 1..Len(s.messages) : s.messages[k].prompt <= sent'
      BY <1>1, <1>2, Facts
    <2>3. call'.session # s.id
      BY <1>1, <1>2, Facts
    <2>4. ~(Len(s.messages) % 2 = 0)
      <3>1. Len(s.messages) = 1
        BY <1>2
      <3> QED
        BY <3>1
    <2> QED
      BY <1>2, <2>1, <2>2, <2>3, <2>4 DEF Good, Ends, Waits
  <1>5. ASSUME NEW i \in 1..Len(sessions') PROVE Good(sessions[i])' /\ Ends(sessions[i])'
    <2>1. CASE i \in 1..n
      <3>1. sessions[i] \in Sessions /\ Good(sessions[i]) /\ Ends(sessions[i])
        BY <2>1, Facts
      <3>2. PICK x \in Sessions : x = sessions[i] /\ x = sessions'[i]
        BY <1>3, <2>1, <3>1
      <3>3. Good(x)'
        BY <1>1, <3>1, <3>2, Facts, GoodStays
      <3>4. Ends(x)'
        BY <1>1, <3>1, <3>2 DEF Ends, Waits
      <3> QED
        BY <3>2, <3>3, <3>4
    <2>2. CASE i = n + 1
      <3>1. sessions'[i] = s
        BY <1>3, <2>2
      <3> QED
        BY <1>4, <3>1
    <2> QED
      BY <1>3, <2>1, <2>2
  <1>6. Distinct'
    <2>1. \A i \in 1..n : sessions[i].id # s.id
      BY <1>2, Facts DEF Good
    <2> SUFFICES ASSUME NEW i \in 1..(n + 1), NEW j \in 1..(n + 1),
                        sessions'[i].id = sessions'[j].id
                 PROVE  i = j
      BY <1>3 DEF Distinct
    <2>2. (i \in 1..n \/ i = n + 1) /\ (j \in 1..n \/ j = n + 1)
      BY <1>3
    <2> QED
      BY <1>3, <2>1, <2>2, Facts DEF Distinct
  <1> QED
    <2>1. Len(sessions') <= sessionCount'
      BY <1>1, <1>3, Facts
    <2> QED
      BY <1>3, <1>5, <1>6, <2>1 DEF Talks

\* ctrl+d: the others are left as they are.
LEMMA CtrlDTalks == ASSUME IInv, CtrlD PROVE Talks'
  <1> DEFINE n == Len(sessions)
             Old(i) == IF i < active THEN i ELSE i + 1
  <1>1. /\ sessions' = RemoveAt(sessions, active) /\ n > 1
        /\ sessionCount' = sessionCount /\ sent' = sent /\ loading' = loading /\ call' = call
    BY DEF CtrlD
  <1>2. n \in Nat /\ active \in 1..n
    BY Facts
  <1>3. /\ sessions' \in Seq(Sessions) /\ Len(sessions') = n - 1
        /\ \A i \in 1..(n - 1) : sessions'[i] = sessions[Old(i)] /\ Old(i) \in 1..n
    <2>1. /\ sessions' \in Seq(Sessions) /\ Len(sessions') = n - 1
          /\ \A i \in 1..(n - 1) :
               /\ i < active => sessions'[i] = sessions[i]
               /\ i >= active => sessions'[i] = sessions[i + 1]
      BY <1>1, <1>2, Facts, RemoveAtFacts
    <2> QED
      BY <1>2, <2>1
  <1>4. ASSUME NEW i \in 1..Len(sessions') PROVE Good(sessions[i])' /\ Ends(sessions[i])'
    <2>1. sessions[Old(i)] \in Sessions /\ Good(sessions[Old(i)]) /\ Ends(sessions[Old(i)])
      BY <1>3, Facts
    <2>2. PICK x \in Sessions : x = sessions[Old(i)] /\ x = sessions'[i]
      BY <1>3, <2>1
    <2> HIDE DEF Old
    <2>3. Good(x)'
      BY <1>1, <2>1, <2>2, Facts, GoodStays
    <2>4. Ends(x)'
      BY <1>1, <2>1, <2>2 DEF Ends, Waits
    <2> QED
      BY <2>2, <2>3, <2>4
  <1>5. Distinct'
    <2> SUFFICES ASSUME NEW i \in 1..(n - 1), NEW j \in 1..(n - 1),
                        sessions'[i].id = sessions'[j].id
                 PROVE  i = j
      BY <1>3 DEF Distinct
    <2>1. Old(i) = Old(j)
      <3> HIDE DEF Old
      <3> QED
        BY <1>3, Facts DEF Distinct
    <2> QED
      BY <1>2, <2>1
  <1> QED
    <2>1. Len(sessions') <= sessionCount'
      BY <1>1, <1>2, <1>3, Facts
    <2> QED
      BY <1>3, <1>4, <1>5, <2>1 DEF Talks

\* enter: nothing was due, so every session ends with an answer, and only the active
\* one ends with a prompt now.
LEMMA EnterTalks == ASSUME IInv, Enter PROVE Talks'
  <1> DEFINE n == Len(sessions)
  <1>1. /\ ~loading /\ loading' = TRUE /\ sent' = sent + 1 /\ sessionCount' = sessionCount
        /\ sessions' = AppendTo(sessions, active, Message("user", sent + 1))
        /\ call'.session = sessions[active].id /\ call'.prompt = sent + 1
        /\ active' = active
    BY DEF Enter
  <1>2. PICK e \in Messages : e = Message("user", sent + 1) /\ e.role = "user" /\ e.prompt = sent + 1
    <2>1. sent + 1 \in Nat /\ "user" \in Roles
      BY Facts DEF Roles
    <2> QED
      BY <2>1, MessageType
  <1>3. /\ sessions' \in Seq(Sessions) /\ Len(sessions') = n /\ n \in Nat /\ active \in 1..n
        /\ \A j \in 1..n : j # active => sessions'[j] = sessions[j]
        /\ sessions'[active].id = sessions[active].id
        /\ sessions'[active].title = sessions[active].title
        /\ sessions'[active].messages = Append(sessions[active].messages, e)
    BY <1>1, <1>2, Facts, AppendToFacts
  <1>4. ASSUME NEW i \in 1..n, NEW s \in Sessions, s = sessions[i]
        PROVE  Good(s) /\ Good(s)' /\ Len(s.messages) % 2 = 1
    <2>1. Good(s) /\ Ends(s)
      BY <1>4, Facts
    <2>2. Good(s)'
      BY <1>1, <2>1, Facts, GoodStays
    <2>3. ~(Len(s.messages) % 2 = 0) /\ Len(s.messages) \in Nat
      <3>1. Len(s.messages) \in Nat
        BY SessionFields, LenProperties
      <3> QED
        BY <1>1, <2>1, <3>1 DEF Ends, Waits
    <2>4. Len(s.messages) % 2 = 1
      BY <2>3, Parity, Zenon
    <2> QED
      BY <2>1, <2>2, <2>4
  <1>5. ASSUME NEW i \in 1..Len(sessions') PROVE Good(sessions[i])' /\ Ends(sessions[i])'
    <2>1. i \in 1..n
      BY <1>3
    <2>2. PICK s \in Sessions : s = sessions[i]
      BY <2>1, Facts
    <2>3. Good(s) /\ Good(s)' /\ Len(s.messages) % 2 = 1
      BY <1>4, <2>1, <2>2
    <2>4. CASE i # active
      <3>1. sessions'[i] = s
        BY <1>3, <2>1, <2>2, <2>4
      <3>2. s.id # call'.session
        BY <1>1, <2>1, <2>2, <2>4, Facts DEF Distinct
      <3>3. Ends(s)'
        <4>1. Len(s.messages) \in Nat
          BY SessionFields, LenProperties
        <4>2. ~(Len(s.messages) % 2 = 0)
          BY <2>3, <4>1, Parity, Zenon
        <4> QED
          BY <3>2, <4>2, Zenon DEF Ends, Waits
      <3> QED
        BY <2>3, <3>1, <3>3
    <2>5. CASE i = active
      <3>1. PICK t \in Sessions :
              /\ t = sessions'[i] /\ t.id = s.id /\ t.title = s.title
              /\ t.messages = Append(s.messages, e)
        <4>1. sessions'[i] \in Sessions
          BY <1>3, ElementOfSeq
        <4> QED
          BY <1>3, <2>2, <2>5, <4>1
      <3> DEFINE m == s.messages
                 r == t.messages
                 k == Len(m)
      <3>2. m \in Seq(Messages) /\ k \in Nat /\ s.title \in Nat /\ s.id \in Nat
        BY SessionFields, LenProperties
      <3>3. /\ r \in Seq(Messages) /\ Len(r) = k + 1 /\ r[k + 1] = e
            /\ \A j \in 1..k : r[j] = m[j]
        BY <3>1, <3>2, AppendProperties
      <3>4. Dialogue(r)
        <4>1. Dialogue(m) /\ (("user" = "user") <=> (Len(m) % 2 = 1)) /\ ~(Len(m) % 2 = 0)
          BY <2>3, <3>2, Parity, Zenon DEF Good
        <4>2. sent + 1 \in Nat /\ "user" \in Roles
          BY Facts DEF Roles
        <4> QED
          BY <1>2, <3>1, <3>2, <4>1, <4>2, DialogueGoesOn
      <3>5. Named(t.title, r)
        BY <2>3, <3>1, <3>2, NameStays DEF Good
      <3> HIDE DEF m, r, k
      <3>6. \A j \in 1..(k + 1) : r[j].prompt <= sent'
        <4>1. \A j \in 1..k : m[j].prompt <= sent'
          BY <2>3 DEF Good, m, k
        <4>2. e.prompt <= sent'
          BY <1>1, <1>2, Facts
        <4>3. \A j \in 1..(k + 1) : j \in 1..k \/ j = k + 1
          BY <3>2
        <4> QED
          BY <3>3, <4>1, <4>2, <4>3
      <3>7. Good(t)'
        BY <2>3, <3>1, <3>3, <3>4, <3>5, <3>6 DEF Good, r
      <3>8. Ends(t)'
        <4>1. call'.session = t.id /\ call'.prompt = sent + 1 /\ loading'
          BY <1>1, <2>2, <2>5, <3>1
        <4>2. (k + 1) % 2 = 0
          <5>1. k % 2 = 1
            BY <2>3 DEF k, m
          <5> QED
            BY <3>2, <5>1, Parity, Zenon
        <4>3. Len(t.messages) = k + 1 /\ t.messages[k + 1] = e
          BY <3>3 DEF r
        <4> QED
          BY <1>2, <4>1, <4>2, <4>3 DEF Ends, Waits
      <3> QED
        BY <3>1, <3>7, <3>8
    <2> QED
      BY <2>4, <2>5
  <1>6. Distinct'
    <2>1. \A i \in 1..n : sessions'[i].id = sessions[i].id
      BY <1>3
    <2> QED
      BY <1>3, <2>1, Facts DEF Distinct
  <1> QED
    <2>1. Len(sessions') <= sessionCount'
      BY <1>1, <1>3, Facts
    <2> QED
      BY <1>3, <1>5, <1>6, <2>1 DEF Talks

\* The answer or error of the outstanding prompt, and perhaps a title: what a
\* delivery makes of the sessions.
Answers(S, role) ==
    /\ S \in Seq(Sessions) /\ Len(S) = Len(sessions)
    /\ \A i \in 1..Len(sessions) :
         /\ S[i].id = sessions[i].id
         /\ sessions[i].id # call.session => S[i] = sessions[i]
         /\ sessions[i].id = call.session =>
              S[i].messages = Append(sessions[i].messages, Message(role, call.prompt))
         /\ \/ S[i].title = sessions[i].title
            \/ sessions[i].id = call.session /\ role = "assistant" /\ S[i].title = call.prompt

LEMMA DeliveredAnswers ==
    ASSUME IInv, NEW role \in Roles
    PROVE  /\ Answers(Delivered(role), role)
           /\ \A i \in 1..Len(sessions) : Delivered(role)[i].title = sessions[i].title
  <1> DEFINE n == Len(sessions)
  <1>1. PICK e \in Messages : e = Message(role, call.prompt)
    BY Facts, MessageType
  <1>2. CASE IndexOf(call.session) = {}
    <2>1. Delivered(role) = sessions
      BY <1>2 DEF Delivered
    <2>2. \A i \in 1..n : sessions[i].id # call.session
      BY <1>2 DEF IndexOf
    <2> QED
      BY <2>1, <2>2, Facts DEF Answers
  <1>3. CASE IndexOf(call.session) # {}
    <2>1. PICK i \in IndexOf(call.session) : i = CHOOSE x \in IndexOf(call.session) : TRUE
      BY <1>3
    <2>2. Delivered(role) = AppendTo(sessions, i, e)
      BY <1>1, <1>3, <2>1 DEF Delivered
    <2>3. i \in 1..n /\ sessions[i].id = call.session
      BY DEF IndexOf
    <2>4. \A j \in 1..n : j # i => sessions[j].id # call.session
      BY <2>3, Facts DEF Distinct
    <2> DEFINE S == AppendTo(sessions, i, e)
    <2>5. /\ S \in Seq(Sessions) /\ Len(S) = n
          /\ \A j \in 1..n : j # i => S[j] = sessions[j]
          /\ S[i].id = sessions[i].id /\ S[i].title = sessions[i].title
          /\ S[i].messages = Append(sessions[i].messages, e)
      BY <2>3, Facts, AppendToFacts
    <2> HIDE DEF S
    <2>6. Answers(S, role) /\ \A j \in 1..n : S[j].title = sessions[j].title
      BY <1>1, <2>3, <2>4, <2>5 DEF Answers
    <2> QED
      BY <2>2, <2>6 DEF S
  <1> QED
    BY <1>2, <1>3

\* The first answer of the master may name its session.
LEMMA TitledAnswers ==
    ASSUME IInv, NEW empty \in BOOLEAN
    PROVE  Answers(Titled(Delivered("assistant"), empty), "assistant")
  <1> DEFINE D == Delivered("assistant")
             T == Titled(D, empty)
             n == Len(sessions)
  <1>1. /\ Answers(D, "assistant")
        /\ \A i \in 1..n : D[i].title = sessions[i].title
    BY DeliveredAnswers DEF Roles
  <1>2. D \in Seq(Sessions) /\ Len(D) = n /\ n \in Nat /\ \A i \in 1..n : D[i] \in Sessions
    BY <1>1, Facts, ElementOfSeq DEF Answers
  <1> HIDE DEF D
  <1>3. call.prompt \in Nat
    BY Facts
  <1>4. T = [i \in 1..n |-> IF D[i].id = call.session /\ D[i].title = 0 /\ ~empty
                            THEN [D[i] EXCEPT !.title = call.prompt] ELSE D[i]]
    BY <1>2 DEF Titled
  <1> HIDE DEF T, n
  <1>5. ASSUME NEW i \in 1..n
        PROVE  /\ T[i] \in Sessions /\ T[i].id = D[i].id /\ T[i].messages = D[i].messages
               /\ \/ T[i] = D[i]
                  \/ D[i].id = call.session /\ T[i].title = call.prompt
    <2>1. CASE D[i].id = call.session /\ D[i].title = 0 /\ ~empty
      <3>1. T[i] = [D[i] EXCEPT !.title = call.prompt]
        BY <1>4, <2>1
      <3> QED
        BY <1>2, <1>3, <2>1, <3>1 DEF Sessions
    <2>2. CASE ~(D[i].id = call.session /\ D[i].title = 0 /\ ~empty)
      <3>1. T[i] = D[i]
        BY <1>4, <2>2
      <3> QED
        BY <1>2, <3>1
    <2> QED
      BY <2>1, <2>2
  <1>6. T \in Seq(Sessions) /\ Len(T) = n
    <2>1. T \in [1..n -> Sessions]
      BY <1>4, <1>5
    <2> QED
      BY <1>2, <2>1
  <1>7. Answers(T, "assistant")
    BY <1>1, <1>2, <1>5, <1>6 DEF Answers, n
  <1> QED
    BY <1>7 DEF T, D

\* An outcome: the session of the prompt, if it is still there, ends with its answer.
LEMMA OutcomeTalks ==
    ASSUME IInv, NEW role \in {"assistant", "error"}, NEW S, Answers(S, role), sessions' = S,
           loading, loading' = FALSE, sessionCount' = sessionCount, sent' = sent
    PROVE  Talks'
  <1> DEFINE n == Len(sessions)
  <1>1. /\ S \in Seq(Sessions) /\ Len(S) = n /\ n \in Nat
        /\ \A i \in 1..n : S[i] \in Sessions /\ S[i].id = sessions[i].id
    BY Facts, ElementOfSeq DEF Answers
  <1>2. PICK e \in Messages : /\ e = Message(role, call.prompt)
                              /\ e.role = role /\ e.prompt = call.prompt
    <2>1. role \in Roles
      BY DEF Roles
    <2> QED
      BY <2>1, Facts, MessageType
  <1>3. ASSUME NEW i \in 1..Len(sessions') PROVE Good(sessions[i])' /\ Ends(sessions[i])'
    <2>1. i \in 1..n
      BY <1>1
    <2>2. PICK s \in Sessions : s = sessions[i]
      BY <2>1, Facts
    <2>3. Good(s) /\ Ends(s)
      BY <2>1, <2>2, Facts
    <2>4. Good(s)'
      BY <2>3, Facts, GoodStays
    <2>5. s.messages \in Seq(Messages) /\ Len(s.messages) \in Nat
      BY SessionFields, LenProperties
    <2>6. CASE s.id # call.session
      <3>1. sessions'[i] = s
        BY <2>1, <2>2, <2>6 DEF Answers
      <3>2. ~(Len(s.messages) % 2 = 0)
        BY <2>3, <2>6 DEF Ends, Waits
      <3>3. Ends(s)'
        BY <3>2, Zenon DEF Ends, Waits
      <3> QED
        BY <2>4, <3>1, <3>3
    <2>7. CASE s.id = call.session
      <3>1. PICK t \in Sessions :
              /\ t = sessions'[i] /\ t.id = s.id /\ t.messages = Append(s.messages, e)
              /\ t.title = s.title \/ (role = "assistant" /\ t.title = call.prompt)
        BY <1>1, <1>2, <2>1, <2>2, <2>7 DEF Answers
      <3> DEFINE m == s.messages
                 r == t.messages
                 k == Len(m)
      <3>2. /\ m \in Seq(Messages) /\ k \in Nat
            /\ s.title \in Nat /\ s.title <= sent /\ s.id \in Nat
        BY <2>3, <2>5, SessionFields DEF Good
      <3>3. /\ r \in Seq(Messages) /\ Len(r) = k + 1 /\ r[k + 1] = e
            /\ \A j \in 1..k : r[j] = m[j]
        BY <3>1, <3>2, AppendProperties
      <3>4. k % 2 = 0 /\ m[k].prompt = call.prompt
        BY <2>3, <2>7, Zenon DEF Ends, Waits
      <3>5. Dialogue(r)
        <4>1. Dialogue(m)
          BY <2>3 DEF Good
        <4>2. (role = "user") <=> (k % 2 = 1)
          <5>1. ~(k % 2 = 1)
            BY <3>2, <3>4, Parity, Zenon
          <5>2. role # "user"
            OBVIOUS
          <5> QED
            BY <5>1, <5>2
        <4>3. role \in Roles /\ call.prompt \in Nat
          BY Facts DEF Roles
        <4> QED
          BY <1>2, <3>1, <3>2, <3>4, <4>1, <4>2, <4>3, DialogueGoesOn
      <3>6. Named(t.title, r)
        <4>1. CASE t.title = s.title
          BY <2>3, <3>1, <3>2, <4>1, NameStays DEF Good
        <4>2. CASE role = "assistant" /\ t.title = call.prompt
          <5>1. r[k + 1] = Message("assistant", t.title) /\ k + 1 \in 1..Len(r)
            BY <1>2, <3>2, <3>3, <4>2
          <5> QED
            BY <5>1 DEF Named
        <4> QED
          BY <3>1, <4>1, <4>2
      <3> HIDE DEF m, r, k
      <3>7. \A j \in 1..(k + 1) : r[j].prompt <= sent'
        <4>1. \A j \in 1..k : m[j].prompt <= sent'
          BY <2>4 DEF Good, m, k
        <4>2. e.prompt <= sent'
          BY <1>2, Facts
        <4>3. \A j \in 1..(k + 1) : j \in 1..k \/ j = k + 1
          BY <3>2
        <4> QED
          BY <3>3, <4>1, <4>2, <4>3
      <3>8. t.title <= sent'
        BY <3>1, <3>2, Facts
      <3>9. Good(t)'
        BY <2>4, <3>1, <3>3, <3>5, <3>6, <3>7, <3>8 DEF Good, r
      <3>10. Ends(t)'
        <4>1. ~((k + 1) % 2 = 0)
          BY <3>2, <3>4, Parity, Zenon
        <4>2. ~(Len(t.messages) % 2 = 0)
          BY <3>3, <4>1, Zenon DEF r
        <4> QED
          BY <4>2, Zenon DEF Ends, Waits
      <3> QED
        BY <3>1, <3>9, <3>10
    <2> QED
      BY <2>6, <2>7
  <1>4. Distinct'
    BY <1>1, Facts DEF Distinct
  <1> QED
    <2>1. Len(sessions') <= sessionCount'
      BY <1>1, Facts
    <2> QED
      BY <1>1, <1>3, <1>4, <2>1 DEF Talks

LEMMA TalksStep == IInv /\ [Next]_vars => Talks'
  <1> SUFFICES ASSUME IInv, [Next]_vars
               PROVE  Talks'
    OBVIOUS
  <1>1. ASSUME UNCHANGED <<sessions, sessionCount, loading, sent>>,
               UNCHANGED <<call.session, call.prompt>>
        PROVE  Talks'
    BY <1>1, SameSessions DEF IInv
  <1>2. CASE Relayout \/ Tab \/ Up \/ Down \/ \E text \in {"blank", "greeting", "question"} : Type(text)
    BY <1>1, <1>2 DEF Relayout, Tab, Up, Down, Move, Type
  <1>3. CASE Retry
    <2>1. call'.session = call.session /\ call'.prompt = call.prompt
      BY <1>3 DEF Retry, IInv, Scalars
    <2> QED
      BY <1>1, <1>3, <2>1 DEF Retry
  <1>4. CASE AutoReply
    <2>1. loading
      BY <1>4, Facts DEF AutoReply
    <2>2. Answers(Delivered("assistant"), "assistant")
      BY DeliveredAnswers DEF Roles
    <2> QED
      BY <1>4, <2>1, <2>2, OutcomeTalks DEF AutoReply, Answered, Deliver
  <1>5. CASE ChatError
    <2>1. loading
      BY <1>5, Facts DEF ChatError
    <2>2. Answers(Delivered("error"), "error")
      BY DeliveredAnswers DEF Roles
    <2> QED
      BY <1>5, <2>1, <2>2, OutcomeTalks DEF ChatError, Answered, Deliver
  <1>6. CASE ChatResponse
    <2>1. loading
      BY <1>6, Facts DEF ChatResponse
    <2>2. PICK empty \in BOOLEAN : sessions' = Titled(Delivered("assistant"), empty)
      BY <1>6 DEF ChatResponse
    <2>3. Answers(Titled(Delivered("assistant"), empty), "assistant")
      BY TitledAnswers
    <2> QED
      BY <1>6, <2>1, <2>2, <2>3, OutcomeTalks DEF ChatResponse, Answered
  <1>7. CASE UNCHANGED vars
    BY <1>1, <1>7 DEF vars
  <1> QED
    BY <1>2, <1>3, <1>4, <1>5, <1>6, <1>7, CtrlNTalks, CtrlDTalks, EnterTalks
    DEF Next, Key, Outcome

-----------------------------------------------------------------------------
(* The scalars, the statistics and the screen.                             *)

\* What is on the screen: the id of a session and how many messages it has.
Screen(S, a) == <<S[a].id, Len(S[a].messages)>>

\* A step selects a session that exists, and renders it whenever it changes the
\* list, the selection or the screen.
LEMMA Selection ==
    ASSUME IInv, [Next]_vars
    PROVE  /\ active' \in 1..Len(sessions')
           /\ \/ shown' = Screen(sessions', active')
              \/ UNCHANGED <<sessions, active, shown>>
  <1> DEFINE n == Len(sessions)
             Goal == /\ active' \in 1..Len(sessions')
                     /\ \/ shown' = Screen(sessions', active')
                        \/ UNCHANGED <<sessions, active, shown>>
  <1>1. n \in Nat /\ active \in 1..n /\ sessions \in Seq(Sessions) /\ sessionCount \in Nat
    BY Facts
  <1>2. ASSUME NEW S, NEW a \in Nat, a <= Len(S), Len(S) \in Nat
        PROVE  Refresh(S, a) = Screen(S, a)
    BY <1>2 DEF Refresh, Screen
  <1>3. ASSUME Len(sessions') \in Nat, active' \in 1..Len(sessions'),
               shown' = Refresh(sessions', active')
        PROVE  Goal
    <2>1. shown' = Screen(sessions', active')
      BY <1>2, <1>3
    <2> QED
      BY <1>3, <2>1
  <1>4. ASSUME UNCHANGED <<sessions, active, shown>> PROVE Goal
    BY <1>1, <1>4
  <1>5. ASSUME NEW S, NEW role, Answers(S, role), sessions' = S, active' = active,
               shown' = Refresh(sessions', active)
        PROVE  Goal
    BY <1>1, <1>3, <1>5 DEF Answers
  <1> SUFFICES Goal
    OBVIOUS
  <1> HIDE DEF Goal
  <1>6. CASE Relayout
    BY <1>1, <1>3, <1>6 DEF Relayout
  <1>7. CASE Tab \/ Retry \/ (\E text \in {"blank", "greeting", "question"} : Type(text))
             \/ UNCHANGED vars
    BY <1>4, <1>7 DEF Tab, Retry, Type, vars
  <1>8. CASE Up \/ Down
    BY <1>1, <1>3, <1>8 DEF Up, Down, Move
  <1>9. CASE CtrlN
    <2>1. NewSession(sessionCount + 1) \in Sessions
      BY <1>1, NewSessionFacts
    <2>2. Len(sessions') = n + 1
      BY <1>1, <1>9, <2>1, AppendProperties DEF CtrlN
    <2> QED
      BY <1>1, <1>3, <1>9, <2>2 DEF CtrlN
  <1>10. CASE CtrlD
    <2>1. Len(sessions') = n - 1 /\ n > 1
      BY <1>1, <1>10, RemoveAtFacts DEF CtrlD
    <2>2. active' \in 1..Len(sessions')
      BY <1>1, <1>10, <2>1 DEF CtrlD
    <2> QED
      BY <1>1, <1>3, <1>10, <2>1, <2>2 DEF CtrlD
  <1>11. CASE Enter
    <2>1. Message("user", sent + 1) \in Messages
      BY Facts, MessageType DEF Roles
    <2>2. Len(sessions') = n
      BY <1>1, <1>11, <2>1, AppendToFacts DEF Enter
    <2> QED
      BY <1>1, <1>3, <1>11, <2>2 DEF Enter
  <1>12. CASE AutoReply \/ ChatError
    BY <1>5, <1>12, DeliveredAnswers DEF AutoReply, ChatError, Deliver, Roles
  <1>13. CASE ChatResponse
    BY <1>5, <1>13, TitledAnswers DEF ChatResponse
  <1> QED
    BY <1>6, <1>7, <1>8, <1>9, <1>10, <1>11, <1>12, <1>13 DEF Next, Key, Outcome

LEMMA ShownStep == IInv /\ [Next]_vars => ShownIsActive'
  <1> SUFFICES ASSUME IInv, [Next]_vars PROVE ShownIsActive'
    OBVIOUS
  <1>1. CASE shown' = Screen(sessions', active')
    BY <1>1 DEF ShownIsActive, Screen
  <1>2. CASE UNCHANGED <<sessions, active, shown>>
    BY <1>2 DEF IInv, ShownIsActive
  <1> QED
    BY <1>1, <1>2, Selection

\* Whose prompt is due, and which attempt it is.
Calls(count, last) ==
    [kind : {"none", "auto", "chat"}, session : 0..count, prompt : 0..last,
     attempt : 0..MaxRetries]

\* Count adds one to the total and to one of its two parts.
LEMMA Counted ==
    ASSUME IInv, NEW field \in {"ok", "errors"}, Count(field)
    PROVE  /\ perf' \in [total : Nat, ok : Nat, errors : Nat]
           /\ perf'.total = perf'.ok + perf'.errors /\ perf'.total = perf.total + 1
  <1>1. perf \in [total : Nat, ok : Nat, errors : Nat] /\ perf.total = perf.ok + perf.errors
    BY DEF IInv, Scalars, PerfLedger
  <1>2. PICK x \in Nat, y \in Nat, z \in Nat :
          /\ perf = [total |-> x, ok |-> y, errors |-> z] /\ x = y + z
    BY <1>1
  <1>3. CASE field = "ok"
    <2>1. perf' = [total |-> x + 1, ok |-> y + 1, errors |-> z]
      BY <1>2, <1>3 DEF Count
    <2> QED
      BY <1>2, <2>1
  <1>4. CASE field = "errors"
    <2>1. perf' = [total |-> x + 1, ok |-> y, errors |-> z + 1]
      BY <1>2, <1>4 DEF Count
    <2> QED
      BY <1>2, <2>1
  <1> QED
    BY <1>3, <1>4

\* A prompt is outstanding when its outcome arrives, and none is afterwards.
LEMMA Settled ==
    ASSUME IInv, AutoReply \/ ChatResponse \/ ChatError
    PROVE  /\ loading /\ loading' = FALSE /\ call' = NoCall /\ sent' = sent
           /\ \E field \in {"ok", "errors"} : Count(field)
           /\ UNCHANGED <<sessionCount, focus, input>>
  <1>1. loading
    BY Facts DEF AutoReply, ChatResponse, ChatError
  <1> QED
    BY <1>1 DEF AutoReply, ChatResponse, ChatError, Answered

LEMMA LedgerStep == IInv /\ [Next]_vars => PerfLedger'
  <1> SUFFICES ASSUME IInv, [Next]_vars PROVE PerfLedger'
    OBVIOUS
  <1>1. PerfLedger /\ perf.total \in Nat /\ sent \in Nat /\ loading \in BOOLEAN
    BY Facts DEF IInv, Scalars
  <1>2. ASSUME UNCHANGED <<perf, sent, loading>>, call'.kind = call.kind PROVE PerfLedger'
    BY <1>1, <1>2 DEF PerfLedger
  <1>3. CASE UNCHANGED vars \/ (Key /\ ~Enter)
    BY <1>2, <1>3 DEF vars, Key, Relayout, Tab, Up, Down, Move, Type, CtrlN, CtrlD
  <1>4. CASE Retry
    <2>1. call'.kind = call.kind
      BY <1>4 DEF Retry, IInv, Scalars
    <2> QED
      BY <1>2, <1>4, <2>1 DEF Retry
  <1>5. CASE Enter
    <2>1. ~loading /\ loading' = TRUE /\ sent' = sent + 1 /\ perf' = perf
      BY <1>5 DEF Enter
    <2>2. call'.kind # "none"
      BY <1>5 DEF Enter
    <2> QED
      BY <1>1, <2>1, <2>2 DEF PerfLedger
  <1>6. CASE AutoReply \/ ChatResponse \/ ChatError
    <2>1. loading /\ loading' = FALSE /\ sent' = sent /\ call' = NoCall
      BY <1>6, Settled
    <2>2. perf'.total = perf'.ok + perf'.errors /\ perf'.total = perf.total + 1
      BY <1>6, Settled, Counted
    <2> QED
      BY <1>1, <2>1, <2>2 DEF PerfLedger, NoCall
  <1> QED
    BY <1>3, <1>4, <1>5, <1>6 DEF Next, Outcome

LEMMA ScalarsStep == IInv /\ [Next]_vars => Scalars'
  <1> SUFFICES ASSUME IInv, [Next]_vars PROVE Scalars'
    OBVIOUS
  <1> DEFINE Modes == /\ focus \in {"input", "sidebar"} /\ loading \in BOOLEAN
                      /\ input \in {"blank", "greeting", "question"}
             Perfs == [total : Nat, ok : Nat, errors : Nat]
  <1>1. /\ Modes /\ perf \in Perfs /\ call \in Calls(sessionCount, sent)
        /\ sessionCount \in 1..MaxSessions /\ sent \in 0..MaxPrompts
    BY DEF IInv, Scalars, Calls
  <1>2. ASSUME Modes', perf' \in Perfs, call' \in Calls(sessionCount', sent'),
               sessionCount' \in 1..MaxSessions, sent' \in 0..MaxPrompts
        PROVE  Scalars'
    BY <1>2, Selection DEF Scalars, Calls
  <1>3. CASE UNCHANGED vars
    BY <1>1, <1>2, <1>3 DEF vars
  <1>4. CASE Relayout \/ Tab \/ Up \/ Down \/ CtrlD
             \/ \E text \in {"blank", "greeting", "question"} : Type(text)
    BY <1>1, <1>2, <1>4 DEF Relayout, Tab, Up, Down, Move, Type, CtrlD
  <1>5. CASE CtrlN
    <2>1. sessionCount' \in 1..MaxSessions
      BY <1>1, <1>5, MaxFacts DEF CtrlN
    <2>2. call' \in Calls(sessionCount', sent')
      <3>1. sessionCount' = sessionCount + 1 /\ sent' = sent /\ call' = call /\ sessionCount \in Nat
        BY <1>5, Facts DEF CtrlN
      <3>2. 0..sessionCount \subseteq 0..sessionCount'
        BY <3>1
      <3> QED
        BY <1>1, <3>1, <3>2 DEF Calls
    <2> QED
      BY <1>1, <1>2, <1>5, <2>1, <2>2 DEF CtrlN
  <1>6. CASE Enter
    <2>1. sent' = sent + 1 /\ sent < MaxPrompts /\ sessionCount' = sessionCount
      BY <1>6 DEF Enter
    <2>2. sent' \in 0..MaxPrompts
      BY <1>1, <2>1, MaxFacts
    <2>3. call' \in Calls(sessionCount', sent')
      <3>1. PICK kind \in {"auto", "chat"} :
              call' = [kind |-> kind, session |-> sessions[active].id,
                       prompt |-> sent', attempt |-> 1]
        BY <1>6 DEF Enter
      <3>2. sessions[active].id \in 0..sessionCount'
        BY <2>1, Facts DEF Good
      <3>3. sent' \in 0..sent' /\ 1 \in 0..MaxRetries
        BY <2>2, MaxFacts
      <3> QED
        BY <3>1, <3>2, <3>3 DEF Calls
    <2> QED
      BY <1>1, <1>2, <1>6, <2>1, <2>2, <2>3 DEF Enter
  <1>7. CASE Retry
    <2>1. /\ call.attempt < MaxRetries /\ call' = [call EXCEPT !.attempt = @ + 1]
          /\ UNCHANGED <<sessionCount, sent, focus, loading, input, perf>>
      BY <1>7 DEF Retry
    <2>2. call.attempt + 1 \in 0..MaxRetries
      BY <1>1, <2>1, MaxFacts DEF Calls
    <2>3. call' \in Calls(sessionCount', sent')
      BY <1>1, <2>1, <2>2 DEF Calls
    <2> QED
      BY <1>1, <1>2, <2>1, <2>3
  <1>8. CASE AutoReply \/ ChatResponse \/ ChatError
    <2>1. /\ loading' = FALSE /\ call' = NoCall
          /\ UNCHANGED <<sessionCount, sent, focus, input>>
      BY <1>8, Settled
    <2>2. perf' \in Perfs
      BY <1>8, Settled, Counted
    <2>3. NoCall \in Calls(sessionCount, sent)
      BY <1>1, MaxFacts DEF NoCall, Calls
    <2> QED
      BY <1>1, <1>2, <2>1, <2>2, <2>3
  <1> QED
    BY <1>3, <1>4, <1>5, <1>6, <1>7, <1>8 DEF Next, Key, Outcome

-----------------------------------------------------------------------------
(* The theorems.                                                           *)

LEMMA InductiveInvariant == Spec => []IInv
  <1>1. IInv /\ [Next]_vars => IInv'
    BY TalksStep, ScalarsStep, LedgerStep, ShownStep DEF IInv
  <1> QED
    BY InitIInv, <1>1, PTL DEF Spec

\* Whatever keys are pressed while a request is outstanding, some session is selected,
\* and every title, message and request is of a prompt that was sent.
THEOREM TypeCorrect == Spec => []TypeOK
  <1>1. ASSUME IInv PROVE TypeOK
    <2>1. Len(sessions) \in 1..MaxSessions
      BY <1>1, Facts, MaxFacts DEF IInv, Scalars
    <2>2. ASSUME NEW i \in 1..Len(sessions)
          PROVE  /\ sessions[i].id \in 1..sessionCount /\ sessions[i].title \in 0..sent
                 /\ \A k \in 1..Len(sessions[i].messages) :
                      sessions[i].messages[k] \in [role : Roles, prompt : 0..sent]
      <3>1. PICK s \in Sessions : s = sessions[i] /\ Good(s)
        BY <1>1, Facts
      <3>2. s.id \in 1..sessionCount /\ s.title \in 0..sent
        BY <1>1, <3>1, Facts, SessionFields DEF Good
      <3>3. ASSUME NEW k \in 1..Len(s.messages)
            PROVE  s.messages[k] \in [role : Roles, prompt : 0..sent]
        <4>1. s.messages[k] \in Messages
          BY SessionFields, ElementOfSeq
        <4>2. s.messages[k].prompt \in 0..sent
          BY <1>1, <3>1, <4>1, Facts DEF Good, Messages
        <4> QED
          BY <4>1, <4>2 DEF Messages
      <3> QED
        BY <3>1, <3>2, <3>3
    <2> QED
      BY <1>1, <2>1, <2>2 DEF TypeOK, IInv, Scalars
  <1> QED
    BY <1>1, InductiveInvariant, PTL

\* Sessions may be created, deleted and selected while sendChat waits for the master;
\* finishing the request by session id keeps every session a conversation.
THEOREM SessionsStayConversations == Spec => []Conversation
  <1>1. ASSUME IInv PROVE Conversation
    <2> SUFFICES ASSUME NEW i \in 1..Len(sessions), NEW s \in Sessions, s = sessions[i],
                        Good(s), Ends(s)
                 PROVE
          LET waits == loading /\ call.session = s.id
              n == Len(s.messages)
          IN  /\ s.messages[1].role = "system"
              /\ \A k \in 2..n : (s.messages[k].role = "user") <=> (k % 2 = 0)
              /\ \A k \in 2..n : k % 2 = 1 => s.messages[k].prompt = s.messages[k - 1].prompt
              /\ (n % 2 = 0) <=> waits
              /\ waits => s.messages[n].prompt = call.prompt
              /\ s.title # 0 => \E k \in 1..n : s.messages[k] = Message("assistant", s.title)
      BY <1>1, Facts, Zenon DEF Conversation
    <2>1. Dialogue(s.messages) /\ Named(s.title, s.messages)
      BY DEF Good
    <2> QED
      BY <2>1, Zenon DEF Dialogue, Named, Ends, Waits
  <1> QED
    BY <1>1, InductiveInvariant, PTL

\* perfStats counts each prompt once, be it answered by AutoReply, by the master or with
\* an error, and also when its session was deleted meanwhile.
THEOREM PromptsCountedOnce == Spec => []PerfLedger
  <1>1. IInv => PerfLedger
    BY DEF IInv
  <1> QED
    BY <1>1, InductiveInvariant, PTL

\* Update calls refreshViewport wherever it changes the sessions or the selection: the
\* screen is never that of another session or of an earlier state.
THEOREM ScreenIsCurrent == Spec => []ShownIsActive
  <1>1. IInv => ShownIsActive
    BY DEF IInv
  <1> QED
    BY <1>1, InductiveInvariant, PTL
=============================================================================

----------------------------- MODULE ChatClient -----------------------------
(***************************************************************************)
(* The chat client (client/tui): sessions, the keyboard, the one request   *)
(* that may be outstanding and its retries against the master.  Bubble Tea *)
(* runs Update for one message at a time; the request runs beside it and   *)
(* keys arrive while it does.  Prompts are numbered in the order they are  *)
(* sent; an answer carries the number of its prompt.                       *)
(***************************************************************************)
EXTENDS Naturals, Sequences, FiniteSets, SequencesExt

CONSTANTS
    MaxRetries,              \* maxRetries of sendChat
    MaxPrompts, MaxSessions  \* bounds of the model

ASSUME ClientAssumption == {MaxRetries, MaxSessions} \subseteq Nat \ {0} /\ MaxPrompts \in Nat

VARIABLES
    sessions,     \* Model.sessions: id, title (the prompt it comes from, 0 for "New
                  \* Session") and messages
    active,       \* activeIdx, from one
    sessionCount, focus, loading,
    input,        \* the text area: "blank", "greeting" (AutoReply knows it), "question"
    perf,         \* PerfStats: Total, OK, Errors
    call,         \* the command of sendPrompt: its kind, session, prompt and attempt
    sent,         \* prompts sent so far
    shown         \* what refreshViewport rendered last

vars == <<sessions, active, sessionCount, focus, loading, input, perf, call, sent, shown>>

NoCall == [kind |-> "none", session |-> 0, prompt |-> 0, attempt |-> 0]
Message(role, prompt) == [role |-> role, prompt |-> prompt]

\* newSession: a fresh id and the welcome message.
NewSession(id) == [id |-> id, title |-> 0, messages |-> <<Message("system", 0)>>]

\* refreshViewport: the messages of the active session, if there is one.
Refresh(S, a) == IF a > Len(S) THEN shown ELSE <<S[a].id, Len(S[a].messages)>>

Init ==
    /\ sessions = <<NewSession(1)>> /\ active = 1 /\ sessionCount = 1
    /\ focus = "input" /\ loading = FALSE /\ input = "blank"
    /\ perf = [total |-> 0, ok |-> 0, errors |-> 0]
    /\ call = NoCall /\ sent = 0 /\ shown = <<0, 0>>

-----------------------------------------------------------------------------
(* The keyboard *)

\* WindowSizeMsg and ctrl+b: layout, then a refresh.
Relayout ==
    /\ shown' = Refresh(sessions, active)
    /\ UNCHANGED <<sessions, active, sessionCount, focus, loading, input, perf, call, sent>>

Tab ==
    /\ focus' = IF focus = "input" THEN "sidebar" ELSE "input"
    /\ UNCHANGED <<sessions, active, sessionCount, loading, input, perf, call, sent, shown>>

\* up and down in the sidebar
Move(a) ==
    /\ focus = "sidebar" /\ a \in 1..Len(sessions) /\ active' = a
    /\ shown' = Refresh(sessions, a)
    /\ UNCHANGED <<sessions, sessionCount, focus, loading, input, perf, call, sent>>
Up == Move(active - 1)
Down == Move(active + 1)

Type(text) ==
    /\ focus = "input" /\ input' = text
    /\ UNCHANGED <<sessions, active, sessionCount, focus, loading, perf, call, sent, shown>>

\* Mutant of CtrlN: the new session is selected but not rendered.
CtrlNUnrendered ==
    /\ sessionCount < MaxSessions /\ sessionCount' = sessionCount + 1
    /\ sessions' = Append(sessions, NewSession(sessionCount')) /\ active' = Len(sessions')
    /\ focus' = "input" /\ input' = "blank"
    /\ UNCHANGED <<loading, perf, call, sent, shown>>

\* ctrl+n: a new session, selected, with an empty input, even while a reply is due.
CtrlN ==
    /\ sessionCount < MaxSessions /\ sessionCount' = sessionCount + 1
    /\ sessions' = Append(sessions, NewSession(sessionCount')) /\ active' = Len(sessions')
    /\ focus' = "input" /\ input' = "blank" /\ shown' = Refresh(sessions', active')
    /\ UNCHANGED <<loading, perf, call, sent>>

\* ctrl+d: the active session goes, unless it is the only one.
CtrlD ==
    /\ Len(sessions) > 1 /\ sessions' = RemoveAt(sessions, active)
    /\ active' = IF active > Len(sessions') THEN Len(sessions') ELSE active
    /\ shown' = Refresh(sessions', active')
    /\ UNCHANGED <<sessionCount, focus, loading, input, perf, call, sent>>

AppendTo(S, i, message) == [S EXCEPT ![i].messages = Append(@, message)]

\* Mutant of Enter: the input is open again while a reply is due.
EnterWhileLoading ==
    /\ focus = "input" /\ input # "blank" /\ sent < MaxPrompts
    /\ sent' = sent + 1 /\ loading' = TRUE /\ input' = "blank"
    /\ sessions' = AppendTo(sessions, active, Message("user", sent'))
    /\ call' = [kind |-> IF input = "greeting" THEN "auto" ELSE "chat",
                session |-> sessions[active].id, prompt |-> sent', attempt |-> 1]
    /\ shown' = Refresh(sessions', active)
    /\ UNCHANGED <<active, sessionCount, focus, perf>>

\* enter: sendPrompt, one prompt at a time; greetings are answered without the master.
Enter ==
    /\ focus = "input" /\ ~loading /\ input # "blank" /\ sent < MaxPrompts
    /\ sent' = sent + 1 /\ loading' = TRUE /\ input' = "blank"
    /\ sessions' = AppendTo(sessions, active, Message("user", sent'))
    /\ call' = [kind |-> IF input = "greeting" THEN "auto" ELSE "chat",
                session |-> sessions[active].id, prompt |-> sent', attempt |-> 1]
    /\ shown' = Refresh(sessions', active)
    /\ UNCHANGED <<active, sessionCount, focus, perf>>

Key ==
    \/ Relayout \/ Tab \/ Up \/ Down \/ CtrlN \/ CtrlD \/ Enter
    \/ \E text \in {"blank", "greeting", "question"} : Type(text)

-----------------------------------------------------------------------------
(* The outcome of a prompt *)

Answered == call' = NoCall /\ loading' = FALSE
Count(field) == perf' = [perf EXCEPT !.total = @ + 1, ![field] = @ + 1]
IndexOf(id) == {i \in 1..Len(sessions) : sessions[i].id = id}

\* Mutant of Delivered: the message goes to the session on the screen.
DeliveredToActive(role) == AppendTo(sessions, active, Message(role, call.prompt))

\* The message goes to the session the prompt was sent from, if that still exists.
Delivered(role) ==
    IF IndexOf(call.session) = {} THEN sessions
    ELSE AppendTo(sessions, CHOOSE i \in IndexOf(call.session) : TRUE,
                  Message(role, call.prompt))
Deliver(role) == sessions' = Delivered(role) /\ shown' = Refresh(sessions', active)

\* autoReplyMsg
AutoReply ==
    /\ call.kind = "auto" /\ Answered /\ Count("ok") /\ Deliver("assistant")
    /\ UNCHANGED <<active, sessionCount, focus, input, sent>>

\* The first reply of the master with a text names the session.
Titled(S, empty) ==
    [i \in 1..Len(S) |->
       IF S[i].id = call.session /\ S[i].title = 0 /\ ~empty
       THEN [S[i] EXCEPT !.title = call.prompt] ELSE S[i]]

\* chatResponseMsg, after status 200.
ChatResponse ==
    /\ call.kind = "chat" /\ Answered /\ Count("ok")
    /\ \E empty \in BOOLEAN : sessions' = Titled(Delivered("assistant"), empty)
    /\ shown' = Refresh(sessions', active)
    /\ UNCHANGED <<active, sessionCount, focus, input, sent>>

\* Mutant of Retry: the attempts start over.
RetryStartsOver ==
    /\ call.kind = "chat"
    /\ call' = [call EXCEPT !.attempt = IF @ < MaxRetries THEN @ + 1 ELSE 1]
    /\ UNCHANGED <<sessions, active, sessionCount, focus, loading, input, perf, sent, shown>>

\* A network error, 429 or 5xx: the prompt is posted again after a pause.
Retry ==
    /\ call.kind = "chat" /\ call.attempt < MaxRetries
    /\ call' = [call EXCEPT !.attempt = @ + 1]
    /\ UNCHANGED <<sessions, active, sessionCount, focus, loading, input, perf, sent, shown>>

\* chatErrorMsg: another 4xx, an unreadable reply, the last attempt or the deadline.
ChatError ==
    /\ call.kind = "chat" /\ Answered /\ Count("errors") /\ Deliver("error")
    /\ UNCHANGED <<active, sessionCount, focus, input, sent>>

Outcome == AutoReply \/ ChatResponse \/ Retry \/ ChatError

Next == Key \/ Outcome

Spec == Init /\ [][Next]_vars

\* The command runs beside the keyboard, and its context has a deadline.
Fairness == WF_vars(Outcome)
FairSpec == Spec /\ Fairness

-----------------------------------------------------------------------------
(* Properties *)

Roles == {"system", "user", "assistant", "error"}
\* Some session is selected, and every call, title and message is of a prompt sent.
TypeOK ==
    /\ Len(sessions) \in 1..MaxSessions /\ active \in 1..Len(sessions)
    /\ \A i \in 1..Len(sessions) :
         /\ sessions[i].id \in 1..sessionCount /\ sessions[i].title \in 0..sent
         /\ \A k \in 1..Len(sessions[i].messages) :
              sessions[i].messages[k] \in [role : Roles, prompt : 0..sent]
    /\ sessionCount \in 1..MaxSessions /\ focus \in {"input", "sidebar"}
    /\ loading \in BOOLEAN /\ input \in {"blank", "greeting", "question"}
    /\ perf \in [total : Nat, ok : Nat, errors : Nat] /\ sent \in 0..MaxPrompts
    /\ call \in [kind : {"none", "auto", "chat"}, session : 0..sessionCount,
                 prompt : 0..sent, attempt : 0..MaxRetries]

\* Whatever is created, deleted or selected while a reply is due, each session stays
\* a conversation: the welcome, then prompts each followed by its own answer or
\* error; only the session of the outstanding prompt ends with a prompt.  A session
\* is named after a prompt of its own that was answered.
Conversation ==
    \A i \in 1..Len(sessions) :
      LET s == sessions[i]
          waits == loading /\ call.session = s.id
          n == Len(s.messages)
      IN  /\ s.messages[1].role = "system"
          /\ \A k \in 2..n : (s.messages[k].role = "user") <=> (k % 2 = 0)
          /\ \A k \in 2..n : k % 2 = 1 => s.messages[k].prompt = s.messages[k - 1].prompt
          /\ (n % 2 = 0) <=> waits
          /\ waits => s.messages[n].prompt = call.prompt
          /\ s.title # 0 => \E k \in 1..n : s.messages[k] = Message("assistant", s.title)

\* The statistics of the footer count every prompt exactly once, also one whose
\* session is gone; the spinner runs exactly while one is outstanding.
PerfLedger ==
    /\ perf.total = perf.ok + perf.errors
    /\ sent = perf.total + (IF loading THEN 1 ELSE 0)
    /\ loading <=> call.kind # "none"

\* The screen never shows a session or a state of it that is no longer the active one.
ShownIsActive ==
    shown # <<0, 0>> => shown = <<sessions[active].id, Len(sessions[active].messages)>>

\* Every prompt gets an answer or an error: the input never stays locked.
PromptAnswered == loading ~> ~loading
=============================================================================

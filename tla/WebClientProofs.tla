---------------------------- MODULE WebClientProofs ----------------------------
(***************************************************************************)
(* Theorems about WebClient for every number of users, conversations,      *)
(* keys, clicks and failures, and every set of conversations there are     *)
(* when the page is loaded.                                                *)
(***************************************************************************)
EXTENDS WebClient, FiniteSetTheorems, SequenceTheorems, TLAPS

Entry == [id : Conversation, count : Nat]
Exchange == Conversation \cup Key
CallRecord ==
    [kind : {"me", "login", "list", "create", "messages", "send"},
     token : User \cup {Nothing},
     about : User \cup Conversation \cup {Nothing} \cup [convo : Conversation, key : Key],
     then : Conversation \cup {Nothing},
     answer : {"pending", "ok", "refused"},
     reply : User \cup Exchange \cup {Nothing} \cup (SUBSET Entry) \cup Seq(Exchange)]

\* What each kind of call is about, and what it is told.
WellFormed(call) ==
    /\ call.kind = "me" => call.token \in User
    /\ call.kind = "login" => call.about \in User
    /\ call.kind \in {"create", "messages"} => call.about \in Conversation
    /\ call.kind = "send" => call.about \in [convo : Conversation, key : Key]
    /\ call.kind # "list" => call.then = Nothing
    /\ call.answer = "ok" =>
         /\ call.kind = "me" => call.reply = call.token
         /\ call.kind \in {"login", "create"} => call.reply = call.about
         /\ call.kind = "list" => call.reply \in SUBSET Entry
         /\ call.kind = "messages" => call.reply \in Seq(Exchange)
         /\ call.kind = "send" => call.reply = call.about.key

Call == {call \in CallRecord : WellFormed(call)}

TypesHold ==
    /\ authToken \in User \cup {Nothing} /\ stored \in User \cup {Nothing}
    /\ currentUser \in User \cup {Nothing}
    /\ currentConvoId \in Conversation \cup {Nothing}
    /\ conversations \in SUBSET Entry
    /\ container \in Seq(Exchange)
    /\ lastKey \in Key \cup {Nothing}
    /\ calls \in Seq(Call)
    /\ owner \in [Conversation -> User \cup {Nothing}]
    /\ store \in [Conversation -> Seq(Exchange)]
    /\ disturbed \in SUBSET {"unreliable", "refused", "replay"}
    /\ signedIn \in SUBSET User /\ IsFiniteSet(signedIn)
    /\ clicks \in 0 .. MaxClicks /\ failures \in 0 .. MaxFailures

-----------------------------------------------------------------------------
(* What the page knows is of users who were signed in on it                *)

Mine(c) == owner[c] \in signedIn
Kept(key) == \A c \in StoredIn(key) : Mine(c)
Seen(item) == StoredIn(item) # {} /\ Kept(item)

CallKnown(call) ==
    /\ call.kind \notin {"me", "login"} =>
         signedIn # {} /\ call.token \in signedIn \cup {Nothing}
    /\ call.then # Nothing => Mine(call.then)
    /\ call.kind = "messages" => Mine(call.about)
    /\ call.kind = "send" => Mine(call.about.convo) /\ Kept(call.about.key)
    /\ call.answer = "ok" =>
         /\ call.kind = "list" => \A row \in call.reply : Mine(row.id)
         /\ call.kind = "create" => Mine(call.about)
         /\ call.kind = "messages" => \A n \in DOMAIN call.reply : Seen(call.reply[n])
         /\ call.kind = "send" => Seen(call.about.key)

CallsKnown == \A k \in DOMAIN calls : CallKnown(calls[k])

PageKnown ==
    /\ \A row \in conversations : Mine(row.id)
    /\ currentConvoId # Nothing => Mine(currentConvoId)
    /\ lastKey # Nothing => Kept(lastKey)
    /\ ShownIsStored

\* Nobody acts before the first sign-in, except with the token that was kept,
\* which one call tries.
Session ==
    /\ \/ authToken \in signedIn \cup {Nothing}
       \/ /\ signedIn = {}
          /\ \E k \in DOMAIN calls : calls[k].kind = "me" /\ calls[k].token = authToken
    /\ \A j, k \in DOMAIN calls : calls[j].kind = "me" /\ calls[k].kind = "me" => j = k
    /\ signedIn # {} => currentUser \in signedIn
    /\ signedIn = {} => /\ currentUser = Nothing /\ currentConvoId = Nothing
                        /\ conversations = {} /\ container = << >>

\* No exchange is stored twice.
StoredOnce ==
    \A c, d \in Conversation : \A m \in DOMAIN store[c], n \in DOMAIN store[d] :
        store[c][m] = store[d][n] => c = d /\ m = n

Known == TypesHold /\ CallsKnown /\ PageKnown /\ Session /\ StoredOnce

-----------------------------------------------------------------------------
(* Without failures and overtaking the page acts as the user it shows      *)

TwoUsers == \E u, v \in signedIn : u # v

ReliableCall(k) ==
    /\ calls[k].kind = "me" =>
         /\ k = 1 /\ currentUser = Nothing /\ calls[k].answer # "refused"
         /\ authToken = calls[k].token /\ stored = calls[k].token
    /\ calls[k].kind \notin {"me", "login"} => calls[k].token \in signedIn

Reliable ==
    "unreliable" \notin disturbed =>
        /\ currentUser # Nothing => authToken = currentUser /\ stored = currentUser
        /\ \A k \in DOMAIN calls : ReliableCall(k)
        /\ "refused" \in disturbed => TwoUsers

-----------------------------------------------------------------------------
(* Undisturbed, calls are answered in turn                                 *)

\* Calls are served and answered first come, first served, and no key is
\* under way twice.
InTurn ==
    /\ \A k \in DOMAIN calls : calls[k].answer # "refused"
    /\ \A j, k \in DOMAIN calls :
         j < k /\ calls[k].answer = "ok" => calls[j].answer = "ok"
    /\ \A j, k \in DOMAIN calls :
         calls[j].kind = "send" /\ calls[k].kind = "send"
           /\ calls[j].about.key = calls[k].about.key => j = k
    /\ \A k \in DOMAIN calls :
         calls[k].kind = "send" /\ calls[k].answer = "pending" =>
           StoredIn(calls[k].about.key) = {}

\* The last list asked for is of the current user, and once no call is under
\* way whose handler asks for another, it is what the server has.
LastList(k) == calls[k].kind = "list" /\ \A j \in DOMAIN calls : calls[j].kind = "list" => j <= k

ListInTurn ==
    /\ \A k \in DOMAIN calls : LastList(k) => calls[k].token = currentUser
    /\ (\A k \in DOMAIN calls : calls[k].kind \in {"list", "messages"}) =>
         /\ \A k \in DOMAIN calls :
              LastList(k) /\ calls[k].answer = "ok" => calls[k].reply = Listing(currentUser)
         /\ (\A k \in DOMAIN calls : calls[k].kind # "list") =>
              conversations = Listing(currentUser)

\* Call p is the last that loads messages; none does if p is 0.
LastLoad(p) ==
    /\ p # 0 => calls[p].kind = "messages"
    /\ \A j \in DOMAIN calls : j > p => calls[j].kind # "messages"

Shown(p) == IF p = 0 THEN container ELSE calls[p].reply
\* The keys of the sends after it that were served, in the order of the calls.
SentAfter(p) ==
    [j \in {i \in DOMAIN calls : i > p /\ calls[i].kind = "send" /\ calls[i].answer = "ok"} |->
        calls[j].about.key]

\* What is stored is what is shown and then, in order, what was sent.
FollowedBy(base, sent, here) ==
    /\ Len(base) <= Len(here)
    /\ \A n \in 1 .. Len(base) : here[n] = base[n]
    /\ \A n \in Len(base) + 1 .. Len(here) : \E j \in DOMAIN sent : sent[j] = here[n]
    /\ \A j \in DOMAIN sent : \E n \in Len(base) + 1 .. Len(here) : here[n] = sent[j]
    /\ \A i, j \in DOMAIN sent, m, n \in Len(base) + 1 .. Len(here) :
         i < j /\ here[m] = sent[i] /\ here[n] = sent[j] => m < n

LoadInTurn ==
    /\ currentConvoId = Nothing =>
         /\ container = << >> /\ conversations = {}
         /\ \A k \in DOMAIN calls : calls[k].kind \notin {"messages", "send"}
    /\ currentConvoId # Nothing => \A p \in 0 .. Len(calls) : LastLoad(p) =>
         /\ p # 0 => calls[p].about = currentConvoId
         /\ \A j \in DOMAIN calls :
              j > p /\ calls[j].kind = "send" => calls[j].about.convo = currentConvoId
         /\ p = 0 \/ calls[p].answer = "ok" =>
              FollowedBy(Shown(p), SentAfter(p), store[currentConvoId])

Undisturbed == disturbed = {} => InTurn /\ ListInTurn /\ LoadInTurn

-----------------------------------------------------------------------------
(* Calls under way                                                         *)

\* A request is a call, of the shape of its kind.
LEMMA RequestIsCall ==
    ASSUME NEW token \in User \cup {Nothing}
    PROVE  /\ \A u \in User :
                 LET call == Request("login", token, u, Nothing) IN
                 call \in Call /\ call.kind = "login" /\ call.then = Nothing
           /\ \A u \in User :
                 LET call == Request("me", u, Nothing, Nothing) IN
                 call \in Call /\ call.kind = "me" /\ call.token = u
           /\ \A c \in Conversation \cup {Nothing} : LoadConversations(token, c) \in Call
           /\ \A c \in Conversation : LoadMessages(token, c) \in Call
           /\ \A c \in Conversation : Request("create", token, c, Nothing) \in Call
           /\ \A about \in [convo : Conversation, key : Key] :
                 Request("send", token, about, Nothing) \in Call
BY DEF Request, LoadConversations, LoadMessages, Call, CallRecord, WellFormed

\* Item k leaves the sequence s, and t joins its end.
Rearranged(r, s, k, t) ==
    /\ Len(r) = Len(s) - 1 + Len(t)
    /\ \A i \in 1 .. Len(r) :
         \/ i < k /\ i \in 1 .. Len(s) /\ r[i] = s[i]
         \/ k <= i /\ i < Len(s) /\ i + 1 \in 1 .. Len(s) /\ r[i] = s[i + 1]
         \/ /\ Len(s) <= i /\ i - (Len(s) - 1) \in 1 .. Len(t)
            /\ r[i] = t[i - (Len(s) - 1)]

LEMMA RemoveAndAppend ==
    ASSUME NEW S, NEW s \in Seq(S), NEW k \in 1 .. Len(s), NEW t \in Seq(S)
    PROVE  RemoveAt(s, k) \o t \in Seq(S) /\ Rearranged(RemoveAt(s, k) \o t, s, k, t)
<1> DEFINE r == RemoveAt(s, k) \o t
<1>1. /\ Len(s) \in Nat /\ DOMAIN s = 1 .. Len(s) /\ k \in 1 .. Len(s)
      /\ Len(t) \in Nat /\ DOMAIN t = 1 .. Len(t)
    BY LenProperties
<1>a. \A i \in 1 .. Len(s) : s[i] \in S
    BY ElementOfSeq
<1> DEFINE low == SubSeq(s, 1, k - 1)
           high == SubSeq(s, k + 1, Len(s))
<1>2. /\ low \in Seq(S) /\ Len(low) = k - 1
      /\ \A i \in 1 .. k - 1 : low[i] = s[i]
    <2>1. \A i \in 1 .. k - 1 : s[i] \in S
        BY <1>1, <1>a
    <2>2. /\ low \in Seq(S)
          /\ Len(low) = IF 1 <= k - 1 THEN k - 1 - 1 + 1 ELSE 0
          /\ \A i \in 1 .. k - 1 - 1 + 1 : low[i] = s[1 + i - 1]
        BY <1>1, <2>1, SubSeqProperties
    <2> QED BY <1>1, <2>2
<1>3. /\ high \in Seq(S) /\ Len(high) = Len(s) - k
      /\ \A i \in 1 .. Len(s) - k : high[i] = s[k + i]
    <2>1. \A i \in k + 1 .. Len(s) : s[i] \in S
        BY <1>1, <1>a
    <2>2. /\ high \in Seq(S)
          /\ Len(high) = IF k + 1 <= Len(s) THEN Len(s) - (k + 1) + 1 ELSE 0
          /\ \A i \in 1 .. Len(s) - (k + 1) + 1 : high[i] = s[k + 1 + i - 1]
        BY <1>1, <2>1, SubSeqProperties
    <2>3. Len(high) = Len(s) - k
        <3>1. Len(high) = IF k + 1 <= Len(s) THEN Len(s) - (k + 1) + 1 ELSE 0
            BY <2>2
        <3> HIDE DEF high
        <3>2. Len(s) \in Nat /\ k \in Nat /\ k <= Len(s)
            BY <1>1
        <3> QED BY <3>1, <3>2
    <2>4. Len(s) - (k + 1) + 1 = Len(s) - k /\ \A i \in 1 .. Len(s) - k : k + 1 + i - 1 = k + i
        BY <1>1
    <2> HIDE DEF high
    <2> QED BY <2>2, <2>3, <2>4
<1>4. RemoveAt(s, k) = low \o high
    BY DEF RemoveAt
<1> HIDE DEF low, high
<1> DEFINE rest == low \o high
<1>5. /\ rest \in Seq(S) /\ Len(rest) = Len(s) - 1
      /\ \A i \in 1 .. Len(s) - 1 : rest[i] = IF i < k THEN s[i] ELSE s[i + 1]
    <2>1. /\ rest \in Seq(S) /\ Len(rest) = Len(low) + Len(high)
          /\ \A i \in 1 .. Len(low) + Len(high) :
               rest[i] = IF i <= Len(low) THEN low[i] ELSE high[i - Len(low)]
        BY <1>2, <1>3, ConcatProperties
    <2>2. ASSUME NEW i \in 1 .. Len(s) - 1
          PROVE  rest[i] = IF i < k THEN s[i] ELSE s[i + 1]
        <3>1. CASE i < k
            BY <3>1, <2>1, <1>1, <1>2, <1>3
        <3>2. CASE ~(i < k)
            <4>1. rest[i] = high[i - (k - 1)]
                <5>1. i \in 1 .. Len(low) + Len(high) /\ ~(i <= Len(low))
                    BY <3>2, <1>1, <1>2, <1>3
                <5>2. rest[i] = high[i - Len(low)]
                    BY <5>1, <2>1
                <5> QED BY <5>2, <1>2
            <4>2. i - (k - 1) \in 1 .. Len(s) - k /\ k + (i - (k - 1)) = i + 1
                BY <3>2, <1>1
            <4> QED BY <4>1, <4>2, <3>2, <1>3
        <3> QED BY <3>1, <3>2
    <2> QED BY <2>1, <2>2, <1>1, <1>2, <1>3
<1>6. r = rest \o t
    BY <1>4 DEF r
<1> HIDE DEF rest, r
<1>7. /\ r \in Seq(S) /\ Len(r) = Len(s) - 1 + Len(t)
      /\ \A i \in 1 .. Len(s) - 1 + Len(t) :
           r[i] = IF i <= Len(s) - 1 THEN rest[i] ELSE t[i - (Len(s) - 1)]
    <2>1. /\ r \in Seq(S) /\ Len(r) = Len(rest) + Len(t)
          /\ \A i \in 1 .. Len(rest) + Len(t) :
               r[i] = IF i <= Len(rest) THEN rest[i] ELSE t[i - Len(rest)]
        BY <1>5, <1>6, ConcatProperties
    <2> QED BY <2>1, <1>5
<1>9. ASSUME NEW i \in 1 .. Len(r)
      PROVE  \/ i < k /\ i \in 1 .. Len(s) /\ r[i] = s[i]
             \/ k <= i /\ i < Len(s) /\ i + 1 \in 1 .. Len(s) /\ r[i] = s[i + 1]
             \/ /\ Len(s) <= i /\ i - (Len(s) - 1) \in 1 .. Len(t)
                /\ r[i] = t[i - (Len(s) - 1)]
    <2>1. i \in 1 .. Len(s) - 1 + Len(t)
        BY <1>7
    <2>2. CASE i <= Len(s) - 1
        <3>1. i \in 1 .. Len(s) - 1 /\ r[i] = rest[i]
            BY <2>1, <2>2, <1>1, <1>7
        <3>2. r[i] = IF i < k THEN s[i] ELSE s[i + 1]
            BY <3>1, <1>5
        <3> QED BY <3>1, <3>2, <1>1
    <2>3. CASE ~(i <= Len(s) - 1)
        BY <2>1, <2>3, <1>1, <1>7
    <2> QED BY <2>2, <2>3
<1> QED BY <1>7, <1>9 DEF r, Rearranged

\* Where the call was that is at i after call k was taken out.
Came(i, k) == IF i < k THEN i ELSE i + 1

\* Every call left over keeps its place among those that were there; the
\* further ones follow.
LEMMA HandledCalls ==
    ASSUME calls \in Seq(Call), NEW k \in DOMAIN calls, NEW further \in Seq(Call),
           Handled(k, further)
    PROVE  /\ calls' \in Seq(Call)
           /\ Len(calls') = Len(calls) - 1 + Len(further)
           /\ DOMAIN calls' = 1 .. Len(calls')
           /\ \A i \in DOMAIN calls' :
                \/ /\ i < Len(calls) /\ Came(i, k) \in DOMAIN calls \ {k}
                   /\ calls'[i] = calls[Came(i, k)]
                \/ /\ Len(calls) <= i /\ i - (Len(calls) - 1) \in DOMAIN further
                   /\ calls'[i] = further[i - (Len(calls) - 1)]
           /\ \A i, j \in DOMAIN calls' : Came(i, k) = Came(j, k) => i = j
<1>1. calls' = RemoveAt(calls, k) \o further
    BY DEF Handled
<1>2. Len(calls) \in Nat /\ k \in 1 .. Len(calls)
    BY LenProperties
<1>3. /\ calls' \in Seq(Call) /\ Len(calls') = Len(calls) - 1 + Len(further)
      /\ \A i \in 1 .. Len(calls') :
           \/ i < k /\ i \in 1 .. Len(calls) /\ calls'[i] = calls[i]
           \/ k <= i /\ i < Len(calls) /\ i + 1 \in 1 .. Len(calls) /\ calls'[i] = calls[i + 1]
           \/ /\ Len(calls) <= i /\ i - (Len(calls) - 1) \in 1 .. Len(further)
              /\ calls'[i] = further[i - (Len(calls) - 1)]
    <2>1. calls' \in Seq(Call) /\ Rearranged(calls', calls, k, further)
        BY <1>1, <1>2, RemoveAndAppend
    <2> QED BY <2>1 DEF Rearranged
<1>4. /\ DOMAIN calls' = 1 .. Len(calls') /\ Len(calls') \in Nat
      /\ DOMAIN calls = 1 .. Len(calls) /\ DOMAIN further = 1 .. Len(further)
    BY <1>3, LenProperties
<1>5. ASSUME NEW i \in DOMAIN calls'
      PROVE  \/ /\ i < Len(calls) /\ Came(i, k) \in DOMAIN calls \ {k}
                /\ calls'[i] = calls[Came(i, k)]
             \/ /\ Len(calls) <= i /\ i - (Len(calls) - 1) \in DOMAIN further
                /\ calls'[i] = further[i - (Len(calls) - 1)]
    <2>1. CASE i < k /\ i \in 1 .. Len(calls) /\ calls'[i] = calls[i]
        <3>1. i # k /\ i < Len(calls) /\ Came(i, k) = i
            BY <2>1, <1>2, <1>4 DEF Came
        <3> QED BY <3>1, <2>1, <1>4
    <2>2. CASE k <= i /\ i < Len(calls) /\ i + 1 \in 1 .. Len(calls) /\ calls'[i] = calls[i + 1]
        <3>1. i + 1 # k /\ Came(i, k) = i + 1
            BY <2>2, <1>2, <1>4 DEF Came
        <3> QED BY <3>1, <2>2, <1>4
    <2> QED BY <2>1, <2>2, <1>3, <1>4
<1>6. \A i, j \in DOMAIN calls' : Came(i, k) = Came(j, k) => i = j
    BY <1>2, <1>4 DEF Came
<1> QED BY <1>3, <1>4, <1>5, <1>6

LEMMA OneCall ==
    ASSUME NEW call \in Call
    PROVE  /\ << call >> \in Seq(Call) /\ Len(<< call >>) = 1
           /\ DOMAIN << call >> = {1} /\ << call >>[1] = call
OBVIOUS

LEMMA ClickCalls ==
    ASSUME calls \in Seq(Call), NEW call \in Call, Click(<< call >>)
    PROVE  /\ calls' \in Seq(Call)
           /\ Len(calls') = Len(calls) + 1
           /\ \A i \in DOMAIN calls : i \in DOMAIN calls' /\ calls'[i] = calls[i]
           /\ calls'[Len(calls) + 1] = call
           /\ \A i \in DOMAIN calls' : i \in DOMAIN calls \/ i = Len(calls) + 1
<1>1. calls' = calls \o << call >> /\ Len(calls) \in Nat /\ DOMAIN calls = 1 .. Len(calls)
    BY LenProperties DEF Click
<1>2. << call >> \in Seq(Call) /\ Len(<< call >>) = 1 /\ << call >>[1] = call
    BY OneCall
<1>3. /\ calls' \in Seq(Call) /\ Len(calls') = Len(calls) + 1
      /\ \A i \in 1 .. Len(calls) + 1 :
           calls'[i] = IF i <= Len(calls) THEN calls[i] ELSE << call >>[i - Len(calls)]
    BY <1>1, <1>2, ConcatProperties
<1>4. DOMAIN calls' = 1 .. Len(calls) + 1
    BY <1>3, LenProperties
<1> QED BY <1>1, <1>2, <1>3, <1>4

\* The answer to call k comes; nothing else about the calls changes.
LEMMA AnsweredFields ==
    ASSUME NEW call \in Call, NEW answer, NEW reply
    PROVE  LET new == Answered(call, answer, reply) IN
           /\ new.kind = call.kind /\ new.token = call.token
           /\ new.about = call.about /\ new.then = call.then
           /\ new.answer = answer /\ new.reply = reply
BY DEF Answered, Call, CallRecord

LEMMA AnsweredCall ==
    ASSUME calls \in Seq(Call), NEW k \in DOMAIN calls, NEW call \in Call,
           calls' = [calls EXCEPT ![k] = call]
    PROVE  /\ calls' \in Seq(Call)
           /\ Len(calls') = Len(calls) /\ DOMAIN calls' = DOMAIN calls
           /\ \A j \in DOMAIN calls \ {k} : calls'[j] = calls[j]
           /\ calls'[k] = call
<1>1. Len(calls) \in Nat /\ DOMAIN calls = 1 .. Len(calls)
    BY LenProperties
<1>2. /\ calls' \in Seq(Call) /\ Len(calls') = Len(calls)
      /\ \A j \in 1 .. Len(calls) : calls'[j] = IF j = k THEN call ELSE calls[j]
    BY <1>1, ExceptSeq
<1>3. DOMAIN calls' = DOMAIN calls
    BY <1>1, <1>2, LenProperties
<1> QED BY <1>1, <1>2, <1>3

LEMMA SameInterval ==
    ASSUME NEW m \in Nat, NEW n \in Nat, 1 .. m = 1 .. n
    PROVE  m = n
<1>1. \A i \in 1 .. m : i <= n
    OBVIOUS
<1>2. \A i \in 1 .. n : i <= m
    OBVIOUS
<1>3. m <= n
    <2>1. m = 0 \/ m \in 1 .. m
        OBVIOUS
    <2> QED BY <2>1, <1>1
<1>4. n <= m
    <2>1. n = 0 \/ n \in 1 .. n
        OBVIOUS
    <2> QED BY <2>1, <1>2
<1> QED BY <1>3, <1>4

\* loadMessages for each conversation selected.
LEMMA LoadsCalls ==
    ASSUME TypesHold, NEW cs \in Seq(Conversation)
    PROVE  /\ Loads(cs) \in Seq(Call) /\ Len(Loads(cs)) = Len(cs)
           /\ DOMAIN Loads(cs) = DOMAIN cs
           /\ \A n \in DOMAIN cs : Loads(cs)[n] = LoadMessages(authToken, cs[n])
<1>1. Len(cs) \in Nat /\ DOMAIN cs = 1 .. Len(cs)
    BY LenProperties
<1>2. \A n \in 1 .. Len(cs) : cs[n] \in Conversation
    BY ElementOfSeq
<1>3. \A n \in 1 .. Len(cs) : LoadMessages(authToken, cs[n]) \in Call
    BY <1>2, RequestIsCall DEF TypesHold
<1>4. Loads(cs) = [n \in 1 .. Len(cs) |-> LoadMessages(authToken, cs[n])]
    BY <1>1 DEF Loads
<1>5. Loads(cs) \in [1 .. Len(cs) -> Call]
    BY <1>3, <1>4
<1>6. Loads(cs) \in Seq(Call)
    BY <1>1, <1>5, SeqDef
<1>7. Len(Loads(cs)) \in Nat /\ DOMAIN Loads(cs) = 1 .. Len(Loads(cs))
    BY <1>6, LenProperties
<1>8. 1 .. Len(Loads(cs)) = 1 .. Len(cs)
    BY <1>5, <1>7
<1>9. Len(Loads(cs)) = Len(cs)
    BY <1>1, <1>7, <1>8, SameInterval
<1> QED BY <1>1, <1>4, <1>6, <1>9, <1>7, <1>8

\* What the handler of a list selects: the first of the list, when nothing is
\* selected, and the new conversation.
LEMMA ListSelects ==
    ASSUME TypesHold, NEW k \in DOMAIN calls, List(k) \/ ListFails(k)
    PROVE  \E cs \in Seq(Conversation) :
             /\ Handled(k, Loads(cs)) /\ Selects(cs)
             /\ cs = << >> => currentConvoId # Nothing \/ ListFails(k) \/ calls[k].reply = {}
             /\ \A n \in DOMAIN cs :
                  \/ cs[n] = calls[k].then /\ calls[k].then # Nothing
                  \/ List(k) /\ \E row \in calls[k].reply : row.id = cs[n]
<1>1. calls[k] \in Call
    BY LenProperties, ElementOfSeq DEF TypesHold
<1>2. calls[k].then \in Conversation \cup {Nothing}
    BY <1>1 DEF Call, CallRecord
<1>3. /\ ThenSelect(k) \in Seq(Conversation)
      /\ \A n \in DOMAIN ThenSelect(k) :
            ThenSelect(k)[n] = calls[k].then /\ calls[k].then # Nothing
    BY <1>2 DEF ThenSelect
<1>4. CASE ListFails(k)
    BY <1>3, <1>4 DEF ListFails
<1>5. CASE List(k)
    <2>1. calls[k].reply \in SUBSET Entry
        BY <1>1, <1>5 DEF List, Ok, Call, WellFormed
    <2>2. CASE /\ (IF currentConvoId = Nothing THEN calls[k].reply ELSE {}) = {}
               /\ Handled(k, Loads(ThenSelect(k))) /\ Selects(ThenSelect(k))
        BY <1>3, <2>2
    <2>3. ASSUME NEW row \in calls[k].reply,
                 Handled(k, Loads(<< row.id >> \o ThenSelect(k))),
                 Selects(<< row.id >> \o ThenSelect(k))
          PROVE  \E cs \in Seq(Conversation) :
                   /\ Handled(k, Loads(cs)) /\ Selects(cs)
                   /\ cs # << >>
                   /\ \A n \in DOMAIN cs :
                        \/ cs[n] = calls[k].then /\ calls[k].then # Nothing
                        \/ \E r \in calls[k].reply : r.id = cs[n]
        <3> DEFINE cs == << row.id >> \o ThenSelect(k)
        <3>1. << row.id >> \in Seq(Conversation) /\ Len(<< row.id >>) = 1 /\ << row.id >>[1] = row.id
            BY <2>1 DEF Entry
        <3>2. Len(ThenSelect(k)) \in Nat /\ DOMAIN ThenSelect(k) = 1 .. Len(ThenSelect(k))
            BY <1>3, LenProperties
        <3>3. /\ cs \in Seq(Conversation) /\ Len(cs) = 1 + Len(ThenSelect(k))
              /\ \A n \in 1 .. 1 + Len(ThenSelect(k)) :
                   cs[n] = IF n <= 1 THEN << row.id >>[n] ELSE ThenSelect(k)[n - 1]
            BY <1>3, <3>1, ConcatProperties
        <3>4. DOMAIN cs = 1 .. 1 + Len(ThenSelect(k))
            BY <3>3, LenProperties
        <3>5. cs # << >>
            BY <3>3, <3>2, EmptySeq
        <3> HIDE DEF cs
        <3>6. ASSUME NEW n \in DOMAIN cs
              PROVE  \/ cs[n] = calls[k].then /\ calls[k].then # Nothing
                     \/ \E r \in calls[k].reply : r.id = cs[n]
            <4>1. CASE n = 1
                BY <4>1, <3>1, <3>2, <3>3
            <4>2. CASE n # 1
                <5>1. n - 1 \in DOMAIN ThenSelect(k) /\ cs[n] = ThenSelect(k)[n - 1]
                    BY <4>2, <3>2, <3>3, <3>4
                <5> QED BY <5>1, <1>3
            <4> QED BY <4>1, <4>2
        <3>7. Handled(k, Loads(cs)) /\ Selects(cs)
            BY <2>3 DEF cs
        <3> QED BY <3>3, <3>5, <3>6, <3>7
    <2> QED BY <1>5, <2>2, <2>3 DEF List
<1> QED BY <1>4, <1>5

\* A conversation of a sequence of them is its last.
LEMMA LastSelected ==
    ASSUME NEW cs \in Seq(Conversation), cs # << >>
    PROVE  Len(cs) \in DOMAIN cs /\ Last(cs) = cs[Len(cs)] /\ Last(cs) \in Conversation
<1>1. Len(cs) \in Nat \ {0} /\ DOMAIN cs = 1 .. Len(cs)
    BY EmptySeq, LenProperties
<1>2. Len(cs) \in 1 .. Len(cs)
    BY <1>1
<1> QED BY <1>1, <1>2, ElementOfSeq DEF Last

-----------------------------------------------------------------------------
(* Types                                                                   *)

LEMMA CallAt ==
    ASSUME TypesHold, NEW k \in DOMAIN calls
    PROVE  /\ calls[k] \in CallRecord /\ WellFormed(calls[k]) /\ calls[k] \in Call
           /\ DOMAIN calls = 1 .. Len(calls) /\ Len(calls) \in Nat
BY LenProperties, ElementOfSeq DEF TypesHold, Call

LEMMA AnswerIsCall ==
    ASSUME TypesHold, NEW call \in Call
    PROVE  /\ Answered(call, "refused", Nothing) \in Call
           /\ Answered(call, "ok", Reply(call)) \in Call
<1>1. call \in CallRecord /\ WellFormed(call)
    BY DEF Call
<1>2. ASSUME NEW answer \in {"ok", "refused"}, NEW reply,
             reply \in User \cup Exchange \cup {Nothing} \cup (SUBSET Entry) \cup Seq(Exchange)
      PROVE  LET c == Answered(call, answer, reply) IN
             /\ c \in CallRecord
             /\ c.kind = call.kind /\ c.token = call.token /\ c.about = call.about
             /\ c.then = call.then /\ c.answer = answer /\ c.reply = reply
    <2>1. Answered(call, answer, reply) \in CallRecord
        BY <1>1, <1>2 DEF CallRecord, Answered
    <2> QED BY <2>1, AnsweredFields
<1>3. Answered(call, "refused", Nothing) \in Call
    BY <1>1, <1>2 DEF Call, WellFormed
<1>4. Listing(call.token) \in SUBSET Entry
    <2>1. \A c \in Conversation : Len(store[c]) \in Nat
        BY LenProperties DEF TypesHold
    <2> QED BY <2>1 DEF Listing, Entry
<1>5. CASE call.kind = "me"
    <2>1. Reply(call) = call.token /\ call.token \in User
        BY <1>1, <1>5 DEF Reply, WellFormed
    <2> QED BY <1>1, <1>2, <1>3, <1>5, <2>1 DEF Call, WellFormed
<1>6. CASE call.kind = "login"
    <2>1. Reply(call) = call.about /\ call.about \in User
        BY <1>1, <1>6 DEF Reply, WellFormed
    <2> QED BY <1>1, <1>2, <1>3, <1>6, <2>1 DEF Call, WellFormed
<1>7. CASE call.kind = "list"
    <2>1. Reply(call) = Listing(call.token)
        BY <1>1, <1>7 DEF Reply
    <2> QED BY <1>1, <1>2, <1>3, <1>4, <1>7, <2>1 DEF Call, WellFormed
<1>8. CASE call.kind = "create"
    <2>1. Reply(call) = call.about /\ call.about \in Conversation
        BY <1>1, <1>8 DEF Reply, WellFormed
    <2> QED BY <1>1, <1>2, <1>3, <1>8, <2>1 DEF Call, WellFormed, Exchange
<1>9. CASE call.kind = "messages"
    <2>1. Reply(call) = store[call.about] /\ store[call.about] \in Seq(Exchange)
        BY <1>1, <1>9 DEF Reply, WellFormed, TypesHold
    <2> DEFINE c == Answered(call, "ok", Reply(call))
    <2>2. /\ c \in CallRecord
          /\ c.kind = call.kind /\ c.token = call.token /\ c.about = call.about
          /\ c.then = call.then /\ c.reply = store[call.about]
        BY <1>2, <2>1
    <2> HIDE DEF c
    <2>3. WellFormed(c)
        BY <1>1, <1>9, <2>1, <2>2 DEF WellFormed
    <2>4. c \in Call
        BY <2>2, <2>3 DEF Call
    <2> QED BY <1>3, <2>4 DEF c
<1>10. CASE call.kind = "send"
    <2>1. Reply(call) = call.about.key /\ call.about.key \in Key
        BY <1>1, <1>10 DEF Reply, WellFormed
    <2> QED BY <1>1, <1>2, <1>3, <1>10, <2>1 DEF Call, WellFormed, Exchange
<1> QED BY <1>1, <1>5, <1>6, <1>7, <1>8, <1>9, <1>10 DEF CallRecord

\* What an answer brings to its handler.
LEMMA OkReply ==
    ASSUME TypesHold, NEW k \in DOMAIN calls
    PROVE  /\ Ok(k, "me") => calls[k].reply = calls[k].token /\ calls[k].token \in User
           /\ Ok(k, "login") => calls[k].reply = calls[k].about /\ calls[k].about \in User
           /\ Ok(k, "list") => calls[k].reply \in SUBSET Entry
           /\ Ok(k, "create") => /\ calls[k].reply = calls[k].about
                                 /\ calls[k].about \in Conversation
           /\ Ok(k, "messages") => calls[k].reply \in Seq(Exchange)
           /\ Ok(k, "send") => /\ calls[k].reply = calls[k].about.key
                               /\ calls[k].about \in [convo : Conversation, key : Key]
BY CallAt DEF Ok, WellFormed

LEMMA InitTypes == Init => TypesHold
<1> SUFFICES ASSUME Init PROVE TypesHold
    OBVIOUS
<1>1. calls \in Seq(Call)
    <2>1. CASE stored = Nothing
        <3>1. LogIn(Alice) \in Call
            BY UserAssumption, RequestIsCall DEF Init, LogIn
        <3> QED BY <2>1, <3>1, OneCall DEF Init
    <2>2. CASE stored \in User
        <3>1. Request("me", stored, Nothing, Nothing) \in Call /\ stored # Nothing
            BY <2>2, RequestIsCall, NullAssumption
        <3> QED BY <3>1, OneCall DEF Init
    <2> QED BY <2>1, <2>2 DEF Init
<1>2. owner \in [Conversation -> User \cup {Nothing}]
    BY OwnerAssumption DEF Init
<1>3. store \in [Conversation -> Seq(Exchange)]
    <2>1. \A c \in Conversation : << >> \in Seq(Exchange) /\ << c >> \in Seq(Exchange)
        BY DEF Exchange
    <2> QED BY <2>1 DEF Init
<1>4. IsFiniteSet({})
    BY FS_EmptySet
<1>5. container \in Seq(Exchange) /\ conversations \in SUBSET Entry
    BY DEF Init
<1>6. clicks \in 0 .. MaxClicks /\ failures \in 0 .. MaxFailures
    BY BoundAssumption DEF Init
<1> QED BY <1>1, <1>2, <1>3, <1>4, <1>5, <1>6 DEF Init, TypesHold

LEMMA ServeOrFail ==
    ASSUME TypesHold, NEW k PROVE ~(Serve(k) /\ Fail(k))
<1>1. failures \in Nat
    BY BoundAssumption DEF TypesHold
<1>2. Serve(k) => failures' = failures
    BY DEF Serve
<1>3. Fail(k) => failures' = failures + 1
    BY DEF Fail
<1> QED BY <1>1, <1>2, <1>3

\* The call that an answer comes to.
LEMMA ServeAnswers ==
    ASSUME TypesHold, NEW k \in DOMAIN calls, Serve(k) \/ Fail(k)
    PROVE  /\ calls' \in Seq(Call)
           /\ Len(calls') = Len(calls) /\ DOMAIN calls' = DOMAIN calls
           /\ \A j \in DOMAIN calls \ {k} : calls'[j] = calls[j]
           /\ calls'[k].kind = calls[k].kind /\ calls'[k].token = calls[k].token
           /\ calls'[k].about = calls[k].about /\ calls'[k].then = calls[k].then
           /\ Fail(k) \/ Refuses(calls[k]) => calls'[k].answer = "refused"
           /\ Serve(k) /\ ~Refuses(calls[k]) =>
                calls'[k].answer = "ok" /\ calls'[k].reply = Reply(calls[k])
<1> DEFINE no == Answered(calls[k], "refused", Nothing)
           yes == Answered(calls[k], "ok", Reply(calls[k]))
<1>1. no \in Call /\ yes \in Call /\ calls[k] \in Call /\ calls \in Seq(Call)
    BY CallAt, AnswerIsCall DEF TypesHold
<1>2. /\ no.kind = calls[k].kind /\ no.token = calls[k].token
      /\ no.about = calls[k].about /\ no.then = calls[k].then /\ no.answer = "refused"
    BY <1>1, AnsweredFields
<1>3. /\ yes.kind = calls[k].kind /\ yes.token = calls[k].token
      /\ yes.about = calls[k].about /\ yes.then = calls[k].then /\ yes.answer = "ok"
      /\ yes.reply = Reply(calls[k])
    BY <1>1, AnsweredFields
<1>5. CASE Fail(k) \/ (Serve(k) /\ Refuses(calls[k]))
    <2>1. calls' = [calls EXCEPT ![k] = no]
        BY <1>5 DEF Serve, Fail
    <2> HIDE DEF no, yes
    <2>2. /\ calls' \in Seq(Call) /\ Len(calls') = Len(calls) /\ DOMAIN calls' = DOMAIN calls
          /\ \A j \in DOMAIN calls \ {k} : calls'[j] = calls[j]
          /\ calls'[k] = no
        BY <1>1, <2>1, AnsweredCall
    <2>3. Fail(k) => ~Serve(k)
        BY ServeOrFail
    <2> QED BY <1>2, <1>5, <2>2, <2>3
<1>6. CASE Serve(k) /\ ~Refuses(calls[k])
    <2>1. calls' = [calls EXCEPT ![k] = yes]
        BY <1>6 DEF Serve
    <2> HIDE DEF no, yes
    <2>2. /\ calls' \in Seq(Call) /\ Len(calls') = Len(calls) /\ DOMAIN calls' = DOMAIN calls
          /\ \A j \in DOMAIN calls \ {k} : calls'[j] = calls[j]
          /\ calls'[k] = yes
        BY <1>1, <2>1, AnsweredCall
    <2>3. ~Fail(k)
        BY <1>6, ServeOrFail
    <2> QED BY <1>3, <1>6, <2>2, <2>3
<1> QED BY <1>5, <1>6

LEMMA ServeTypes ==
    ASSUME TypesHold, NEW k \in DOMAIN calls, Serve(k) PROVE TypesHold'
<1>1. calls[k] \in Call /\ calls[k] \in CallRecord /\ WellFormed(calls[k])
    BY CallAt
<1>2. calls' \in Seq(Call)
    BY ServeAnswers
<1>3. owner' \in [Conversation -> User \cup {Nothing}]
    BY <1>1 DEF Serve, CallRecord, TypesHold
<1>4. store' \in [Conversation -> Seq(Exchange)]
    <2>1. CASE Executes(calls[k])
        <3> DEFINE a == calls[k].about
        <3>1. a.convo \in Conversation /\ a.key \in Exchange
            BY <2>1, <1>1 DEF Executes, WellFormed, Exchange
        <3>2. Append(store[a.convo], a.key) \in Seq(Exchange)
            BY <3>1, AppendProperties DEF TypesHold
        <3>3. store' = [store EXCEPT ![a.convo] = Append(store[a.convo], a.key)]
            BY <2>1 DEF Serve
        <3> QED BY <3>1, <3>2, <3>3 DEF TypesHold
    <2> QED BY <2>1 DEF Serve, TypesHold
<1> QED BY <1>2, <1>3, <1>4 DEF Serve, TypesHold, session, page

LEMMA FailTypes ==
    ASSUME TypesHold, NEW k \in DOMAIN calls, Fail(k) PROVE TypesHold'
<1>1. calls' \in Seq(Call)
    BY ServeAnswers
<1>2. failures' \in 0 .. MaxFailures
    BY BoundAssumption DEF Fail, TypesHold
<1> QED BY <1>1, <1>2 DEF Fail, TypesHold, session, page, server

\* A handler adds well-formed calls; what else it does is on the page.
LEMMA HandledTypes ==
    ASSUME TypesHold, NEW k \in DOMAIN calls, NEW further \in Seq(Call), Handled(k, further)
    PROVE  /\ calls' \in Seq(Call)
           /\ disturbed' \in SUBSET {"unreliable", "refused", "replay"}
           /\ owner' = owner /\ store' = store /\ clicks' = clicks /\ failures' = failures
BY HandledCalls DEF Handled, TypesHold, server

LEMMA AddUser ==
    ASSUME TypesHold, NEW u \in User
    PROVE  signedIn \cup {u} \in SUBSET User /\ IsFiniteSet(signedIn \cup {u})
BY FS_AddElement DEF TypesHold

LEMMA AnswerTypes ==
    ASSUME TypesHold, NEW k \in DOMAIN calls, Answer(k) PROVE TypesHold'
<1>1. CASE Me(k)
    <2>1. << LoadConversations(authToken, Nothing) >> \in Seq(Call)
        BY RequestIsCall, OneCall DEF TypesHold
    <2>2. calls[k].reply \in User
        BY <1>1, OkReply DEF Me
    <2> QED BY <1>1, <2>1, <2>2, HandledTypes, AddUser DEF Me, page, TypesHold
<1>2. CASE MeFails(k)
    <2>1. Request("login", Nothing, Alice, Nothing) \in Call
        BY RequestIsCall, UserAssumption
    <2>2. << >> \in Seq(Call) /\ << Request("login", Nothing, Alice, Nothing) >> \in Seq(Call)
        BY <2>1, OneCall
    <2> QED BY <1>2, <2>2, HandledTypes DEF MeFails, page, TypesHold
<1>3. CASE Login(k)
    <2>1. calls[k].reply \in User
        BY <1>3, OkReply DEF Login
    <2>2. << LoadConversations(calls[k].reply, Nothing) >> \in Seq(Call)
        BY <2>1, RequestIsCall, OneCall
    <2> QED BY <1>3, <2>1, <2>2, HandledTypes, AddUser DEF Login, page, TypesHold
<1>4. CASE List(k) \/ ListFails(k)
    <2>1. PICK cs \in Seq(Conversation) : Handled(k, Loads(cs)) /\ Selects(cs)
        BY <1>4, ListSelects
    <2>2. currentConvoId' \in Conversation \cup {Nothing}
        BY <2>1, LastSelected DEF Selects, TypesHold
    <2>3. conversations' \in SUBSET Entry
        BY <1>4, OkReply DEF List, ListFails, TypesHold
    <2> QED BY <2>1, <2>2, <2>3, LoadsCalls, HandledTypes DEF Selects, session, TypesHold
<1>5. CASE Create(k)
    <2>1. calls[k].reply \in Conversation
        BY <1>5, OkReply DEF Create
    <2>2. << LoadConversations(authToken, calls[k].reply) >> \in Seq(Call)
        BY <2>1, RequestIsCall, OneCall DEF TypesHold
    <2> QED BY <1>5, <2>2, HandledTypes DEF Create, session, page, TypesHold
<1>6. CASE Messages(k)
    <2>1. calls[k].reply \in Seq(Exchange)
        BY <1>6, OkReply DEF Messages
    <2>2. << >> \in Seq(Call)
        OBVIOUS
    <2> QED BY <1>6, <2>1, <2>2, HandledTypes DEF Messages, session, TypesHold
<1>7. CASE Send(k)
    <2>1. calls[k].reply \in Exchange
        BY <1>7, OkReply DEF Send, Exchange
    <2>2. Append(container, calls[k].reply) \in Seq(Exchange)
        BY <2>1, AppendProperties DEF TypesHold
    <2>3. << LoadConversations(authToken, Nothing) >> \in Seq(Call)
        BY RequestIsCall, OneCall DEF TypesHold
    <2> QED BY <1>7, <2>2, <2>3, HandledTypes DEF Send, session, TypesHold
<1>8. CASE OtherFails(k)
    <2>1. << >> \in Seq(Call)
        OBVIOUS
    <2> QED BY <1>8, <2>1, HandledTypes DEF OtherFails, session, page, TypesHold
<1> QED BY <1>1, <1>2, <1>3, <1>4, <1>5, <1>6, <1>7, <1>8 DEF Answer

\* What the user asks for by a click.
Clicked(call) ==
    /\ Click(<< call >>) /\ call \in Call /\ call.answer = "pending"
    /\ container' = container

LEMMA ClicksAre ==
    ASSUME TypesHold
    PROVE  /\ \A u \in User : ClickLogin(u) =>
                /\ Clicked(LogIn(u)) /\ currentConvoId' = currentConvoId
                /\ lastKey' = lastKey /\ disturbed' = disturbed
           /\ \A c \in Conversation : ClickConversation(c) =>
                /\ Clicked(LoadMessages(authToken, c)) /\ currentConvoId' = c
                /\ lastKey' = lastKey /\ disturbed' = disturbed
           /\ \A c \in Conversation : ClickNew(c) =>
                /\ Clicked(Request("create", authToken, c, Nothing))
                /\ currentConvoId' = currentConvoId
                /\ lastKey' = lastKey /\ disturbed' = disturbed
           /\ \A key \in Key : Submit(key) =>
                /\ Clicked(SendOf(key)) /\ currentConvoId' = currentConvoId
                /\ lastKey' = key /\ disturbed' = disturbed
           /\ SubmitReplay =>
                /\ Clicked(SendOf(lastKey)) /\ currentConvoId' = currentConvoId
                /\ lastKey' = lastKey /\ disturbed' = disturbed \cup {"replay"}
<1>1. \A u \in User : LogIn(u) \in Call /\ LogIn(u).answer = "pending"
    BY RequestIsCall DEF LogIn, Request, TypesHold
<1>2. \A c \in Conversation :
        /\ LoadMessages(authToken, c) \in Call /\ LoadMessages(authToken, c).answer = "pending"
        /\ Request("create", authToken, c, Nothing) \in Call
        /\ Request("create", authToken, c, Nothing).answer = "pending"
    BY RequestIsCall DEF LoadMessages, Request, TypesHold
<1>3. currentConvoId # Nothing => \A key \in Key :
        SendOf(key) \in Call /\ SendOf(key).answer = "pending"
    <2>1. currentConvoId # Nothing => \A key \in Key :
            [convo |-> currentConvoId, key |-> key] \in [convo : Conversation, key : Key]
        BY DEF TypesHold
    <2> QED BY <2>1, RequestIsCall DEF SendOf, Request, TypesHold
<1>4. lastKey # Nothing => lastKey \in Key
    BY DEF TypesHold
<1> QED BY <1>1, <1>2, <1>3, <1>4
        DEF ClickLogin, ClickConversation, ClickNew, Submit, SubmitReplay, Clicked

LEMMA ClickTypes ==
    ASSUME TypesHold, NEW call, Clicked(call),
           currentConvoId' \in Conversation \cup {Nothing}, lastKey' \in Key \cup {Nothing},
           disturbed' \in SUBSET {"unreliable", "refused", "replay"}
    PROVE  TypesHold'
<1>1. calls' \in Seq(Call)
    BY ClickCalls DEF Clicked, TypesHold
<1>2. clicks' \in 0 .. MaxClicks
    BY BoundAssumption DEF Clicked, Click, TypesHold
<1> QED BY <1>1, <1>2 DEF Clicked, Click, TypesHold, session, server

LEMMA NextTypes == TypesHold /\ [Next]_vars => TypesHold'
<1> SUFFICES ASSUME TypesHold, [Next]_vars PROVE TypesHold'
    OBVIOUS
<1>1. CASE \E k \in DOMAIN calls : Serve(k) \/ Fail(k) \/ Answer(k)
    BY <1>1, ServeTypes, FailTypes, AnswerTypes
<1>2. ASSUME NEW u \in User, ClickLogin(u) PROVE TypesHold'
    BY <1>2, ClicksAre, ClickTypes DEF TypesHold
<1>3. ASSUME NEW c \in Conversation, ClickConversation(c) PROVE TypesHold'
    BY <1>3, ClicksAre, ClickTypes DEF TypesHold
<1>4. ASSUME NEW c \in Conversation, ClickNew(c) PROVE TypesHold'
    BY <1>4, ClicksAre, ClickTypes DEF TypesHold
<1>5. ASSUME NEW key \in Key, Submit(key) PROVE TypesHold'
    BY <1>5, ClicksAre, ClickTypes DEF TypesHold
<1>6. CASE SubmitReplay
    <2>1. disturbed' \in SUBSET {"unreliable", "refused", "replay"}
        BY <1>6 DEF SubmitReplay, TypesHold
    <2> QED BY <1>6, <2>1, ClicksAre, ClickTypes DEF TypesHold
<1>7. CASE UNCHANGED vars
    BY <1>7 DEF vars, session, page, server, TypesHold
<1> QED BY <1>1, <1>2, <1>3, <1>4, <1>5, <1>6, <1>7 DEF Next

-----------------------------------------------------------------------------
(* What is known stays known                                               *)

\* Users signed in, conversations of theirs and what is stored there are never
\* lost.
Grows ==
    /\ signedIn \subseteq signedIn'
    /\ \A c \in Conversation : Mine(c) => Mine(c)'
    /\ \A item \in Exchange : (Kept(item) => Kept(item)') /\ (Seen(item) => Seen(item)')

LEMMA SameServerGrows ==
    ASSUME owner' = owner, store' = store, signedIn \subseteq signedIn'
    PROVE  Grows
<1>1. \A c \in Conversation : Mine(c) => Mine(c)'
    BY DEF Mine
<1>2. \A item \in Exchange : StoredIn(item)' = StoredIn(item) /\ StoredIn(item) \subseteq Conversation
    BY DEF StoredIn
<1> QED BY <1>1, <1>2 DEF Grows, Kept, Seen

\* A call that is known stays known.
LEMMA CallStaysKnown ==
    ASSUME Grows, NEW call \in Call, CallKnown(call)
    PROVE  CallKnown(call)'
<1>1. call \in CallRecord /\ WellFormed(call)
    BY DEF Call
<1>2. call.kind \notin {"me", "login"} => signedIn' # {} /\ call.token \in signedIn' \cup {Nothing}
    BY DEF Grows, CallKnown
<1>3. call.then # Nothing => Mine(call.then)'
    BY <1>1 DEF Grows, CallKnown, CallRecord
<1>4. call.kind = "messages" => Mine(call.about)'
    BY <1>1 DEF Grows, CallKnown, WellFormed
<1>5. call.kind = "send" => Mine(call.about.convo)' /\ Kept(call.about.key)'
    BY <1>1 DEF Grows, CallKnown, WellFormed, Exchange
<1>6. ASSUME call.answer = "ok"
      PROVE  /\ call.kind = "list" => \A row \in call.reply : Mine(row.id)'
             /\ call.kind = "create" => Mine(call.about)'
             /\ call.kind = "messages" => \A n \in DOMAIN call.reply : Seen(call.reply[n])'
             /\ call.kind = "send" => Seen(call.about.key)'
    <2>1. call.kind = "list" => \A row \in call.reply : Mine(row.id)'
        BY <1>1, <1>6 DEF Grows, CallKnown, WellFormed, Entry
    <2>2. call.kind = "create" => Mine(call.about)'
        BY <1>1, <1>6 DEF Grows, CallKnown, WellFormed
    <2>3. ASSUME call.kind = "messages", NEW n \in DOMAIN call.reply
          PROVE  Seen(call.reply[n])'
        <3>1. call.reply \in Seq(Exchange)
            BY <1>1, <1>6, <2>3 DEF WellFormed
        <3>2. call.reply[n] \in Exchange
            BY <3>1, LenProperties, ElementOfSeq
        <3>3. Seen(call.reply[n])
            BY <1>6, <2>3 DEF CallKnown
        <3> QED BY <3>2, <3>3 DEF Grows
    <2>4. call.kind = "send" => Seen(call.about.key)'
        BY <1>1, <1>6 DEF Grows, CallKnown, WellFormed, Exchange
    <2> QED BY <2>1, <2>2, <2>3, <2>4
<1> QED BY <1>2, <1>3, <1>4, <1>5, <1>6 DEF CallKnown

\* What the page holds stays known as long as the page holds it.
LEMMA PageStaysKnown ==
    ASSUME Grows, TypesHold, PageKnown
    PROVE  /\ conversations' = conversations => \A row \in conversations' : Mine(row.id)'
           /\ currentConvoId' = currentConvoId =>
                (currentConvoId' # Nothing => Mine(currentConvoId)')
           /\ lastKey' = lastKey => (lastKey' # Nothing => Kept(lastKey)')
           /\ container' = container => ShownIsStored'
<1>1. conversations' = conversations => \A row \in conversations' : Mine(row.id)'
    BY DEF Grows, TypesHold, PageKnown, Entry
<1>2. ASSUME currentConvoId' = currentConvoId, currentConvoId # Nothing
      PROVE  Mine(currentConvoId)'
    <2>1. currentConvoId \in Conversation /\ Mine(currentConvoId)
        BY <1>2 DEF TypesHold, PageKnown
    <2> QED BY <2>1, <1>2 DEF Grows, Mine
<1>3. ASSUME lastKey' = lastKey, lastKey # Nothing
      PROVE  Kept(lastKey)'
    <2>1. lastKey \in Exchange /\ Kept(lastKey)
        BY <1>3 DEF TypesHold, PageKnown, Exchange
    <2>2. Kept(lastKey) => \A key \in {lastKey} : Kept(key)'
        BY <2>1 DEF Grows
    <2> QED BY <2>1, <2>2, <1>3 DEF Kept, StoredIn, Mine
<1>4. ASSUME container' = container
      PROVE  ShownIsStored'
    <2>1. \A n \in DOMAIN container : container[n] \in Exchange /\ Seen(container[n])
        BY LenProperties, ElementOfSeq DEF TypesHold, PageKnown, ShownIsStored, Seen, Kept, Mine
    <2>2. \A n \in DOMAIN container : \A item \in {container[n]} : Seen(item)'
        BY <2>1 DEF Grows
    <2> QED BY <1>4, <2>2 DEF ShownIsStored, Seen, Kept, Mine, StoredIn
<1> QED BY <1>1, <1>2, <1>3, <1>4

LEMMA HandledKnown ==
    ASSUME TypesHold, CallsKnown, Grows, NEW k \in DOMAIN calls, NEW further \in Seq(Call),
           Handled(k, further), \A n \in DOMAIN further : CallKnown(further[n])'
    PROVE  CallsKnown'
<1>1. ASSUME NEW i \in DOMAIN calls' PROVE \A call \in {calls'[i]} : CallKnown(call)'
    <2>1. CASE Came(i, k) \in DOMAIN calls /\ calls'[i] = calls[Came(i, k)]
        BY <2>1, CallAt, CallStaysKnown DEF CallsKnown
    <2>2. CASE \E n \in DOMAIN further : calls'[i] = further[n]
        <3>1. PICK n \in DOMAIN further : calls'[i] = further[n]
            BY <2>2
        <3> QED BY <3>1
    <2> QED BY <2>1, <2>2, HandledCalls DEF TypesHold
<1> QED BY <1>1 DEF CallsKnown, CallKnown, Seen, Kept, Mine, StoredIn

-----------------------------------------------------------------------------
(* The server's part in it                                                 *)

\* An exchange is stored where it was, and where the call served adds it.
LEMMA ServeStores ==
    ASSUME TypesHold, NEW k \in DOMAIN calls, Serve(k)
    PROVE  LET a == calls[k].about IN
           /\ Executes(calls[k]) =>
                /\ a.convo \in Conversation /\ a.key \in Exchange
                /\ Len(store'[a.convo]) = Len(store[a.convo]) + 1
                /\ DOMAIN store[a.convo] = 1 .. Len(store[a.convo])
                /\ DOMAIN store'[a.convo] = 1 .. Len(store[a.convo]) + 1
                /\ \A n \in DOMAIN store[a.convo] : store'[a.convo][n] = store[a.convo][n]
                /\ store'[a.convo][Len(store[a.convo]) + 1] = a.key
                /\ \A c \in Conversation \ {a.convo} : store'[c] = store[c]
                /\ \A item : item = a.key => StoredIn(item)' = {a.convo}
                /\ \A item : item # a.key => StoredIn(item)' = StoredIn(item)
           /\ ~Executes(calls[k]) => /\ store' = store
                                     /\ \A item : StoredIn(item)' = StoredIn(item)
<1> DEFINE a == calls[k].about
           c0 == a.convo
<1>1. CASE Executes(calls[k])
    <2>1. c0 \in Conversation /\ a.key \in Exchange /\ StoredIn(a.key) = {}
        BY <1>1, CallAt DEF Executes, WellFormed, Exchange
    <2>2. store[c0] \in Seq(Exchange) /\ store' = [store EXCEPT ![c0] = Append(store[c0], a.key)]
        BY <1>1, <2>1 DEF Serve, TypesHold
    <2>3. store'[c0] = Append(store[c0], a.key) /\ \A c \in Conversation \ {c0} : store'[c] = store[c]
        BY <2>1, <2>2 DEF TypesHold
    <2>4. Len(store[c0]) \in Nat /\ DOMAIN store[c0] = 1 .. Len(store[c0])
        BY <2>2, LenProperties
    <2>5. /\ store'[c0] \in Seq(Exchange) /\ Len(store'[c0]) = Len(store[c0]) + 1
          /\ \A n \in 1 .. Len(store[c0]) : store'[c0][n] = store[c0][n]
          /\ store'[c0][Len(store[c0]) + 1] = a.key
        BY <2>1, <2>2, <2>3, AppendProperties
    <2>6. DOMAIN store'[c0] = 1 .. Len(store[c0]) + 1
        BY <2>5, LenProperties
    <2> HIDE DEF a, c0
    <2>7. Len(store[c0]) + 1 \in DOMAIN store'[c0]
        BY <2>4, <2>6
    <2>8. \A n \in DOMAIN store'[c0] :
            \/ n \in DOMAIN store[c0] /\ store'[c0][n] = store[c0][n]
            \/ n = Len(store[c0]) + 1
        BY <2>4, <2>5, <2>6
    <2>9. \A n \in DOMAIN store[c0] : n \in DOMAIN store'[c0] /\ store'[c0][n] = store[c0][n]
        BY <2>4, <2>5, <2>6
    <2>10. ASSUME NEW item, item = a.key
           PROVE  StoredIn(item)' = {c0}
        <3>1. c0 \in StoredIn(item)'
            BY <2>1, <2>5, <2>7, <2>10 DEF StoredIn
        <3>2. ASSUME NEW c \in Conversation \ {c0} PROVE c \notin StoredIn(item)'
            BY <2>1, <2>3, <2>10 DEF StoredIn
        <3> QED BY <3>1, <3>2 DEF StoredIn
    <2>11. ASSUME NEW item, item # a.key
           PROVE  StoredIn(item)' = StoredIn(item)
        <3>1. \A c \in Conversation \ {c0} : c \in StoredIn(item)' <=> c \in StoredIn(item)
            BY <2>3 DEF StoredIn
        <3>2. c0 \in StoredIn(item)' <=> c0 \in StoredIn(item)
            BY <2>1, <2>5, <2>8, <2>9, <2>11 DEF StoredIn
        <3> QED BY <3>1, <3>2 DEF StoredIn
    <2> QED BY <1>1, <2>1, <2>3, <2>4, <2>5, <2>6, <2>9, <2>10, <2>11 DEF a, c0
<1>2. CASE ~Executes(calls[k])
    BY <1>2 DEF Serve, StoredIn
<1> QED BY <1>1, <1>2

LEMMA ServeOwns ==
    ASSUME TypesHold, CallsKnown, NEW k \in DOMAIN calls, Serve(k)
    PROVE  /\ signedIn' = signedIn
           /\ \A c \in Conversation : Mine(c) => Mine(c)'
           /\ ~Refuses(calls[k]) /\ calls[k].kind \notin {"me", "login"} =>
                calls[k].token \in signedIn
           /\ ~Refuses(calls[k]) /\ calls[k].kind = "create" =>
                owner'[calls[k].about] = calls[k].token
           /\ calls[k].kind # "create" => owner' = owner
<1>1. WellFormed(calls[k]) /\ CallKnown(calls[k])
    BY CallAt DEF CallsKnown
<1>2. ~Refuses(calls[k]) /\ calls[k].kind \notin {"me", "login"} => calls[k].token \in signedIn
    BY <1>1 DEF CallKnown, Refuses
<1> QED BY <1>1, <1>2 DEF Serve, WellFormed, Mine, TypesHold

LEMMA ServeGrows ==
    ASSUME TypesHold, CallsKnown, NEW k \in DOMAIN calls, Serve(k)
    PROVE  Grows
<1>1. signedIn' = signedIn /\ \A c \in Conversation : Mine(c) => Mine(c)'
    BY ServeOwns
<1>2. ASSUME NEW item \in Exchange
      PROVE  (Kept(item) => Kept(item)') /\ (Seen(item) => Seen(item)')
    <2>1. StoredIn(item) \subseteq Conversation
        BY DEF StoredIn
    <2>2. CASE Executes(calls[k]) /\ item = calls[k].about.key
        <3>1. StoredIn(item)' = {calls[k].about.convo} /\ calls[k].about.convo \in Conversation
            BY <2>2, ServeStores
        <3>2. CallKnown(calls[k]) /\ calls[k].kind = "send"
            BY <2>2 DEF CallsKnown, Executes
        <3>3. Mine(calls[k].about.convo)
            BY <3>2 DEF CallKnown
        <3>4. \A c \in StoredIn(item)' : Mine(c)'
            BY <1>1, <3>1, <3>3
        <3> QED BY <3>1, <3>4 DEF Kept, Seen
    <2>3. CASE ~(Executes(calls[k]) /\ item = calls[k].about.key)
        <3>1. StoredIn(item)' = StoredIn(item)
            BY <2>3, ServeStores
        <3> QED BY <1>1, <2>1, <3>1 DEF Kept, Seen
    <2> QED BY <2>2, <2>3
<1> QED BY <1>1, <1>2 DEF Grows

LEMMA ServeStoresOnce ==
    ASSUME TypesHold, StoredOnce, NEW k \in DOMAIN calls, Serve(k)
    PROVE  StoredOnce'
<1> DEFINE a == calls[k].about
           c0 == a.convo
<1>1. CASE Executes(calls[k])
    <2>1. StoredIn(a.key) = {}
        BY <1>1 DEF Executes
    <2>2. /\ c0 \in Conversation
          /\ \A c \in Conversation \ {c0} : store'[c] = store[c]
          /\ \A n \in DOMAIN store[c0] : store'[c0][n] = store[c0][n]
          /\ store'[c0][Len(store[c0]) + 1] = a.key
          /\ \A n \in DOMAIN store'[c0] : n \in DOMAIN store[c0] \/ n = Len(store[c0]) + 1
        <3>1. /\ DOMAIN store[c0] = 1 .. Len(store[c0])
              /\ DOMAIN store'[c0] = 1 .. Len(store[c0]) + 1
            BY <1>1, ServeStores
        <3>2. Len(store[c0]) \in Nat
            BY <1>1, ServeStores, LenProperties DEF TypesHold
        <3>3. \A n \in 1 .. Len(store[c0]) + 1 : n \in 1 .. Len(store[c0]) \/ n = Len(store[c0]) + 1
            BY <3>2
        <3> QED BY <1>1, <3>1, <3>3, ServeStores
    <2>3. \A c \in Conversation : \A n \in DOMAIN store[c] : store[c][n] # a.key
        BY <2>1 DEF StoredIn
    <2> HIDE DEF a, c0
    <2>4. ASSUME NEW c \in Conversation, NEW n \in DOMAIN store'[c]
          PROVE  \/ n \in DOMAIN store[c] /\ store'[c][n] = store[c][n]
                 \/ c = c0 /\ n = Len(store[c0]) + 1 /\ store'[c][n] = a.key
        BY <2>2
    <2>5. ASSUME NEW c \in Conversation, NEW d \in Conversation,
                 NEW m \in DOMAIN store'[c], NEW n \in DOMAIN store'[d],
                 store'[c][m] = store'[d][n]
          PROVE  c = d /\ m = n
        <3>1. CASE m \in DOMAIN store[c] /\ store'[c][m] = store[c][m]
            <4>1. n \in DOMAIN store[d] /\ store'[d][n] = store[d][n]
                <5>1. store'[d][n] # a.key
                    BY <2>3, <2>5, <3>1
                <5>2. \/ n \in DOMAIN store[d] /\ store'[d][n] = store[d][n]
                      \/ store'[d][n] = a.key
                    BY <2>4
                <5> QED BY <5>1, <5>2
            <4>2. store[c][m] = store[d][n]
                BY <3>1, <4>1, <2>5
            <4>3. \A p \in DOMAIN store[c], q \in DOMAIN store[d] :
                    store[c][p] = store[d][q] => c = d /\ p = q
                BY DEF StoredOnce
            <4> QED BY <3>1, <4>1, <4>2, <4>3
        <3>2. CASE c = c0 /\ m = Len(store[c0]) + 1 /\ store'[c][m] = a.key
            <4>1. \/ n \in DOMAIN store[d] /\ store'[d][n] = store[d][n]
                  \/ d = c0 /\ n = Len(store[c0]) + 1
                BY <2>4
            <4>2. ~(n \in DOMAIN store[d] /\ store'[d][n] = store[d][n])
                BY <2>3, <2>5, <3>2
            <4> QED BY <3>2, <4>1, <4>2
        <3> QED BY <2>4, <3>1, <3>2
    <2> QED BY <2>5 DEF StoredOnce
<1>2. CASE ~Executes(calls[k])
    BY <1>2, ServeStores DEF StoredOnce
<1> QED BY <1>1, <1>2

LEMMA ServedCallKnown ==
    ASSUME TypesHold, CallsKnown, StoredOnce, NEW k \in DOMAIN calls, Serve(k)
    PROVE  \A call \in {calls'[k]} : CallKnown(call)'
<1> DEFINE old == calls[k]
<1>1. Grows /\ CallKnown(old) /\ WellFormed(old) /\ old \in Call
    BY ServeGrows, CallAt DEF CallsKnown
<1>2. \A call \in {old} : CallKnown(call)'
    BY <1>1, CallStaysKnown
<1>3. CASE Refuses(old)
    <2>1. /\ calls'[k].kind = old.kind /\ calls'[k].token = old.token
          /\ calls'[k].about = old.about /\ calls'[k].then = old.then
          /\ calls'[k].answer = "refused"
        BY <1>3, ServeAnswers
    <2> QED BY <1>2, <2>1 DEF CallKnown
<1>4. CASE ~Refuses(old)
    <2>1. /\ calls'[k].kind = old.kind /\ calls'[k].token = old.token
          /\ calls'[k].about = old.about /\ calls'[k].then = old.then
          /\ calls'[k].answer = "ok" /\ calls'[k].reply = Reply(old)
        BY <1>4, ServeAnswers
    <2>2. ASSUME old.kind = "list" PROVE \A row \in Reply(old) : Mine(row.id)'
        <3>1. Reply(old) = Listing(old.token) /\ old.token \in signedIn
            BY <1>4, <2>2, ServeOwns DEF Reply
        <3>2. \A row \in Listing(old.token) : row.id \in Conversation /\ Mine(row.id)
            BY <3>1 DEF Listing, Mine
        <3> QED BY <1>1, <3>1, <3>2 DEF Grows
    <2>3. ASSUME old.kind = "create" PROVE \A c \in {old.about} : Mine(c)'
        BY <1>4, <2>3, ServeOwns DEF Mine
    <2>4. ASSUME old.kind = "messages" PROVE \A n \in DOMAIN Reply(old) : \A x \in {Reply(old)[n]} : Seen(x)'
        <3>1. /\ Reply(old) = store[old.about] /\ old.about \in Conversation
              /\ owner[old.about] = old.token /\ old.token \in signedIn
            BY <1>1, <1>4, <2>4, ServeOwns DEF Reply, Refuses, WellFormed
        <3>2. ASSUME NEW n \in DOMAIN store[old.about]
              PROVE  store[old.about][n] \in Exchange /\ Seen(store[old.about][n])
            <4>1. store[old.about] \in Seq(Exchange)
                BY <3>1 DEF TypesHold
            <4>2. store[old.about][n] \in Exchange
                BY <4>1, LenProperties, ElementOfSeq
            <4>3. StoredIn(store[old.about][n]) = {old.about}
                BY <3>1, <3>2 DEF StoredIn, StoredOnce
            <4> QED BY <3>1, <4>2, <4>3 DEF Seen, Kept, Mine
        <3> QED BY <1>1, <3>1, <3>2 DEF Grows
    <2>5. ASSUME old.kind = "send" PROVE \A x \in {old.about.key} : Seen(x)'
        <3>1. old.about.key \in Exchange /\ Kept(old.about.key)
            BY <1>1, <2>5 DEF WellFormed, CallKnown, Exchange
        <3>2. \A x \in {old.about.key} : Kept(x)'
            BY <1>1, <3>1 DEF Grows
        <3>3. ASSUME NEW x \in {old.about.key} PROVE StoredIn(x)' # {}
            <4>1. CASE Executes(old)
                <5>1. \A item : item = old.about.key => StoredIn(item)' = {old.about.convo}
                    BY <4>1, ServeStores
                <5> QED BY <3>3, <5>1
            <4>2. CASE ~Executes(old)
                BY <1>4, <2>5, <4>2, <3>3, ServeStores DEF Executes
            <4> QED BY <4>1, <4>2
        <3> QED BY <3>2, <3>3 DEF Seen
    <2> DEFINE new == calls'[k]
    <2>6. \A call \in {new} : /\ call.kind = "list" => \A row \in call.reply : Mine(row.id)'
                              /\ call.kind = "create" => Mine(call.about)'
                              /\ call.kind = "messages" =>
                                   \A n \in DOMAIN call.reply : Seen(call.reply[n])'
                              /\ call.kind = "send" => Seen(call.about.key)'
        BY <2>1, <2>2, <2>3, <2>4, <2>5
    <2> QED BY <1>2, <2>1, <2>6 DEF CallKnown
<1> QED BY <1>3, <1>4

LEMMA ServeSession ==
    ASSUME TypesHold, Session, NEW k \in DOMAIN calls, Serve(k) \/ Fail(k)
    PROVE  Session'
<1>1. /\ authToken' = authToken /\ currentUser' = currentUser /\ signedIn' = signedIn
      /\ currentConvoId' = currentConvoId /\ conversations' = conversations
      /\ container' = container
    BY DEF Serve, Fail, session, page
<1>2. /\ DOMAIN calls' = DOMAIN calls
      /\ \A j \in DOMAIN calls : calls'[j].kind = calls[j].kind /\ calls'[j].token = calls[j].token
    BY ServeAnswers
<1> QED BY <1>1, <1>2 DEF Session

LEMMA ServeKnown ==
    ASSUME Known, NEW k \in DOMAIN calls, Serve(k)
    PROVE  Known'
<1>1. TypesHold' /\ Session' /\ StoredOnce' /\ Grows
    BY ServeTypes, ServeSession, ServeStoresOnce, ServeGrows DEF Known
<1>2. CallsKnown'
    <2>1. ASSUME NEW j \in DOMAIN calls' PROVE \A call \in {calls'[j]} : CallKnown(call)'
        <3>1. CASE j = k
            BY <3>1, ServedCallKnown DEF Known
        <3>2. CASE j # k
            <4>1. j \in DOMAIN calls /\ calls'[j] = calls[j]
                BY <3>2, ServeAnswers DEF Known
            <4> QED BY <1>1, <4>1, CallAt, CallStaysKnown DEF Known, CallsKnown
        <3> QED BY <3>1, <3>2
    <2> QED BY <2>1 DEF CallsKnown, CallKnown, Seen, Kept, Mine, StoredIn
<1>3. PageKnown'
    BY <1>1, PageStaysKnown DEF Serve, page, Known, PageKnown
<1> QED BY <1>1, <1>2, <1>3 DEF Known

LEMMA FailKnown ==
    ASSUME Known, NEW k \in DOMAIN calls, Fail(k)
    PROVE  Known'
<1>1. owner' = owner /\ store' = store /\ signedIn' = signedIn
    BY DEF Fail, server
<1>2. TypesHold' /\ Session' /\ StoredOnce' /\ Grows
    BY <1>1, FailTypes, ServeSession, SameServerGrows DEF Known, StoredOnce
<1>3. CallsKnown'
    <2>1. ASSUME NEW j \in DOMAIN calls' PROVE \A call \in {calls'[j]} : CallKnown(call)'
        <3>1. CASE j = k
            <4>1. \A call \in {calls[k]} : CallKnown(call)'
                BY <1>2, CallAt, CallStaysKnown DEF Known, CallsKnown
            <4>2. /\ calls'[k].kind = calls[k].kind /\ calls'[k].token = calls[k].token
                  /\ calls'[k].about = calls[k].about /\ calls'[k].then = calls[k].then
                  /\ calls'[k].answer = "refused"
                BY ServeAnswers DEF Known
            <4> QED BY <3>1, <4>1, <4>2 DEF CallKnown
        <3>2. CASE j # k
            <4>1. j \in DOMAIN calls /\ calls'[j] = calls[j]
                BY <3>2, ServeAnswers DEF Known
            <4> QED BY <1>2, <4>1, CallAt, CallStaysKnown DEF Known, CallsKnown
        <3> QED BY <3>1, <3>2
    <2> QED BY <2>1 DEF CallsKnown, CallKnown, Seen, Kept, Mine, StoredIn
<1>4. PageKnown'
    BY <1>2, PageStaysKnown DEF Fail, page, Known, PageKnown
<1> QED BY <1>2, <1>3, <1>4 DEF Known

-----------------------------------------------------------------------------
(* The page's part in it                                                   *)

\* A handler starts no second attempt with the token that was kept.
LEMMA HandledSession ==
    ASSUME TypesHold, Session, NEW k \in DOMAIN calls, NEW further \in Seq(Call),
           Handled(k, further), \A n \in DOMAIN further : further[n].kind # "me"
    PROVE  /\ \A i, j \in DOMAIN calls' : calls'[i].kind = "me" /\ calls'[j].kind = "me" => i = j
           /\ \A j \in DOMAIN calls \ {k} : \E i \in DOMAIN calls' : calls'[i] = calls[j]
<1>1. ASSUME NEW i \in DOMAIN calls', calls'[i].kind = "me"
      PROVE  Came(i, k) \in DOMAIN calls /\ calls'[i] = calls[Came(i, k)]
    BY <1>1, HandledCalls DEF TypesHold
<1>2. ASSUME NEW i \in DOMAIN calls', NEW j \in DOMAIN calls',
             calls'[i].kind = "me", calls'[j].kind = "me"
      PROVE  i = j
    <2>1. Came(i, k) = Came(j, k)
        BY <1>1, <1>2 DEF Session
    <2> QED BY <2>1, HandledCalls DEF TypesHold
<1>3. ASSUME NEW j \in DOMAIN calls \ {k}
      PROVE  \E i \in DOMAIN calls' : calls'[i] = calls[j]
    <2> DEFINE i == IF j < k THEN j ELSE j - 1
    <2>1. /\ DOMAIN calls = 1 .. Len(calls) /\ Len(calls) \in Nat /\ Len(further) \in Nat
          /\ DOMAIN calls' = 1 .. Len(calls') /\ Len(calls') = Len(calls) - 1 + Len(further)
        BY CallAt, HandledCalls, LenProperties DEF TypesHold
    <2>2. i \in DOMAIN calls' /\ i < Len(calls) /\ Came(i, k) = j
        BY <2>1 DEF Came
    <2>3. calls'[i] = calls[Came(i, k)]
        BY <2>1, <2>2, HandledCalls DEF TypesHold
    <2> QED BY <2>2, <2>3
<1> QED BY <1>2, <1>3

\* Only a sign-in, or the trial of the token, is answered before the first
\* sign-in.
LEMMA SignedInForOthers ==
    ASSUME Known, NEW k \in DOMAIN calls, calls[k].kind \notin {"me", "login"}
    PROVE  /\ signedIn # {} /\ currentUser \in signedIn
           /\ authToken \in signedIn \cup {Nothing}
BY DEF Known, CallsKnown, CallKnown, Session

LEMMA MeKnown ==
    ASSUME Known, NEW k \in DOMAIN calls, Me(k)
    PROVE  Known'
<1> DEFINE call == LoadConversations(authToken, Nothing)
<1>1. TypesHold' /\ calls[k].reply = calls[k].token /\ calls[k].kind = "me"
    BY AnswerTypes, OkReply DEF Known, Answer, Me, Ok
<1>2. /\ owner' = owner /\ store' = store /\ signedIn' = signedIn \cup {calls[k].reply}
      /\ Handled(k, << call >>) /\ currentUser' = calls[k].reply /\ authToken' = authToken
    BY DEF Me, Handled, server
<1>3. Grows /\ StoredOnce'
    BY <1>2, SameServerGrows DEF Known, StoredOnce
<1>4. authToken \in signedIn' \cup {Nothing}
    BY <1>1, <1>2 DEF Known, Session
<1>5. call \in Call /\ << call >> \in Seq(Call) /\ DOMAIN << call >> = {1} /\ << call >>[1] = call
    BY RequestIsCall, OneCall DEF Known, TypesHold
<1>6. CallsKnown'
    <2>1. \A c \in {call} : CallKnown(c)'
        BY <1>2, <1>4 DEF CallKnown, LoadConversations, Request
    <2>2. \A s \in {<< call >>} : \A n \in DOMAIN s : CallKnown(s[n])'
        BY <2>1, <1>5
    <2> QED BY <2>2, <1>2, <1>3, <1>5, HandledKnown DEF Known
<1>7. PageKnown'
    BY <1>3, PageStaysKnown DEF Me, page, Known, PageKnown
<1>8. Session'
    <2>1. \A n \in DOMAIN << call >> : << call >>[n].kind # "me"
        BY <1>5 DEF LoadConversations, Request
    <2>2. \A i, j \in DOMAIN calls' : calls'[i].kind = "me" /\ calls'[j].kind = "me" => i = j
        BY <2>1, <1>2, <1>5, HandledSession DEF Known
    <2> QED BY <2>2, <1>2, <1>4 DEF Session
<1> QED BY <1>1, <1>3, <1>6, <1>7, <1>8 DEF Known

LEMMA MeFailsKnown ==
    ASSUME Known, NEW k \in DOMAIN calls, MeFails(k)
    PROVE  Known'
<1> DEFINE call == Request("login", Nothing, Alice, Nothing)
           further == IF currentUser # Nothing THEN << >> ELSE << call >>
<1>1. TypesHold'
    BY AnswerTypes DEF Known, Answer
<1>2. /\ owner' = owner /\ store' = store /\ signedIn' = signedIn
      /\ Handled(k, further) /\ currentUser' = currentUser /\ authToken' = Nothing
    BY DEF MeFails, Handled, server
<1>3. Grows /\ StoredOnce'
    BY <1>2, SameServerGrows DEF Known, StoredOnce
<1>4. call \in Call /\ << call >> \in Seq(Call) /\ DOMAIN << call >> = {1} /\ << call >>[1] = call
    BY RequestIsCall, UserAssumption, OneCall
<1>5. /\ further \in Seq(Call) /\ \A n \in DOMAIN further : further[n] = call
    BY <1>4
<1>6. CallsKnown'
    <2>1. \A c \in {call} : CallKnown(c)'
        BY DEF CallKnown, Request
    <2>2. \A s \in {further} : \A n \in DOMAIN s : CallKnown(s[n])'
        BY <2>1, <1>5
    <2> QED BY <2>2, <1>2, <1>3, <1>5, HandledKnown DEF Known
<1>7. PageKnown'
    BY <1>3, PageStaysKnown DEF MeFails, page, Known, PageKnown
<1>8. Session'
    <2>1. \A n \in DOMAIN further : further[n].kind # "me"
        BY <1>5 DEF Request
    <2>2. \A i, j \in DOMAIN calls' : calls'[i].kind = "me" /\ calls'[j].kind = "me" => i = j
        BY <2>1, <1>2, <1>5, HandledSession DEF Known
    <2>3. /\ currentConvoId' = currentConvoId /\ conversations' = conversations
          /\ container' = container
        BY DEF MeFails, page
    <2> QED BY <2>2, <2>3, <1>2 DEF Session, Known
<1> QED BY <1>1, <1>3, <1>6, <1>7, <1>8 DEF Known

LEMMA LoginKnown ==
    ASSUME Known, NEW k \in DOMAIN calls, Login(k)
    PROVE  Known'
<1> DEFINE call == LoadConversations(calls[k].reply, Nothing)
<1>1. TypesHold' /\ calls[k].reply \in User
    BY AnswerTypes, OkReply DEF Known, Answer, Login
<1>2. /\ owner' = owner /\ store' = store /\ signedIn' = signedIn \cup {calls[k].reply}
      /\ Handled(k, << call >>) /\ currentUser' = calls[k].reply /\ authToken' = calls[k].reply
    BY DEF Login, Handled, server
<1>3. Grows /\ StoredOnce'
    BY <1>2, SameServerGrows DEF Known, StoredOnce
<1>5. call \in Call /\ << call >> \in Seq(Call) /\ DOMAIN << call >> = {1} /\ << call >>[1] = call
    BY <1>1, RequestIsCall, OneCall
<1>6. CallsKnown'
    <2>1. \A c \in {call} : CallKnown(c)'
        BY <1>2 DEF CallKnown, LoadConversations, Request
    <2>2. \A s \in {<< call >>} : \A n \in DOMAIN s : CallKnown(s[n])'
        BY <2>1, <1>5
    <2> QED BY <2>2, <1>2, <1>3, <1>5, HandledKnown DEF Known
<1>7. PageKnown'
    BY <1>3, PageStaysKnown DEF Login, page, Known, PageKnown
<1>8. Session'
    <2>1. \A n \in DOMAIN << call >> : << call >>[n].kind # "me"
        BY <1>5 DEF LoadConversations, Request
    <2>2. \A i, j \in DOMAIN calls' : calls'[i].kind = "me" /\ calls'[j].kind = "me" => i = j
        BY <2>1, <1>2, <1>5, HandledSession DEF Known
    <2> QED BY <2>2, <1>2 DEF Session
<1> QED BY <1>1, <1>3, <1>6, <1>7, <1>8 DEF Known

\* Any other handler leaves the session alone.
LEMMA OthersKnown ==
    ASSUME Known, NEW k \in DOMAIN calls, calls[k].kind # "me", TypesHold',
           NEW further \in Seq(Call), Handled(k, further),
           \A n \in DOMAIN further : further[n].kind # "me" /\ CallKnown(further[n])',
           authToken' = authToken, currentUser' = currentUser, signedIn' = signedIn,
           \/ signedIn # {}
           \/ /\ currentConvoId' = currentConvoId
              /\ conversations' = conversations /\ container' = container,
           PageKnown'
    PROVE  Known'
<1>1. owner' = owner /\ store' = store
    BY DEF Handled, server
<1>2. Grows /\ StoredOnce'
    BY <1>1, SameServerGrows DEF Known, StoredOnce
<1>3. CallsKnown'
    BY <1>2, HandledKnown DEF Known
<1>4. Session'
    <2>1. /\ \A i, j \in DOMAIN calls' : calls'[i].kind = "me" /\ calls'[j].kind = "me" => i = j
          /\ \A j \in DOMAIN calls \ {k} : \E i \in DOMAIN calls' : calls'[i] = calls[j]
        BY HandledSession DEF Known
    <2>2. (\E j \in DOMAIN calls : calls[j].kind = "me" /\ calls[j].token = authToken) =>
            \E i \in DOMAIN calls' : calls'[i].kind = "me" /\ calls'[i].token = authToken
        BY <2>1
    <2> QED BY <2>1, <2>2 DEF Known, Session
<1> QED BY <1>2, <1>3, <1>4 DEF Known

LEMMA ListKnown ==
    ASSUME Known, NEW k \in DOMAIN calls, List(k) \/ ListFails(k)
    PROVE  Known'
<1>1. PICK cs \in Seq(Conversation) :
        /\ Handled(k, Loads(cs)) /\ Selects(cs)
        /\ \A n \in DOMAIN cs :
             \/ cs[n] = calls[k].then /\ calls[k].then # Nothing
             \/ List(k) /\ \E row \in calls[k].reply : row.id = cs[n]
    BY ListSelects DEF Known
<1>2. /\ TypesHold' /\ calls[k].kind = "list" /\ CallKnown(calls[k])
      /\ List(k) => Ok(k, "list") /\ calls[k].reply \in SUBSET Entry
    BY AnswerTypes, OkReply DEF Known, Answer, List, ListFails, Ok, NotOk, CallsKnown
<1>3. /\ owner' = owner /\ store' = store /\ signedIn' = signedIn
      /\ authToken' = authToken /\ currentUser' = currentUser
      /\ container' = container /\ lastKey' = lastKey
    BY <1>1 DEF Handled, Selects, server, session
<1>4. Grows
    BY <1>3, SameServerGrows
<1>5. /\ signedIn # {} /\ authToken \in signedIn \cup {Nothing}
    BY <1>2, SignedInForOthers
<1>6. \A n \in DOMAIN cs : cs[n] \in Conversation /\ \A c \in {cs[n]} : Mine(c)'
    <2>1. ASSUME NEW n \in DOMAIN cs PROVE cs[n] \in Conversation /\ Mine(cs[n])
        <3>1. cs[n] \in Conversation
            BY LenProperties, ElementOfSeq
        <3>2. List(k) => \A row \in calls[k].reply : Mine(row.id)
            BY <1>2 DEF CallKnown, Ok
        <3> QED BY <1>1, <1>2, <3>1, <3>2 DEF CallKnown
    <2> QED BY <2>1, <1>4 DEF Grows
<1>7. /\ Loads(cs) \in Seq(Call)
      /\ \A n \in DOMAIN Loads(cs) :
           n \in DOMAIN cs /\ Loads(cs)[n] = LoadMessages(authToken, cs[n])
    BY LoadsCalls DEF Known
<1>8. \A s \in {Loads(cs)} : \A n \in DOMAIN s : s[n].kind # "me" /\ CallKnown(s[n])'
    <2>1. ASSUME NEW n \in DOMAIN cs
          PROVE  \A call \in {LoadMessages(authToken, cs[n])} :
                   call.kind # "me" /\ CallKnown(call)'
        <3>1. \A call \in {LoadMessages(authToken, cs[n])} :
                /\ call.kind = "messages" /\ call.token \in signedIn \cup {Nothing}
                /\ call.about = cs[n] /\ call.then = Nothing /\ call.answer = "pending"
            BY <1>5 DEF LoadMessages, Request
        <3> QED BY <3>1, <1>3, <1>5, <1>6 DEF CallKnown
    <2> QED BY <2>1, <1>7
<1>9. PageKnown'
    <2>1. ShownIsStored' /\ (lastKey' # Nothing => Kept(lastKey)')
        BY <1>3, <1>4, PageStaysKnown DEF Known
    <2>2. \A row \in conversations' : Mine(row.id)'
        <3>1. CASE List(k)
            <4>1. \A row \in calls[k].reply : row.id \in Conversation /\ Mine(row.id)
                BY <1>2, <3>1 DEF CallKnown, Ok, Entry
            <4> QED BY <3>1, <4>1, <1>4 DEF List, Grows
        <3>2. CASE ListFails(k)
            BY <3>2, <1>4, PageStaysKnown DEF ListFails, Known
        <3> QED BY <3>1, <3>2
    <2>3. currentConvoId' # Nothing => Mine(currentConvoId)'
        <3>1. CASE cs = << >>
            BY <3>1, <1>1, <1>4, PageStaysKnown DEF Selects, Known
        <3>2. CASE cs # << >>
            <4>1. currentConvoId' = cs[Len(cs)] /\ Len(cs) \in DOMAIN cs
                BY <3>2, <1>1, LastSelected DEF Selects
            <4>2. \A c \in {currentConvoId'} : Mine(c)'
                BY <4>1, <1>6
            <4> QED BY <4>2 DEF Mine
        <3> QED BY <3>1, <3>2
    <2> QED BY <2>1, <2>2, <2>3 DEF PageKnown
<1> QED BY <1>1, <1>2, <1>3, <1>5, <1>7, <1>8, <1>9, OthersKnown

LEMMA CreateKnown ==
    ASSUME Known, NEW k \in DOMAIN calls, Create(k)
    PROVE  Known'
<1> DEFINE call == LoadConversations(authToken, calls[k].reply)
<1>1. /\ TypesHold' /\ Ok(k, "create") /\ calls[k].reply = calls[k].about
      /\ calls[k].about \in Conversation /\ calls[k].kind = "create"
    BY AnswerTypes, OkReply DEF Known, Answer, Create, Ok
<1>2. /\ owner' = owner /\ store' = store /\ signedIn' = signedIn
      /\ authToken' = authToken /\ currentUser' = currentUser /\ Handled(k, << call >>)
    BY DEF Create, Handled, server, session
<1>3. Grows
    BY <1>2, SameServerGrows
<1>4. signedIn # {} /\ authToken \in signedIn \cup {Nothing}
    BY <1>1, SignedInForOthers
<1>5. call \in Call /\ << call >> \in Seq(Call) /\ DOMAIN << call >> = {1} /\ << call >>[1] = call
    BY <1>1, RequestIsCall, OneCall DEF Known, TypesHold
<1>6. \A s \in {<< call >>} : \A n \in DOMAIN s : s[n].kind # "me" /\ CallKnown(s[n])'
    <2>1. \A c \in {calls[k].about} : Mine(c)'
        BY <1>1, <1>3 DEF Known, CallsKnown, CallKnown, Ok, Grows
    <2>2. \A c \in {call} : /\ c.kind = "list" /\ c.token \in signedIn \cup {Nothing}
                            /\ c.then = calls[k].about /\ c.answer = "pending"
        BY <1>1, <1>4 DEF LoadConversations, Request
    <2>3. \A c \in {call} : c.kind # "me" /\ CallKnown(c)'
        BY <2>1, <2>2, <1>2, <1>4 DEF CallKnown
    <2> QED BY <2>3, <1>5
<1>7. PageKnown'
    BY <1>3, PageStaysKnown DEF Create, page, Known, PageKnown
<1> QED BY <1>1, <1>2, <1>4, <1>5, <1>6, <1>7, OthersKnown

LEMMA MessagesKnown ==
    ASSUME Known, NEW k \in DOMAIN calls, Messages(k)
    PROVE  Known'
<1>1. /\ TypesHold' /\ Ok(k, "messages") /\ calls[k].kind = "messages"
      /\ calls[k].reply \in Seq(Exchange)
    BY AnswerTypes, OkReply DEF Known, Answer, Messages, Ok
<1>2. /\ owner' = owner /\ store' = store /\ signedIn' = signedIn
      /\ authToken' = authToken /\ currentUser' = currentUser /\ Handled(k, << >>)
      /\ conversations' = conversations /\ currentConvoId' = currentConvoId
      /\ lastKey' = lastKey /\ container' = calls[k].reply
    BY DEF Messages, Handled, server, session
<1>3. Grows
    BY <1>2, SameServerGrows
<1>4. signedIn # {}
    BY <1>1, SignedInForOthers
<1>5. ShownIsStored'
    <2>1. \A n \in DOMAIN calls[k].reply : calls[k].reply[n] \in Exchange /\ Seen(calls[k].reply[n])
        BY <1>1, LenProperties, ElementOfSeq DEF Known, CallsKnown, CallKnown, Ok
    <2>2. \A n \in DOMAIN container' : \A x \in {container'[n]} : Seen(x)'
        BY <2>1, <1>2, <1>3 DEF Grows
    <2> QED BY <2>2 DEF ShownIsStored, Seen, Kept, Mine, StoredIn
<1>6. PageKnown'
    BY <1>2, <1>3, <1>5, PageStaysKnown DEF Known, PageKnown
<1>7. << >> \in Seq(Call) /\ \A s \in {<< >>} : \A n \in DOMAIN s : s[n].kind # "me" /\ CallKnown(s[n])'
    OBVIOUS
<1> QED BY <1>1, <1>2, <1>4, <1>6, <1>7, OthersKnown

LEMMA SendKnown ==
    ASSUME Known, NEW k \in DOMAIN calls, Send(k)
    PROVE  Known'
<1> DEFINE call == LoadConversations(authToken, Nothing)
           key == calls[k].about.key
<1>1. /\ TypesHold' /\ Ok(k, "send") /\ calls[k].kind = "send"
      /\ calls[k].reply = key /\ key \in Exchange
    BY AnswerTypes, OkReply DEF Known, Answer, Send, Ok, Exchange
<1>2. /\ owner' = owner /\ store' = store /\ signedIn' = signedIn
      /\ authToken' = authToken /\ currentUser' = currentUser /\ Handled(k, << call >>)
      /\ conversations' = conversations /\ currentConvoId' = currentConvoId
      /\ lastKey' = lastKey /\ container' = Append(container, calls[k].reply)
    BY DEF Send, Handled, server, session
<1>3. Grows
    BY <1>2, SameServerGrows
<1>4. signedIn # {} /\ authToken \in signedIn \cup {Nothing}
    BY <1>1, SignedInForOthers
<1>5. call \in Call /\ << call >> \in Seq(Call) /\ DOMAIN << call >> = {1} /\ << call >>[1] = call
    BY <1>1, RequestIsCall, OneCall DEF Known, TypesHold
<1>6. \A s \in {<< call >>} : \A n \in DOMAIN s : s[n].kind # "me" /\ CallKnown(s[n])'
    <2>1. \A c \in {call} : /\ c.kind = "list" /\ c.token \in signedIn \cup {Nothing}
                            /\ c.then = Nothing /\ c.answer = "pending"
        BY <1>4 DEF LoadConversations, Request
    <2>2. \A c \in {call} : c.kind # "me" /\ CallKnown(c)'
        BY <2>1, <1>2, <1>4 DEF CallKnown
    <2> QED BY <2>2, <1>5
<1>7. ShownIsStored'
    <2>1. Seen(key)
        BY <1>1 DEF Known, CallsKnown, CallKnown, Ok
    <2>2. container \in Seq(Exchange)
        BY DEF Known, TypesHold
    <2>3. \A n \in DOMAIN container : container[n] \in Exchange /\ Seen(container[n])
        BY <2>2, LenProperties, ElementOfSeq DEF Known, PageKnown, ShownIsStored, Seen, Kept, Mine
    <2>4. /\ container' \in Seq(Exchange) /\ Len(container') = Len(container) + 1
          /\ \A n \in 1 .. Len(container) : container'[n] = container[n]
          /\ container'[Len(container) + 1] = key
        BY <1>1, <1>2, <2>2, AppendProperties
    <2>5. /\ DOMAIN container' = 1 .. Len(container) + 1 /\ Len(container) \in Nat
          /\ DOMAIN container = 1 .. Len(container)
        BY <2>2, <2>4, LenProperties
    <2> HIDE DEF key
    <2>6. ASSUME NEW n \in DOMAIN container'
          PROVE  container'[n] \in Exchange /\ Seen(container'[n])
        <3>1. CASE n = Len(container) + 1
            BY <3>1, <2>1, <2>4, <1>1
        <3>2. CASE n # Len(container) + 1
            <4>1. n \in 1 .. Len(container)
                BY <3>2, <2>5
            <4> QED BY <4>1, <2>3, <2>4, <2>5
        <3> QED BY <3>1, <3>2
    <2>7. \A n \in DOMAIN container' : \A x \in {container'[n]} : Seen(x)'
        BY <2>6, <1>3 DEF Grows
    <2> QED BY <2>7 DEF ShownIsStored, Seen, Kept, Mine, StoredIn
<1>8. PageKnown'
    BY <1>2, <1>3, <1>7, PageStaysKnown DEF Known, PageKnown
<1> QED BY <1>1, <1>2, <1>4, <1>5, <1>6, <1>8, OthersKnown

LEMMA OtherFailsKnown ==
    ASSUME Known, NEW k \in DOMAIN calls, OtherFails(k)
    PROVE  Known'
<1>1. TypesHold' /\ calls[k].kind # "me"
    BY AnswerTypes DEF Known, Answer, OtherFails, NotOk
<1>2. /\ owner' = owner /\ store' = store /\ signedIn' = signedIn
      /\ authToken' = authToken /\ currentUser' = currentUser /\ Handled(k, << >>)
      /\ conversations' = conversations /\ currentConvoId' = currentConvoId
      /\ container' = container
    BY DEF OtherFails, Handled, server, session, page
<1>3. PageKnown'
    BY <1>2, SameServerGrows, PageStaysKnown DEF OtherFails, Known, PageKnown
<1>4. << >> \in Seq(Call) /\ \A s \in {<< >>} : \A n \in DOMAIN s : s[n].kind # "me" /\ CallKnown(s[n])'
    OBVIOUS
<1> QED BY <1>1, <1>2, <1>3, <1>4, OthersKnown

LEMMA ClickKnown ==
    ASSUME Known, NEW call, Clicked(call), call.kind # "me", CallKnown(call), TypesHold',
           signedIn # {} \/ currentConvoId' = currentConvoId,
           currentConvoId' = currentConvoId \/ Mine(currentConvoId)',
           lastKey' = lastKey \/ Kept(lastKey)'
    PROVE  Known'
<1>1. /\ owner' = owner /\ store' = store /\ signedIn' = signedIn
      /\ authToken' = authToken /\ currentUser' = currentUser
      /\ conversations' = conversations /\ container' = container
    BY DEF Clicked, Click, server, session
<1>2. Grows /\ StoredOnce'
    BY <1>1, SameServerGrows DEF Known, StoredOnce
<1>3. /\ call \in Call /\ Len(calls') = Len(calls) + 1
      /\ \A i \in DOMAIN calls : i \in DOMAIN calls' /\ calls'[i] = calls[i]
      /\ calls'[Len(calls) + 1] = call
      /\ \A i \in DOMAIN calls' : i \in DOMAIN calls \/ i = Len(calls) + 1
    BY ClickCalls DEF Clicked, Known, TypesHold
<1>4. CallsKnown'
    <2>1. ASSUME NEW i \in DOMAIN calls' PROVE \A c \in {calls'[i]} : CallKnown(c)'
        <3>1. CASE i \in DOMAIN calls
            BY <3>1, <1>2, <1>3, CallAt, CallStaysKnown DEF Known, CallsKnown
        <3>2. CASE i = Len(calls) + 1
            BY <3>2, <1>2, <1>3, CallStaysKnown
        <3> QED BY <3>1, <3>2, <1>3
    <2> QED BY <2>1 DEF CallsKnown, CallKnown, Seen, Kept, Mine, StoredIn
<1>5. Session'
    BY <1>1, <1>3 DEF Known, Session
<1>6. PageKnown'
    BY <1>1, <1>2, PageStaysKnown DEF Known, PageKnown
<1> QED BY <1>2, <1>4, <1>5, <1>6 DEF Known

LEMMA ClicksKnown ==
    ASSUME Known
    PROVE  /\ \A u \in User : ClickLogin(u) => Known'
           /\ \A c \in Conversation : ClickConversation(c) => Known'
           /\ \A c \in Conversation : ClickNew(c) => Known'
           /\ \A key \in Key : Submit(key) => Known'
           /\ SubmitReplay => Known'
<1> USE DEF Request
<1>1. ASSUME NEW u \in User, ClickLogin(u) PROVE Known'
    <2>1. CallKnown(LogIn(u)) /\ LogIn(u).kind # "me"
        BY DEF LogIn, CallKnown
    <2> QED BY <1>1, <2>1, ClicksAre, ClickTypes, ClickKnown DEF Known, TypesHold
<1>2. ASSUME NEW c \in Conversation, ClickConversation(c) PROVE Known'
    <2>1. Mine(c) /\ signedIn # {} /\ authToken \in signedIn \cup {Nothing}
        BY <1>2 DEF ClickConversation, Known, PageKnown, Session
    <2>2. /\ CallKnown(LoadMessages(authToken, c)) /\ LoadMessages(authToken, c).kind # "me"
        BY <2>1 DEF LoadMessages, CallKnown
    <2>3. currentConvoId' = c /\ Clicked(LoadMessages(authToken, c)) /\ lastKey' = lastKey
        BY <1>2, ClicksAre DEF Known
    <2>4. Mine(currentConvoId)'
        BY <2>1, <2>3 DEF Mine, Clicked, Click, server
    <2> QED BY <1>2, <2>1, <2>2, <2>3, <2>4, ClicksAre, ClickTypes, ClickKnown DEF Known, TypesHold
<1>3. ASSUME NEW c \in Conversation, ClickNew(c) PROVE Known'
    <2>1. signedIn # {} /\ authToken \in signedIn \cup {Nothing}
        BY <1>3 DEF ClickNew, Known, Session
    <2>2. CallKnown(Request("create", authToken, c, Nothing))
        BY <2>1 DEF CallKnown
    <2> QED BY <1>3, <2>2, ClicksAre, ClickTypes, ClickKnown DEF Known, TypesHold
<1>4. (currentUser # Nothing /\ currentConvoId # Nothing) =>
        \A key \in Key : Kept(key) => CallKnown(SendOf(key))
    BY DEF SendOf, CallKnown, Known, PageKnown, Session
<1>5. ASSUME NEW key \in Key, Submit(key) PROVE Known'
    <2>1. StoredIn(key) = {} /\ Kept(key)
        BY <1>5 DEF Submit, Drawn, Kept
    <2>2. CallKnown(SendOf(key)) /\ SendOf(key).kind # "me"
        BY <1>4, <1>5, <2>1 DEF Submit, SendOf
    <2>3. /\ Clicked(SendOf(key)) /\ currentConvoId' = currentConvoId
          /\ lastKey' = key /\ disturbed' = disturbed
        BY <1>5, ClicksAre DEF Known
    <2>4. Kept(lastKey)'
        BY <2>1, <2>3 DEF Kept, StoredIn, Clicked, Click, server
    <2> QED BY <2>2, <2>3, <2>4, ClickTypes, ClickKnown DEF Known, TypesHold
<1>6. ASSUME SubmitReplay PROVE Known'
    <2>1. lastKey \in Key /\ Kept(lastKey)
        BY <1>6 DEF SubmitReplay, Known, PageKnown, TypesHold
    <2>2. CallKnown(SendOf(lastKey)) /\ SendOf(lastKey).kind # "me"
        BY <1>4, <1>6, <2>1 DEF SubmitReplay, SendOf
    <2>3. /\ Clicked(SendOf(lastKey)) /\ currentConvoId' = currentConvoId
          /\ lastKey' = lastKey
        BY <1>6, ClicksAre DEF Known
    <2>4. TypesHold'
        BY <1>6, NextTypes DEF Next, Known
    <2> QED BY <2>2, <2>3, <2>4, ClickKnown
<1> QED BY <1>1, <1>2, <1>3, <1>5, <1>6

-----------------------------------------------------------------------------

LEMMA InitKnown == Init => Known
<1> SUFFICES ASSUME Init PROVE Known
    OBVIOUS
<1>1. TypesHold
    BY InitTypes
<1>2. /\ DOMAIN calls = {1} /\ calls[1].kind \in {"me", "login"}
      /\ calls[1].then = Nothing /\ calls[1].answer = "pending"
      /\ calls[1].kind = "me" <=> stored # Nothing
      /\ calls[1].kind = "me" => calls[1].token = stored
    BY DEF Init, LogIn, Request
<1>3. CallsKnown /\ PageKnown
    BY <1>2 DEF Init, CallsKnown, CallKnown, PageKnown, ShownIsStored
<1>4. Session
    BY <1>2 DEF Init, Session
<1>5. StoredOnce
    BY DEF Init, StoredOnce
<1> QED BY <1>1, <1>3, <1>4, <1>5 DEF Known

LEMMA KnownNext == Known /\ [Next]_vars => Known'
<1> SUFFICES ASSUME Known, [Next]_vars PROVE Known'
    OBVIOUS
<1>1. ASSUME NEW k \in DOMAIN calls, Serve(k) \/ Fail(k) PROVE Known'
    BY <1>1, ServeKnown, FailKnown
<1>2. ASSUME NEW k \in DOMAIN calls, Answer(k) PROVE Known'
    BY <1>2, MeKnown, MeFailsKnown, LoginKnown, ListKnown, CreateKnown, MessagesKnown,
       SendKnown, OtherFailsKnown DEF Answer
<1>3. CASE UNCHANGED vars
    BY <1>3, NextTypes DEF vars, session, page, server, Known, CallsKnown, CallKnown, PageKnown,
       ShownIsStored, Session, StoredOnce, Seen, Kept, Mine, StoredIn
<1> QED BY <1>1, <1>2, <1>3, ClicksKnown DEF Next

\* Every variable keeps its type, and all that the page knows is of users who
\* were signed in on it.
THEOREM KnownInvariant == Spec => []Known
BY InitKnown, KnownNext, PTL DEF Spec

\* The page shows only exchanges that are stored, in conversations of users
\* who were signed in on it.
THEOREM PageShowsStored == Spec => []ShownIsStored
BY KnownInvariant, PTL DEF Known, PageKnown

-----------------------------------------------------------------------------
(* Reliable calls                                                          *)

LEMMA ServeReliable ==
    ASSUME Known, Reliable, NEW k \in DOMAIN calls, Serve(k)
    PROVE  Reliable'
<1> SUFFICES ASSUME "unreliable" \notin disturbed'
             PROVE  /\ currentUser' # Nothing => authToken' = currentUser' /\ stored' = currentUser'
                    /\ \A j \in DOMAIN calls' : ReliableCall(j)'
                    /\ "refused" \in disturbed' => TwoUsers'
    BY DEF Reliable
<1>1. /\ "unreliable" \notin disturbed
      /\ "refused" \in disturbed' => "refused" \in disturbed \/ Refuses(calls[k])
      /\ authToken' = authToken /\ currentUser' = currentUser /\ stored' = stored
      /\ signedIn' = signedIn
    BY DEF Serve, session
<1>2. /\ currentUser # Nothing => authToken = currentUser /\ stored = currentUser
      /\ \A j \in DOMAIN calls : ReliableCall(j)
      /\ "refused" \in disturbed => TwoUsers
    BY <1>1 DEF Reliable
<1>3. /\ calls[k] \in CallRecord /\ WellFormed(calls[k]) /\ CallKnown(calls[k])
      /\ signedIn \in SUBSET User /\ Nothing \notin User
    BY CallAt, NullAssumption DEF Known, CallsKnown, TypesHold
<1>4. calls[k].kind # "login" => calls[k].token # Nothing
    BY <1>2, <1>3 DEF ReliableCall, WellFormed
<1>5. Refuses(calls[k]) => TwoUsers
    <2>1. ASSUME calls[k].kind = "messages", owner[calls[k].about] # calls[k].token
          PROVE  TwoUsers
        <3>1. owner[calls[k].about] \in signedIn /\ calls[k].token \in signedIn
            BY <1>2, <1>3, <2>1 DEF ReliableCall, CallKnown, Mine
        <3> QED BY <2>1, <3>1 DEF TwoUsers
    <2>2. ASSUME calls[k].kind = "send", ~Accepted(calls[k])
          PROVE  TwoUsers
        <3>1. /\ owner[calls[k].about.convo] \in signedIn /\ calls[k].token \in signedIn
              /\ \A c \in StoredIn(calls[k].about.key) : owner[c] \in signedIn
            BY <1>2, <1>3, <2>2 DEF ReliableCall, CallKnown, Mine, Kept
        <3> QED BY <2>2, <3>1 DEF TwoUsers, Accepted
    <2> QED BY <1>4, <2>1, <2>2 DEF Refuses
<1>6. \A j \in DOMAIN calls' : ReliableCall(j)'
    <2>1. ASSUME NEW j \in DOMAIN calls' PROVE ReliableCall(j)'
        <3>1. CASE j = k
            <4>1. /\ calls'[k].kind = calls[k].kind /\ calls'[k].token = calls[k].token
                  /\ ~Refuses(calls[k]) => calls'[k].answer = "ok"
                BY ServeAnswers DEF Known
            <4>2. calls[k].kind = "me" => ~Refuses(calls[k])
                BY <1>4 DEF Refuses
            <4> QED BY <3>1, <4>1, <4>2, <1>1, <1>2 DEF ReliableCall
        <3>2. CASE j # k
            <4>1. j \in DOMAIN calls /\ calls'[j] = calls[j]
                BY <3>2, ServeAnswers DEF Known
            <4> QED BY <4>1, <1>1, <1>2 DEF ReliableCall
        <3> QED BY <3>1, <3>2
    <2> QED BY <2>1
<1>7. "refused" \in disturbed' => TwoUsers'
    BY <1>1, <1>2, <1>5 DEF TwoUsers
<1> QED BY <1>1, <1>2, <1>6, <1>7

LEMMA FailReliable ==
    ASSUME NEW k \in DOMAIN calls, Fail(k) PROVE Reliable'
BY DEF Fail, Reliable

\* A reliable answer is that to the oldest call, so that the token that was
\* kept is tried before anything else happens.
LEMMA HandledReliable ==
    ASSUME Known, Reliable, NEW k \in DOMAIN calls, NEW further \in Seq(Call),
           Handled(k, further), "unreliable" \notin disturbed', signedIn \subseteq signedIn',
           \A n \in DOMAIN further :
             /\ further[n].kind # "me"
             /\ further[n].kind # "login" => further[n].token \in signedIn'
    PROVE  /\ k = 1 /\ ReliableCall(k) /\ "unreliable" \notin disturbed
           /\ \A j \in DOMAIN calls' : ReliableCall(j)'
           /\ "refused" \in disturbed' => TwoUsers'
<1>1. "unreliable" \notin disturbed /\ k = 1 /\ disturbed' = disturbed
    BY CallAt DEF Handled, Known
<1>2. ReliableCall(k) /\ \A j \in DOMAIN calls : ReliableCall(j)
    BY <1>1 DEF Reliable
<1>3. ASSUME NEW j \in DOMAIN calls' PROVE ReliableCall(j)'
    <2>1. CASE Came(j, k) \in DOMAIN calls \ {k} /\ calls'[j] = calls[Came(j, k)]
        <3>1. calls'[j].kind # "me"
            BY <1>1, <1>2, <2>1 DEF ReliableCall
        <3> QED BY <1>2, <2>1, <3>1 DEF ReliableCall
    <2>2. CASE \E n \in DOMAIN further : calls'[j] = further[n]
        BY <2>2 DEF ReliableCall
    <2> QED BY <2>1, <2>2, HandledCalls DEF Known, TypesHold
<1>4. "refused" \in disturbed' => TwoUsers'
    BY <1>1 DEF Reliable, TwoUsers
<1> QED BY <1>1, <1>2, <1>3, <1>4

LEMMA AnswerReliable ==
    ASSUME Known, Reliable, NEW k \in DOMAIN calls, Answer(k)
    PROVE  Reliable'
<1> SUFFICES ASSUME "unreliable" \notin disturbed'
             PROVE  /\ currentUser' # Nothing => authToken' = currentUser' /\ stored' = currentUser'
                    /\ \A j \in DOMAIN calls' : ReliableCall(j)'
                    /\ "refused" \in disturbed' => TwoUsers'
    BY DEF Reliable
<1> USE DEF Request
<1>1. TypesHold /\ Nothing \notin signedIn
    BY NullAssumption DEF Known, TypesHold
<1>2. CASE Me(k)
    <2> DEFINE call == LoadConversations(authToken, Nothing)
    <2>1. /\ Handled(k, << call >>) /\ signedIn' = signedIn \cup {calls[k].reply}
          /\ currentUser' = calls[k].reply /\ authToken' = authToken /\ stored' = stored
          /\ calls[k].reply = calls[k].token /\ calls[k].kind = "me"
        BY <1>1, <1>2, OkReply DEF Me, Ok
    <2>2. << call >> \in Seq(Call) /\ DOMAIN << call >> = {1} /\ << call >>[1] = call
        BY <1>1, RequestIsCall, OneCall DEF TypesHold
    <2>3. "unreliable" \notin disturbed /\ k = 1
        BY <2>1, CallAt DEF Handled, Known
    <2>4. authToken = calls[k].token /\ stored = calls[k].token
        BY <2>1, <2>3 DEF Reliable, ReliableCall
    <2>5. \A n \in DOMAIN << call >> :
            /\ << call >>[n].kind # "me"
            /\ << call >>[n].kind # "login" => << call >>[n].token \in signedIn'
        BY <2>1, <2>2, <2>4 DEF LoadConversations
    <2> QED BY <2>1, <2>2, <2>4, <2>5, HandledReliable
<1>3. CASE MeFails(k)
    <2>1. "unreliable" \notin disturbed /\ k = 1
        BY <1>3, CallAt DEF MeFails, Handled, Known
    <2> QED BY <1>3, <2>1 DEF MeFails, NotOk, Reliable, ReliableCall
<1>4. CASE Login(k)
    <2> DEFINE call == LoadConversations(calls[k].reply, Nothing)
    <2>1. /\ Handled(k, << call >>) /\ signedIn' = signedIn \cup {calls[k].reply}
          /\ currentUser' = calls[k].reply /\ authToken' = calls[k].reply
          /\ stored' = calls[k].reply /\ calls[k].reply \in User
        BY <1>1, <1>4, OkReply DEF Login
    <2>2. << call >> \in Seq(Call) /\ DOMAIN << call >> = {1} /\ << call >>[1] = call
        BY <2>1, RequestIsCall, OneCall
    <2>3. \A n \in DOMAIN << call >> :
            /\ << call >>[n].kind # "me"
            /\ << call >>[n].kind # "login" => << call >>[n].token \in signedIn'
        BY <2>1, <2>2 DEF LoadConversations
    <2> QED BY <2>1, <2>2, <2>3, HandledReliable
<1>5. ASSUME NEW further \in Seq(Call), Handled(k, further),
             calls[k].kind \notin {"me", "login"} \/ further = << >>,
             \A n \in DOMAIN further : further[n].kind # "me" /\ further[n].token = authToken,
             UNCHANGED session, UNCHANGED signedIn
      PROVE  /\ currentUser' # Nothing => authToken' = currentUser' /\ stored' = currentUser'
             /\ \A j \in DOMAIN calls' : ReliableCall(j)'
             /\ "refused" \in disturbed' => TwoUsers'
    <2>1. "unreliable" \notin disturbed
        BY <1>5 DEF Handled
    <2>2. currentUser # Nothing => authToken = currentUser /\ stored = currentUser
        BY <2>1 DEF Reliable
    <2>3. calls[k].kind \notin {"me", "login"} => authToken \in signedIn
        BY <1>1, <2>2, SignedInForOthers
    <2>4. \A n \in DOMAIN further :
             /\ further[n].kind # "me"
             /\ further[n].kind # "login" => further[n].token \in signedIn'
        BY <1>5, <2>3
    <2> QED BY <1>5, <2>2, <2>4, HandledReliable DEF session
<1>6. CASE List(k) \/ ListFails(k)
    <2>1. PICK cs \in Seq(Conversation) : Handled(k, Loads(cs)) /\ Selects(cs)
        BY <1>1, <1>6, ListSelects
    <2>2. /\ Loads(cs) \in Seq(Call)
          /\ \A n \in DOMAIN Loads(cs) : Loads(cs)[n].kind # "me" /\ Loads(cs)[n].token = authToken
        <3>1. /\ Loads(cs) \in Seq(Call)
              /\ \A n \in DOMAIN Loads(cs) : Loads(cs)[n] = LoadMessages(authToken, cs[n])
            BY <1>1, LoadsCalls
        <3>2. \A n : LET call == LoadMessages(authToken, cs[n]) IN
                call.kind = "messages" /\ call.token = authToken
            BY DEF LoadMessages
        <3> QED BY <3>1, <3>2
    <2>3. calls[k].kind = "list"
        BY <1>6 DEF List, ListFails, Ok, NotOk
    <2> QED BY <1>5, <2>1, <2>2, <2>3 DEF Selects
<1>7. CASE Create(k)
    <2> DEFINE call == LoadConversations(authToken, calls[k].reply)
    <2>1. << call >> \in Seq(Call) /\ DOMAIN << call >> = {1} /\ << call >>[1] = call
        <3>1. calls[k].reply \in Conversation /\ authToken \in User \cup {Nothing}
            BY <1>1, <1>7, OkReply DEF Create, TypesHold
        <3>2. call \in Call
            BY <3>1, RequestIsCall
        <3> HIDE DEF call
        <3> QED BY <3>2, OneCall
    <2>2. \A n \in DOMAIN << call >> : << call >>[n].kind # "me" /\ << call >>[n].token = authToken
        BY <2>1 DEF LoadConversations
    <2> QED BY <1>5, <1>7, <2>1, <2>2 DEF Create, Ok
<1>8. CASE Send(k)
    <2> DEFINE call == LoadConversations(authToken, Nothing)
    <2>1. << call >> \in Seq(Call) /\ DOMAIN << call >> = {1} /\ << call >>[1] = call
        BY <1>1, RequestIsCall, OneCall DEF TypesHold
    <2>2. \A n \in DOMAIN << call >> : << call >>[n].kind # "me" /\ << call >>[n].token = authToken
        BY <2>1 DEF LoadConversations
    <2> QED BY <1>5, <1>8, <2>1, <2>2 DEF Send, Ok
<1>9. CASE Messages(k) \/ OtherFails(k)
    <2>1. << >> \in Seq(Call) /\ DOMAIN << >> = {}
        OBVIOUS
    <2> QED BY <1>5, <1>9, <2>1 DEF Messages, OtherFails
<1> QED BY <1>2, <1>3, <1>4, <1>6, <1>7, <1>8, <1>9 DEF Answer

LEMMA ClickReliable ==
    ASSUME Known, Reliable, NEW call, Clicked(call), call.kind # "me",
           call.kind = "login" \/ (call.token = authToken /\ signedIn # {}),
           "unreliable" \in disturbed' <=> "unreliable" \in disturbed,
           "refused" \in disturbed' <=> "refused" \in disturbed
    PROVE  Reliable'
<1> SUFFICES ASSUME "unreliable" \notin disturbed'
             PROVE  /\ currentUser' # Nothing => authToken' = currentUser' /\ stored' = currentUser'
                    /\ \A j \in DOMAIN calls' : ReliableCall(j)'
                    /\ "refused" \in disturbed' => TwoUsers'
    BY DEF Reliable
<1>1. /\ authToken' = authToken /\ currentUser' = currentUser /\ stored' = stored
      /\ signedIn' = signedIn
    BY DEF Clicked, Click, session
<1>2. /\ currentUser # Nothing => authToken = currentUser /\ stored = currentUser
      /\ \A j \in DOMAIN calls : ReliableCall(j)
      /\ "refused" \in disturbed => TwoUsers
    BY DEF Reliable
<1>3. /\ \A i \in DOMAIN calls : i \in DOMAIN calls' /\ calls'[i] = calls[i]
      /\ calls'[Len(calls) + 1] = call
      /\ \A i \in DOMAIN calls' : i \in DOMAIN calls \/ i = Len(calls) + 1
    BY ClickCalls DEF Clicked, Known, TypesHold
<1>4. call.kind # "login" => call.token \in signedIn
    BY <1>2, NullAssumption DEF Known, Session, TypesHold
<1>5. ASSUME NEW j \in DOMAIN calls' PROVE ReliableCall(j)'
    <2>1. CASE j \in DOMAIN calls
        BY <2>1, <1>1, <1>2, <1>3 DEF ReliableCall
    <2>2. CASE j = Len(calls) + 1
        BY <2>2, <1>1, <1>3, <1>4 DEF ReliableCall
    <2> QED BY <1>3, <2>1, <2>2
<1> QED BY <1>1, <1>2, <1>5 DEF TwoUsers

LEMMA ClicksReliable ==
    ASSUME Known, Reliable
    PROVE  /\ \A u \in User : ClickLogin(u) => Reliable'
           /\ \A c \in Conversation : ClickConversation(c) => Reliable'
           /\ \A c \in Conversation : ClickNew(c) => Reliable'
           /\ \A key \in Key : Submit(key) => Reliable'
           /\ SubmitReplay => Reliable'
<1> USE DEF Request
<1>1. /\ \A u \in User : LogIn(u).kind = "login"
      /\ \A c \in Conversation : LET call == LoadMessages(authToken, c) IN
           call.kind = "messages" /\ call.token = authToken
      /\ \A c \in Conversation : LET call == Request("create", authToken, c, Nothing) IN
           call.kind = "create" /\ call.token = authToken
      /\ \A key : SendOf(key).kind = "send" /\ SendOf(key).token = authToken
    BY DEF LogIn, LoadMessages, SendOf
<1>2. currentUser # Nothing \/ conversations # {} => signedIn # {}
    BY DEF Known, Session
<1>3. TypesHold
    BY DEF Known
<1>4. ASSUME NEW u \in User, ClickLogin(u) PROVE Reliable'
    BY <1>1, <1>3, <1>4, ClicksAre, ClickReliable
<1>5. ASSUME NEW c \in Conversation, ClickConversation(c) PROVE Reliable'
    <2>1. signedIn # {}
        BY <1>2, <1>5 DEF ClickConversation
    <2> QED BY <1>1, <1>3, <1>5, <2>1, ClicksAre, ClickReliable
<1>6. ASSUME NEW c \in Conversation, ClickNew(c) PROVE Reliable'
    <2>1. signedIn # {}
        BY <1>2, <1>6 DEF ClickNew
    <2> QED BY <1>1, <1>3, <1>6, <2>1, ClicksAre, ClickReliable
<1>7. ASSUME NEW key \in Key, Submit(key) PROVE Reliable'
    <2>1. signedIn # {}
        BY <1>2, <1>7 DEF Submit
    <2> QED BY <1>1, <1>3, <1>7, <2>1, ClicksAre, ClickReliable
<1>8. ASSUME SubmitReplay PROVE Reliable'
    <2>1. signedIn # {}
        BY <1>2, <1>8 DEF SubmitReplay
    <2>2. Clicked(SendOf(lastKey)) /\ disturbed' = disturbed \cup {"replay"}
        BY <1>3, <1>8, ClicksAre
    <2> QED BY <1>1, <2>1, <2>2, ClickReliable
<1> QED BY <1>4, <1>5, <1>6, <1>7, <1>8

LEMMA InitReliable == Init => Reliable
<1> SUFFICES ASSUME Init PROVE Reliable
    OBVIOUS
<1>1. /\ DOMAIN calls = {1} /\ calls[1].kind \in {"me", "login"} /\ calls[1].answer = "pending"
      /\ calls[1].kind = "me" => calls[1].token = stored
    BY DEF Init, LogIn, Request
<1> QED BY <1>1 DEF Init, Reliable, ReliableCall

LEMMA ReliableNext == Known /\ Reliable /\ [Next]_vars => Reliable'
<1> SUFFICES ASSUME Known, Reliable, [Next]_vars PROVE Reliable'
    OBVIOUS
<1>1. ASSUME NEW k \in DOMAIN calls, Serve(k) \/ Fail(k) \/ Answer(k) PROVE Reliable'
    BY <1>1, ServeReliable, FailReliable, AnswerReliable
<1>2. CASE UNCHANGED vars
    BY <1>2 DEF vars, session, Reliable, ReliableCall, TwoUsers
<1> QED BY <1>1, <1>2, ClicksReliable DEF Next

\* Two users are two members of the set.
LEMMA ReliableActsAsShown == TypesHold /\ Reliable => ActsAsShown
<1> SUFFICES ASSUME TypesHold, Reliable, "unreliable" \notin disturbed,
                    "refused" \in disturbed
             PROVE  Cardinality(signedIn) > 1
    BY DEF Reliable, ActsAsShown
<1>1. PICK u \in signedIn, v \in signedIn : u # v
    BY DEF Reliable, TwoUsers
<1>2. {u, v} \subseteq signedIn /\ IsFiniteSet(signedIn)
    BY DEF TypesHold
<1>3. Cardinality({u, v}) = 2
    <2>1. IsFiniteSet({u}) /\ Cardinality({u}) = 1
        BY FS_Singleton
    <2>2. Cardinality({u} \cup {v}) = 1 + 1
        BY <1>1, <2>1, FS_AddElement
    <2>3. {u} \cup {v} = {u, v}
        OBVIOUS
    <2> QED BY <2>2, <2>3
<1>4. Cardinality({u, v}) <= Cardinality(signedIn)
    BY <1>2, FS_Subset
<1>5. Cardinality(signedIn) \in Nat
    BY <1>2, FS_CardinalityType
<1> QED BY <1>3, <1>4, <1>5

\* Without failures and overtaking, the token sent and the token kept are the
\* current user's, and a call is refused only after two users were signed in.
THEOREM PageActsAsShown == Spec => []ActsAsShown
<1>1. Init => Known /\ Reliable
    BY InitKnown, InitReliable
<1>2. Known /\ Reliable /\ [Next]_vars => (Known /\ Reliable)'
    BY KnownNext, ReliableNext
<1>3. Known /\ Reliable => ActsAsShown
    BY ReliableActsAsShown DEF Known
<1> QED BY <1>1, <1>2, <1>3, PTL DEF Spec

-----------------------------------------------------------------------------
(* What is shown and what was sent make up what is stored                  *)

LEMMA FollowedStart ==
    ASSUME NEW here \in Seq(Exchange), NEW sent, DOMAIN sent = {}
    PROVE  FollowedBy(here, sent, here)
<1>1. Len(here) \in Nat
    BY LenProperties
<1>2. Len(here) + 1 .. Len(here) = {}
    BY <1>1
<1> QED BY <1>1, <1>2 DEF FollowedBy

LEMMA FollowedEnd ==
    ASSUME NEW base \in Seq(Exchange), NEW here \in Seq(Exchange), NEW sent, DOMAIN sent = {},
           FollowedBy(base, sent, here)
    PROVE  base = here
<1>1. Len(base) \in Nat /\ Len(here) \in Nat
    BY LenProperties
<1>2. Len(base) = Len(here)
    <2>1. Len(base) + 1 .. Len(here) = {} /\ Len(base) <= Len(here)
        BY DEF FollowedBy
    <2>2. Len(base) < Len(here) => Len(base) + 1 \in Len(base) + 1 .. Len(here)
        BY <1>1
    <2> QED BY <1>1, <2>1, <2>2
<1>3. \A n \in 1 .. Len(base) : base[n] = here[n]
    BY DEF FollowedBy
<1> QED BY <1>2, <1>3, SeqEqual

\* Another send is served.
LEMMA FollowedServe ==
    ASSUME NEW base \in Seq(Exchange), NEW here \in Seq(Exchange), NEW sent, NEW more, NEW k, NEW key \in Exchange,
           FollowedBy(base, sent, here),
           \A n \in DOMAIN here : here[n] # key,
           DOMAIN sent \subseteq Nat, k \in Nat, \A j \in DOMAIN sent : j < k,
           DOMAIN more = DOMAIN sent \cup {k},
           more[k] = key, \A j \in DOMAIN sent : more[j] = sent[j]
    PROVE  FollowedBy(base, more, Append(here, key))
<1> DEFINE longer == Append(here, key)
           b == Len(base)
           h == Len(here)
<1>1. /\ h \in Nat /\ b \in Nat /\ b <= h /\ DOMAIN here = 1 .. h
      /\ Len(longer) = h + 1 /\ longer[h + 1] = key
      /\ \A n \in 1 .. h : longer[n] = here[n]
    BY LenProperties, AppendProperties DEF FollowedBy
<1>2. /\ \A n \in 1 .. b : here[n] = base[n]
      /\ \A n \in b + 1 .. h : \E j \in DOMAIN sent : sent[j] = here[n]
      /\ \A j \in DOMAIN sent : \E n \in b + 1 .. h : here[n] = sent[j]
    BY DEF FollowedBy
<1>o. \A i, j \in DOMAIN sent, m, n \in b + 1 .. h :
        i < j /\ here[m] = sent[i] /\ here[n] = sent[j] => m < n
    BY DEF FollowedBy
<1> HIDE DEF longer, b, h
<1>3. \A n \in 1 .. b : longer[n] = base[n]
    BY <1>1, <1>2
<1>4. ASSUME NEW n \in b + 1 .. h + 1 PROVE \E j \in DOMAIN more : more[j] = longer[n]
    <2>1. CASE n = h + 1
        BY <2>1, <1>1
    <2>2. CASE n # h + 1
        <3>1. n \in b + 1 .. h /\ longer[n] = here[n]
            BY <2>2, <1>1
        <3> QED BY <3>1, <1>2
    <2> QED BY <2>1, <2>2
<1>5. ASSUME NEW j \in DOMAIN more PROVE \E n \in b + 1 .. h + 1 : longer[n] = more[j]
    <2>1. CASE j = k
        <3>1. h + 1 \in b + 1 .. h + 1
            BY <1>1
        <3> QED BY <2>1, <3>1, <1>1
    <2>2. CASE j \in DOMAIN sent
        <3>1. PICK n \in b + 1 .. h : here[n] = sent[j]
            BY <2>2, <1>2
        <3>2. n \in b + 1 .. h + 1 /\ n \in 1 .. h
            BY <1>1
        <3> QED BY <2>2, <3>1, <3>2, <1>1
    <2> QED BY <2>1, <2>2
<1>6. ASSUME NEW j \in DOMAIN sent, NEW n \in b + 1 .. h + 1, longer[n] = sent[j]
      PROVE  n \in b + 1 .. h /\ here[n] = sent[j]
    <2>1. sent[j] # key
        <3>1. PICK m \in b + 1 .. h : here[m] = sent[j]
            BY <1>2
        <3>2. m \in DOMAIN here
            BY <1>1
        <3> QED BY <3>1, <3>2
    <2>2. n # h + 1
        BY <1>1, <1>6, <2>1
    <2>3. n \in b + 1 .. h /\ n \in 1 .. h
        BY <1>1, <2>2
    <2> QED BY <1>1, <1>6, <2>3
<1>7. ASSUME NEW i \in DOMAIN more, NEW j \in DOMAIN more, i < j,
             NEW m \in b + 1 .. h + 1, NEW n \in b + 1 .. h + 1,
             longer[m] = more[i], longer[n] = more[j]
      PROVE  m < n
    <2>1. i \in DOMAIN sent
        <3>1. CASE j = k
            BY <1>7, <3>1
        <3>2. CASE j # k
            BY <1>7, <3>2
        <3> QED BY <3>1, <3>2
    <2>2. m \in b + 1 .. h /\ here[m] = sent[i]
        BY <1>6, <1>7, <2>1
    <2>3. CASE j = k
        <3>1. n = h + 1
            <4>1. n \in 1 .. h => longer[n] # key
                BY <1>1
            <4> QED BY <1>1, <1>7, <2>3, <4>1
        <3> QED BY <2>2, <3>1, <1>1
    <2>4. CASE j \in DOMAIN sent
        <3>1. n \in b + 1 .. h /\ here[n] = sent[j]
            BY <1>6, <1>7, <2>4
        <3> QED BY <1>o, <1>7, <2>1, <2>2, <2>4, <3>1
    <2> QED BY <2>3, <2>4
<1>8. FollowedBy(base, more, longer)
    <2>1. Len(longer) = h + 1 /\ b <= h + 1
        BY <1>1
    <2>2. /\ \A n \in b + 1 .. Len(longer) : \E j \in DOMAIN more : more[j] = longer[n]
          /\ \A j \in DOMAIN more : \E n \in b + 1 .. Len(longer) : longer[n] = more[j]
          /\ \A i, j \in DOMAIN more, m, n \in b + 1 .. Len(longer) :
               i < j /\ longer[m] = more[i] /\ longer[n] = more[j] => m < n
        <3>1. \A i, j \in DOMAIN more, m, n \in b + 1 .. Len(longer) :
                i < j /\ longer[m] = more[i] /\ longer[n] = more[j] => m < n
            BY <1>7, <2>1
        <3> QED BY <1>4, <1>5, <2>1, <3>1
    <2> QED BY <1>3, <2>1, <2>2 DEF FollowedBy, b
<1> QED BY <1>8 DEF longer

\* The oldest call leaves, and it is not one of the sends.
LEMMA FollowedShift ==
    ASSUME NEW base, NEW here, NEW sent, NEW left, FollowedBy(base, sent, here),
           DOMAIN sent \subseteq Nat, DOMAIN left \subseteq Nat,
           \A j \in DOMAIN sent : j - 1 \in DOMAIN left /\ left[j - 1] = sent[j],
           \A i \in DOMAIN left : i + 1 \in DOMAIN sent /\ left[i] = sent[i + 1]
    PROVE  FollowedBy(base, left, here)
<1> DEFINE after == Len(base) + 1 .. Len(here)
<1>1. /\ \A n \in after : \E j \in DOMAIN sent : sent[j] = here[n]
      /\ \A j \in DOMAIN sent : \E n \in after : here[n] = sent[j]
    BY DEF FollowedBy
<1>o. \A i, j \in DOMAIN sent, m, n \in after :
        i < j /\ here[m] = sent[i] /\ here[n] = sent[j] => m < n
    BY DEF FollowedBy
<1> HIDE DEF after
<1>2. \A n \in after : \E j \in DOMAIN left : left[j] = here[n]
    BY <1>1
<1>3. \A j \in DOMAIN left : \E n \in after : here[n] = left[j]
    BY <1>1
<1>4. ASSUME NEW i \in DOMAIN left, NEW j \in DOMAIN left, NEW m \in after, NEW n \in after,
             i < j, here[m] = left[i], here[n] = left[j]
      PROVE  m < n
    <2>1. i + 1 < j + 1 /\ i + 1 \in DOMAIN sent /\ j + 1 \in DOMAIN sent
        BY <1>4
    <2>2. here[m] = sent[i + 1] /\ here[n] = sent[j + 1]
        BY <1>4
    <2> QED BY <1>o, <1>4, <2>1, <2>2
<1> QED BY <1>2, <1>3, <1>4 DEF FollowedBy, after

\* The oldest call leaves, a send: the message it adds comes next.
LEMMA FollowedSend ==
    ASSUME NEW base \in Seq(Exchange), NEW here \in Seq(Exchange), NEW sent, NEW left,
           FollowedBy(base, sent, here), 1 \in DOMAIN sent, sent[1] \in Exchange,
           \A m, n \in DOMAIN here : here[m] = here[n] => m = n,
           DOMAIN sent \subseteq Nat \ {0}, DOMAIN left \subseteq Nat \ {0},
           \A j \in DOMAIN sent \ {1} : j - 1 \in DOMAIN left /\ left[j - 1] = sent[j],
           \A i \in DOMAIN left : i + 1 \in DOMAIN sent /\ left[i] = sent[i + 1]
    PROVE  FollowedBy(Append(base, sent[1]), left, here)
<1> DEFINE longer == Append(base, sent[1])
           b == Len(base)
           h == Len(here)
<1>1. /\ h \in Nat /\ b \in Nat /\ b <= h /\ DOMAIN here = 1 .. h
      /\ Len(longer) = b + 1 /\ longer[b + 1] = sent[1]
      /\ \A n \in 1 .. b : longer[n] = base[n]
    BY LenProperties, AppendProperties DEF FollowedBy
<1>2. /\ \A n \in 1 .. b : here[n] = base[n]
      /\ \A n \in b + 1 .. h : \E j \in DOMAIN sent : sent[j] = here[n]
      /\ \A j \in DOMAIN sent : \E n \in b + 1 .. h : here[n] = sent[j]
    BY DEF FollowedBy
<1>o. \A i, j \in DOMAIN sent, m, n \in b + 1 .. h :
        i < j /\ here[m] = sent[i] /\ here[n] = sent[j] => m < n
    BY DEF FollowedBy
<1> HIDE DEF longer, b, h
<1>3. b + 1 <= h /\ here[b + 1] = sent[1]
    <2>1. PICK n \in b + 1 .. h : here[n] = sent[1]
        BY <1>2
    <2>2. b + 1 \in b + 1 .. h
        BY <1>1
    <2>3. PICK j \in DOMAIN sent : sent[j] = here[b + 1]
        BY <1>2, <2>2
    <2>4. CASE j = 1
        BY <2>2, <2>3, <2>4, <1>1
    <2>5. CASE j # 1
        <3>1. 1 < j
            BY <2>5
        <3>2. n < b + 1
            BY <1>o, <2>1, <2>2, <2>3, <3>1
        <3> QED BY <3>2, <2>1, <1>1
    <2> QED BY <2>4, <2>5
<1>4. \A n \in 1 .. b + 1 : here[n] = longer[n]
    <2>1. \A n \in 1 .. b + 1 : n \in 1 .. b \/ n = b + 1
        BY <1>1
    <2> QED BY <2>1, <1>1, <1>2, <1>3
<1>5. \A n \in b + 2 .. h : n \in b + 1 .. h /\ n # b + 1 /\ n \in DOMAIN here /\ b + 1 \in DOMAIN here
    BY <1>1, <1>3
<1>6. ASSUME NEW n \in b + 2 .. h PROVE \E j \in DOMAIN left : left[j] = here[n]
    <2>1. PICK j \in DOMAIN sent : sent[j] = here[n]
        BY <1>2, <1>5
    <2>2. j # 1
        BY <1>3, <1>5, <2>1
    <2> QED BY <2>1, <2>2
<1>7. ASSUME NEW i \in DOMAIN left PROVE \E n \in b + 2 .. h : here[n] = left[i]
    <2>1. PICK n \in b + 1 .. h : here[n] = sent[i + 1]
        BY <1>2
    <2>2. 1 < i + 1 /\ b + 1 \in b + 1 .. h
        BY <1>1, <1>3
    <2>3. b + 1 < n
        BY <1>o, <1>3, <2>1, <2>2
    <2>4. n \in b + 2 .. h
        BY <2>1, <2>3, <1>1
    <2> QED BY <2>1, <2>4
<1>8. ASSUME NEW i \in DOMAIN left, NEW j \in DOMAIN left, i < j,
             NEW m \in b + 2 .. h, NEW n \in b + 2 .. h, here[m] = left[i], here[n] = left[j]
      PROVE  m < n
    <2>1. i + 1 < j + 1 /\ i + 1 \in DOMAIN sent /\ j + 1 \in DOMAIN sent
        BY <1>8
    <2>2. here[m] = sent[i + 1] /\ here[n] = sent[j + 1]
        BY <1>8
    <2>3. m \in b + 1 .. h /\ n \in b + 1 .. h
        BY <1>5
    <2> QED BY <1>o, <2>1, <2>2, <2>3
<1>9. Len(longer) + 1 = b + 2 /\ Len(longer) <= h
    BY <1>1, <1>3
<1>10. FollowedBy(longer, left, here)
    <2>1. /\ Len(longer) <= Len(here)
          /\ \A n \in 1 .. Len(longer) : here[n] = longer[n]
        BY <1>1, <1>4, <1>9 DEF h
    <2>2. /\ \A n \in Len(longer) + 1 .. Len(here) : \E j \in DOMAIN left : left[j] = here[n]
          /\ \A j \in DOMAIN left : \E n \in Len(longer) + 1 .. Len(here) : here[n] = left[j]
          /\ \A i, j \in DOMAIN left, m, n \in Len(longer) + 1 .. Len(here) :
               i < j /\ here[m] = left[i] /\ here[n] = left[j] => m < n
        BY <1>6, <1>7, <1>8, <1>9 DEF h
    <2> QED BY <2>1, <2>2 DEF FollowedBy
<1> QED BY <1>10 DEF longer

-----------------------------------------------------------------------------
(* Steps that disturb nothing                                              *)

\* The call served is the first that was not: those before it are answered,
\* those after it wait.
LEMMA ServedInTurn ==
    ASSUME TypesHold, InTurn, NEW k \in DOMAIN calls, Serve(k), disturbed' = {}
    PROVE  /\ disturbed = {} /\ ~Refuses(calls[k])
           /\ DOMAIN calls = 1 .. Len(calls) /\ Len(calls) \in Nat
           /\ Len(calls') = Len(calls) /\ DOMAIN calls' = DOMAIN calls
           /\ calls[k].answer = "pending"
           /\ calls'[k].answer = "ok" /\ calls'[k].reply = Reply(calls[k])
           /\ \A j \in DOMAIN calls : /\ calls'[j].kind = calls[j].kind
                                      /\ calls'[j].token = calls[j].token
                                      /\ calls'[j].about = calls[j].about
                                      /\ j # k => calls'[j] = calls[j]
                                      /\ j < k => calls[j].answer = "ok"
                                      /\ calls[j].answer = "ok" => j < k
           /\ calls[k].kind = "send" => Executes(calls[k])
<1>1. disturbed = {} /\ ~Refuses(calls[k]) /\ ~Late(k) /\ calls[k].answer = "pending"
    BY DEF Serve
<1>2. DOMAIN calls = 1 .. Len(calls) /\ Len(calls) \in Nat
    BY CallAt
<1>3. ASSUME NEW j \in DOMAIN calls
      PROVE  (j < k => calls[j].answer = "ok") /\ (calls[j].answer = "ok" => j < k)
    <2>1. calls[j].answer \in {"pending", "ok"}
        BY CallAt DEF InTurn, CallRecord
    <2>2. j < k => calls[j].answer = "ok"
        <3>1. j < k => j \in 1 .. k - 1
            BY <1>2
        <3> QED BY <1>1, <2>1, <3>1 DEF Late
    <2>3. ASSUME calls[j].answer = "ok" PROVE j < k
        <3>1. j # k /\ ~(k < j)
            BY <1>1, <2>3 DEF InTurn
        <3> QED BY <1>2, <3>1
    <2> QED BY <2>2, <2>3
<1>4. /\ Len(calls') = Len(calls) /\ DOMAIN calls' = DOMAIN calls
      /\ calls'[k].answer = "ok" /\ calls'[k].reply = Reply(calls[k])
      /\ calls'[k].kind = calls[k].kind /\ calls'[k].token = calls[k].token
      /\ calls'[k].about = calls[k].about
      /\ \A j \in DOMAIN calls \ {k} : calls'[j] = calls[j]
    BY <1>1, ServeAnswers
<1>5. calls[k].kind = "send" => Executes(calls[k])
    BY <1>1 DEF InTurn, Executes
<1> QED BY <1>1, <1>2, <1>3, <1>4, <1>5

\* The answer handled is that to the oldest call, and all others move up.
LEMMA HandledInTurn ==
    ASSUME TypesHold, NEW k \in DOMAIN calls, NEW further \in Seq(Call), Handled(k, further),
           disturbed' = {}
    PROVE  /\ k = 1 /\ disturbed = {}
           /\ Len(calls) \in Nat \ {0} /\ DOMAIN calls = 1 .. Len(calls)
           /\ Len(further) \in Nat /\ DOMAIN further = 1 .. Len(further)
           /\ Len(calls') = Len(calls) - 1 + Len(further) /\ DOMAIN calls' = 1 .. Len(calls')
           /\ \A i \in DOMAIN calls' :
                \/ i < Len(calls) /\ i + 1 \in DOMAIN calls /\ calls'[i] = calls[i + 1]
                \/ /\ Len(calls) <= i /\ i - (Len(calls) - 1) \in DOMAIN further
                   /\ calls'[i] = further[i - (Len(calls) - 1)]
           /\ \A j \in DOMAIN calls \ {1} :
                j - 1 \in DOMAIN calls' /\ calls'[j - 1] = calls[j]
           /\ owner' = owner /\ store' = store
<1>1. /\ k = 1 /\ disturbed = {} /\ owner' = owner /\ store' = store
      /\ DOMAIN calls = 1 .. Len(calls) /\ Len(calls) \in Nat
      /\ Len(further) \in Nat /\ DOMAIN further = 1 .. Len(further)
    <2>1. k \in 1 .. Len(calls) /\ DOMAIN calls = 1 .. Len(calls) /\ Len(calls) \in Nat
        BY CallAt
    <2>2. disturbed' = disturbed \cup (IF k > 1 THEN {"unreliable"} ELSE {})
        BY DEF Handled
    <2>3. disturbed = {} /\ ~(k > 1)
        BY <2>2
    <2>4. k = 1
        BY <2>1, <2>3
    <2>5. Len(further) \in Nat /\ DOMAIN further = 1 .. Len(further)
        BY LenProperties
    <2>6. owner' = owner /\ store' = store
        BY DEF Handled, server
    <2> QED BY <2>1, <2>3, <2>4, <2>5, <2>6
<1>2. /\ Len(calls') = Len(calls) - 1 + Len(further) /\ DOMAIN calls' = 1 .. Len(calls')
      /\ \A i \in DOMAIN calls' :
           \/ /\ i < Len(calls) /\ Came(i, k) \in DOMAIN calls \ {k}
              /\ calls'[i] = calls[Came(i, k)]
           \/ /\ Len(calls) <= i /\ i - (Len(calls) - 1) \in DOMAIN further
              /\ calls'[i] = further[i - (Len(calls) - 1)]
    BY HandledCalls DEF TypesHold
<1>3. \A i \in DOMAIN calls' : Came(i, k) = i + 1
    BY <1>1, <1>2 DEF Came
<1>4. ASSUME NEW j \in DOMAIN calls \ {1}
      PROVE  j - 1 \in DOMAIN calls' /\ calls'[j - 1] = calls[j]
    <2>1. j - 1 \in DOMAIN calls' /\ j - 1 < Len(calls) /\ (j - 1) + 1 = j
        BY <1>1, <1>2
    <2>2. calls'[j - 1] = calls[Came(j - 1, k)]
        BY <1>2, <2>1
    <2> QED BY <1>3, <2>1, <2>2
<1>5. ASSUME NEW i \in DOMAIN calls'
      PROVE  \/ i < Len(calls) /\ i + 1 \in DOMAIN calls /\ calls'[i] = calls[i + 1]
             \/ /\ Len(calls) <= i /\ i - (Len(calls) - 1) \in DOMAIN further
                /\ calls'[i] = further[i - (Len(calls) - 1)]
    BY <1>2, <1>3
<1>6. Len(calls) \in Nat \ {0}
    BY <1>1
<1> QED BY <1>1, <1>2, <1>4, <1>5, <1>6

\* A click adds a call at the end.
LEMMA ClickedInTurn ==
    ASSUME TypesHold, NEW call, Clicked(call)
    PROVE  /\ DOMAIN calls = 1 .. Len(calls) /\ Len(calls) \in Nat
           /\ Len(calls') = Len(calls) + 1 /\ DOMAIN calls' = 1 .. Len(calls) + 1
           /\ \A i \in DOMAIN calls : i \in DOMAIN calls' /\ calls'[i] = calls[i]
           /\ calls'[Len(calls) + 1] = call /\ call.answer = "pending"
           /\ \A i \in DOMAIN calls' : i \in DOMAIN calls \/ i = Len(calls) + 1
           /\ owner' = owner /\ store' = store /\ currentUser' = currentUser
           /\ conversations' = conversations /\ container' = container
<1>1. /\ calls' \in Seq(Call) /\ Len(calls') = Len(calls) + 1
      /\ \A i \in DOMAIN calls : i \in DOMAIN calls' /\ calls'[i] = calls[i]
      /\ calls'[Len(calls) + 1] = call
      /\ \A i \in DOMAIN calls' : i \in DOMAIN calls \/ i = Len(calls) + 1
    BY ClickCalls DEF Clicked, TypesHold
<1>2. DOMAIN calls' = 1 .. Len(calls')
    BY <1>1, LenProperties
<1> QED BY <1>1, <1>2, CallAt DEF Clicked, Click, server, session

-----------------------------------------------------------------------------
(* First come, first served                                                *)

LEMMA ServeTurns ==
    ASSUME TypesHold, InTurn, NEW k \in DOMAIN calls, Serve(k), disturbed' = {}
    PROVE  InTurn'
<1>1. /\ DOMAIN calls' = DOMAIN calls
      /\ \A j \in DOMAIN calls : /\ calls'[j].kind = calls[j].kind
                                 /\ calls'[j].about = calls[j].about
                                 /\ j # k => calls'[j] = calls[j]
      /\ calls'[k].answer = "ok"
    BY ServedInTurn
<1>2. \A j \in DOMAIN calls' : calls'[j].answer # "refused"
    BY <1>1 DEF InTurn
<1>3. \A i, j \in DOMAIN calls' : i < j /\ calls'[j].answer = "ok" => calls'[i].answer = "ok"
    <2>1. \A i \in DOMAIN calls : i < k => calls[i].answer = "ok"
        BY ServedInTurn
    <2> QED BY <1>1, <2>1 DEF InTurn
<1>4. \A i, j \in DOMAIN calls' :
        calls'[i].kind = "send" /\ calls'[j].kind = "send"
          /\ calls'[i].about.key = calls'[j].about.key => i = j
    BY <1>1 DEF InTurn
<1>5. ASSUME NEW j \in DOMAIN calls', calls'[j].kind = "send", calls'[j].answer = "pending",
             NEW key, key = calls'[j].about.key
      PROVE  StoredIn(key)' = {}
    <2>1. /\ j # k /\ calls[j].kind = "send" /\ calls[j].answer = "pending"
          /\ key = calls[j].about.key
        BY <1>1, <1>5
    <2>2. StoredIn(key) = {}
        BY <1>1, <2>1 DEF InTurn
    <2>3. CASE Executes(calls[k])
        <3>1. calls[k].about.key # key
            BY <1>1, <2>1, <2>3 DEF InTurn, Executes
        <3> QED BY <2>2, <2>3, <3>1, ServeStores
    <2>4. CASE ~Executes(calls[k])
        BY <2>2, <2>4, ServeStores
    <2> QED BY <2>3, <2>4
<1> QED BY <1>2, <1>3, <1>4, <1>5 DEF InTurn, StoredIn

LEMMA HandledTurns ==
    ASSUME TypesHold, InTurn, NEW k \in DOMAIN calls, NEW further \in Seq(Call),
           Handled(k, further), disturbed' = {},
           \A n \in DOMAIN further : further[n].answer = "pending" /\ further[n].kind # "send"
    PROVE  InTurn'
<1>1. /\ DOMAIN calls = 1 .. Len(calls) /\ Len(calls) \in Nat /\ DOMAIN calls' = 1 .. Len(calls')
      /\ Len(calls') \in Nat
      /\ \A i \in DOMAIN calls' :
           \/ i < Len(calls) /\ i + 1 \in DOMAIN calls /\ calls'[i] = calls[i + 1]
           \/ Len(calls) <= i /\ calls'[i].answer = "pending" /\ calls'[i].kind # "send"
      /\ owner' = owner /\ store' = store
    BY HandledInTurn, HandledCalls, LenProperties
<1>2. \A i \in DOMAIN calls' : calls'[i].answer # "refused"
    BY <1>1 DEF InTurn
<1>3. ASSUME NEW i \in DOMAIN calls', NEW j \in DOMAIN calls', i < j, calls'[j].answer = "ok"
      PROVE  calls'[i].answer = "ok"
    <2>1. j < Len(calls) /\ j + 1 \in DOMAIN calls /\ calls'[j] = calls[j + 1]
        BY <1>1, <1>3
    <2>2. i < Len(calls) /\ i + 1 < j + 1
        BY <1>1, <1>3, <2>1
    <2>3. i + 1 \in DOMAIN calls /\ calls'[i] = calls[i + 1]
        BY <1>1, <2>2
    <2> QED BY <1>3, <2>1, <2>2, <2>3 DEF InTurn
<1>4. ASSUME NEW i \in DOMAIN calls', NEW j \in DOMAIN calls',
             calls'[i].kind = "send", calls'[j].kind = "send",
             calls'[i].about.key = calls'[j].about.key
      PROVE  i = j
    <2>1. i + 1 \in DOMAIN calls /\ calls'[i] = calls[i + 1]
        BY <1>1, <1>4
    <2>2. j + 1 \in DOMAIN calls /\ calls'[j] = calls[j + 1]
        BY <1>1, <1>4
    <2>3. i + 1 = j + 1
        BY <1>4, <2>1, <2>2 DEF InTurn
    <2> QED BY <1>1, <2>3
<1>5. \A i \in DOMAIN calls' : calls'[i].kind = "send" /\ calls'[i].answer = "pending" =>
        \A key \in {calls'[i].about.key} : StoredIn(key) = {}
    <2>1. \A i \in DOMAIN calls' : calls'[i].kind = "send" =>
            i + 1 \in DOMAIN calls /\ calls'[i] = calls[i + 1]
        BY <1>1
    <2>2. \A i \in DOMAIN calls : calls[i].kind = "send" /\ calls[i].answer = "pending" =>
            StoredIn(calls[i].about.key) = {}
        BY DEF InTurn
    <2> QED BY <2>1, <2>2
<1> QED BY <1>1, <1>2, <1>3, <1>4, <1>5 DEF InTurn, StoredIn

LEMMA ClickedTurns ==
    ASSUME TypesHold, InTurn, NEW call, Clicked(call),
           call.kind = "send" =>
             /\ StoredIn(call.about.key) = {}
             /\ \A j \in DOMAIN calls : calls[j].kind = "send" => calls[j].about.key # call.about.key
    PROVE  InTurn'
<1>1. /\ DOMAIN calls = 1 .. Len(calls) /\ Len(calls) \in Nat
      /\ DOMAIN calls' = 1 .. Len(calls) + 1
      /\ \A i \in DOMAIN calls : i \in DOMAIN calls' /\ calls'[i] = calls[i]
      /\ calls'[Len(calls) + 1] = call /\ call.answer = "pending"
      /\ \A i \in DOMAIN calls' : i \in DOMAIN calls \/ i = Len(calls) + 1
      /\ owner' = owner /\ store' = store
    BY ClickedInTurn
<1>2. \A i \in DOMAIN calls' : calls'[i].answer # "refused"
    BY <1>1 DEF InTurn
<1>3. ASSUME NEW i \in DOMAIN calls', NEW j \in DOMAIN calls', i < j, calls'[j].answer = "ok"
      PROVE  calls'[i].answer = "ok"
    <2>1. j \in DOMAIN calls /\ i \in DOMAIN calls
        BY <1>1, <1>3
    <2> QED BY <1>1, <1>3, <2>1 DEF InTurn
<1>4. ASSUME NEW i \in DOMAIN calls', NEW j \in DOMAIN calls',
             calls'[i].kind = "send", calls'[j].kind = "send",
             calls'[i].about.key = calls'[j].about.key
      PROVE  i = j
    BY <1>1, <1>4 DEF InTurn
<1>5. \A i \in DOMAIN calls' : calls'[i].kind = "send" /\ calls'[i].answer = "pending" =>
        \A key \in {calls'[i].about.key} : StoredIn(key) = {}
    <2>1. \A i \in DOMAIN calls : calls[i].kind = "send" /\ calls[i].answer = "pending" =>
            StoredIn(calls[i].about.key) = {}
        BY DEF InTurn
    <2>2. ASSUME NEW i \in DOMAIN calls', calls'[i].kind = "send"
          PROVE  calls'[i] = call \/ (i \in DOMAIN calls /\ calls'[i] = calls[i])
        BY <1>1
    <2> QED BY <2>1, <2>2
<1> QED BY <1>1, <1>2, <1>3, <1>4, <1>5 DEF InTurn, StoredIn

-----------------------------------------------------------------------------
(* The list is loaded again after all that changes it                      *)

LEMMA SameListing ==
    ASSUME owner' = owner, store' = store, currentUser' = currentUser
    PROVE  Listing(currentUser)' = Listing(currentUser)
BY DEF Listing

LEMMA ServeLists ==
    ASSUME TypesHold, InTurn, ListInTurn, NEW k \in DOMAIN calls, Serve(k), disturbed' = {}
    PROVE  ListInTurn'
<1>1. /\ DOMAIN calls' = DOMAIN calls
      /\ \A j \in DOMAIN calls : /\ calls'[j].kind = calls[j].kind
                                 /\ calls'[j].token = calls[j].token
                                 /\ j # k => calls'[j] = calls[j]
      /\ ~Refuses(calls[k]) /\ calls'[k].reply = Reply(calls[k])
    BY ServedInTurn
<1>2. currentUser' = currentUser /\ conversations' = conversations
    BY DEF Serve, session, page
<1>3. \A j \in DOMAIN calls : LastList(j)' <=> LastList(j)
    BY <1>1 DEF LastList
<1>4. \A j \in DOMAIN calls' : LastList(j)' => calls'[j].token = currentUser'
    BY <1>1, <1>2, <1>3 DEF ListInTurn
<1>5. ASSUME \A j \in DOMAIN calls' : calls'[j].kind \in {"list", "messages"}
      PROVE  /\ \A j \in DOMAIN calls' : LastList(j)' /\ calls'[j].answer = "ok" =>
                  calls'[j].reply = Listing(currentUser)'
             /\ (\A j \in DOMAIN calls' : calls'[j].kind # "list") =>
                  conversations' = Listing(currentUser)'
    <2>1. \A j \in DOMAIN calls : calls[j].kind \in {"list", "messages"}
        BY <1>1, <1>5
    <2>2. owner' = owner /\ store' = store
        <3>1. calls[k].kind # "create" /\ calls[k].kind # "send"
            BY <2>1
        <3> QED BY <3>1 DEF Serve, Executes
    <2>3. Listing(currentUser)' = Listing(currentUser)
        BY <1>2, <2>2, SameListing
    <2>4. ASSUME NEW j \in DOMAIN calls, LastList(j), calls'[j].answer = "ok"
          PROVE  calls'[j].reply = Listing(currentUser)
        <3>1. CASE j = k
            <4>1. calls[k].kind = "list" /\ calls[k].token = currentUser
                BY <2>4, <3>1 DEF ListInTurn, LastList
            <4> QED BY <1>1, <3>1, <4>1 DEF Reply
        <3>2. CASE j # k
            BY <1>1, <2>1, <2>4, <3>2 DEF ListInTurn
        <3> QED BY <3>1, <3>2
    <2>5. (\A j \in DOMAIN calls : calls[j].kind # "list") => conversations = Listing(currentUser)
        BY <2>1 DEF ListInTurn
    <2> QED BY <1>1, <1>2, <1>3, <2>3, <2>4, <2>5
<1> QED BY <1>4, <1>5 DEF ListInTurn

\* The list is asked for last, and for the user of now.
LEMMA AskedLast ==
    ASSUME TypesHold, NEW k \in DOMAIN calls, NEW call \in Call, Handled(k, << call >>),
           call.kind = "list", call.answer = "pending", call.token = currentUser',
           disturbed' = {}
    PROVE  ListInTurn'
<1>1. << call >> \in Seq(Call) /\ Len(<< call >>) = 1 /\ DOMAIN << call >> = {1} /\ << call >>[1] = call
    BY OneCall
<1>2. /\ Len(calls) \in Nat \ {0} /\ Len(calls') = Len(calls) /\ DOMAIN calls' = 1 .. Len(calls)
      /\ \A i \in DOMAIN calls' :
           \/ i < Len(calls)
           \/ i - (Len(calls) - 1) \in {1} /\ calls'[i] = << call >>[i - (Len(calls) - 1)]
    <2>1. /\ Len(calls) \in Nat \ {0} /\ DOMAIN calls' = 1 .. Len(calls')
          /\ Len(calls') = Len(calls) - 1 + Len(<< call >>)
          /\ \A i \in DOMAIN calls' :
               \/ i < Len(calls)
               \/ /\ i - (Len(calls) - 1) \in DOMAIN << call >>
                  /\ calls'[i] = << call >>[i - (Len(calls) - 1)]
        BY <1>1, HandledInTurn
    <2> QED BY <1>1, <2>1
<1> DEFINE last == Len(calls)
<1>3. last \in DOMAIN calls' /\ calls'[last] = call /\ \A i \in DOMAIN calls' : i <= last
    BY <1>1, <1>2
<1>4. ASSUME NEW i \in DOMAIN calls', LastList(i)' PROVE i = last
    <2>1. last <= i
        BY <1>3, <1>4 DEF LastList
    <2> QED BY <1>2, <1>3, <2>1
<1> HIDE DEF last
<1>5. \A i \in DOMAIN calls' : LastList(i)' =>
        calls'[i].token = currentUser' /\ calls'[i].answer # "ok"
    BY <1>3, <1>4
<1>6. \E i \in DOMAIN calls' : calls'[i].kind = "list"
    BY <1>3
<1> QED BY <1>5, <1>6 DEF ListInTurn

\* A handler that asks for nothing but messages.
LEMMA HandledLists ==
    ASSUME TypesHold, ListInTurn, NEW k \in DOMAIN calls, NEW further \in Seq(Call),
           Handled(k, further), disturbed' = {}, currentUser' = currentUser,
           calls[k].answer = "ok",
           \/ calls[k].kind = "list" /\ conversations' = calls[k].reply
           \/ calls[k].kind = "messages" /\ conversations' = conversations,
           \A n \in DOMAIN further : further[n].kind = "messages"
    PROVE  ListInTurn'
<1>1. /\ k = 1 /\ Len(calls) \in Nat \ {0} /\ DOMAIN calls = 1 .. Len(calls)
      /\ DOMAIN calls' = 1 .. Len(calls')
      /\ \A i \in DOMAIN calls' :
           \/ i < Len(calls) /\ i + 1 \in DOMAIN calls /\ calls'[i] = calls[i + 1]
           \/ Len(calls) <= i /\ calls'[i].kind = "messages"
      /\ \A j \in DOMAIN calls \ {1} : j - 1 \in DOMAIN calls' /\ calls'[j - 1] = calls[j]
      /\ owner' = owner /\ store' = store
    BY HandledInTurn
<1>2. Listing(currentUser)' = Listing(currentUser)
    BY <1>1, SameListing
<1>3. ASSUME NEW i \in DOMAIN calls', LastList(i)'
      PROVE  i + 1 \in DOMAIN calls /\ calls'[i] = calls[i + 1] /\ LastList(i + 1)
    <2>1. calls'[i].kind = "list" /\ \A j \in DOMAIN calls' : calls'[j].kind = "list" => j <= i
        BY <1>3 DEF LastList
    <2>2. i + 1 \in DOMAIN calls /\ calls'[i] = calls[i + 1]
        BY <1>1, <2>1
    <2>3. ASSUME NEW j \in DOMAIN calls, calls[j].kind = "list" PROVE j <= i + 1
        <3>1. CASE j = 1
            BY <1>1, <2>2, <3>1
        <3>2. CASE j # 1
            <4>1. j - 1 <= i
                BY <1>1, <2>1, <2>3, <3>2
            <4> QED BY <1>1, <4>1
        <3> QED BY <3>1, <3>2
    <2> QED BY <2>1, <2>2, <2>3 DEF LastList
<1>4. \A i \in DOMAIN calls' : LastList(i)' => calls'[i].token = currentUser'
    BY <1>3 DEF ListInTurn
<1>5. ASSUME \A i \in DOMAIN calls' : calls'[i].kind \in {"list", "messages"}
      PROVE  /\ \A i \in DOMAIN calls' : LastList(i)' /\ calls'[i].answer = "ok" =>
                  calls'[i].reply = Listing(currentUser)'
             /\ (\A i \in DOMAIN calls' : calls'[i].kind # "list") =>
                  conversations' = Listing(currentUser)'
    <2>1. \A j \in DOMAIN calls : calls[j].kind \in {"list", "messages"}
        <3>1. calls[1].kind \in {"list", "messages"}
            BY <1>1
        <3> QED BY <1>1, <1>5, <3>1
    <2>2. /\ \A j \in DOMAIN calls :
               LastList(j) /\ calls[j].answer = "ok" => calls[j].reply = Listing(currentUser)
          /\ (\A j \in DOMAIN calls : calls[j].kind # "list") =>
               conversations = Listing(currentUser)
        BY <2>1 DEF ListInTurn
    <2>3. ASSUME \A i \in DOMAIN calls' : calls'[i].kind # "list"
          PROVE  conversations' = Listing(currentUser)
        <3>1. \A j \in DOMAIN calls \ {1} : calls[j].kind # "list"
            BY <1>1, <2>3
        <3>2. CASE calls[k].kind = "list"
            <4>1. LastList(1)
                <5>1. \A j \in DOMAIN calls : calls[j].kind = "list" => j = 1
                    BY <3>1
                <5> QED BY <1>1, <3>2, <5>1 DEF LastList
            <4> QED BY <1>1, <2>2, <3>2, <4>1
        <3>3. CASE calls[k].kind = "messages"
            <4>1. \A j \in DOMAIN calls : calls[j].kind # "list"
                BY <1>1, <3>1, <3>3
            <4> QED BY <2>2, <3>3, <4>1
        <3> QED BY <3>2, <3>3
    <2> QED BY <1>2, <1>3, <2>2, <2>3
<1> QED BY <1>4, <1>5 DEF ListInTurn

LEMMA ClickedLists ==
    ASSUME TypesHold, ListInTurn, NEW call, Clicked(call), call.kind # "list"
    PROVE  ListInTurn'
<1>1. /\ \A i \in DOMAIN calls : i \in DOMAIN calls' /\ calls'[i] = calls[i]
      /\ DOMAIN calls = 1 .. Len(calls) /\ Len(calls) \in Nat
      /\ calls'[Len(calls) + 1] = call
      /\ \A i \in DOMAIN calls' : i \in DOMAIN calls \/ i = Len(calls) + 1
      /\ owner' = owner /\ store' = store /\ currentUser' = currentUser
      /\ conversations' = conversations
    BY ClickedInTurn
<1>2. Listing(currentUser)' = Listing(currentUser)
    BY <1>1, SameListing
<1>3. ASSUME NEW i \in DOMAIN calls', LastList(i)'
      PROVE  i \in DOMAIN calls /\ calls'[i] = calls[i] /\ LastList(i)
    BY <1>1, <1>3 DEF LastList
<1>4. \A i \in DOMAIN calls' : LastList(i)' => calls'[i].token = currentUser'
    BY <1>1, <1>3 DEF ListInTurn
<1>5. ASSUME \A i \in DOMAIN calls' : calls'[i].kind \in {"list", "messages"}
      PROVE  /\ \A i \in DOMAIN calls' : LastList(i)' /\ calls'[i].answer = "ok" =>
                  calls'[i].reply = Listing(currentUser)'
             /\ (\A i \in DOMAIN calls' : calls'[i].kind # "list") =>
                  conversations' = Listing(currentUser)'
    <2>1. \A j \in DOMAIN calls : calls[j].kind \in {"list", "messages"}
        BY <1>1, <1>5
    <2>2. /\ \A j \in DOMAIN calls :
               LastList(j) /\ calls[j].answer = "ok" => calls[j].reply = Listing(currentUser)
          /\ (\A j \in DOMAIN calls : calls[j].kind # "list") =>
               conversations = Listing(currentUser)
        BY <2>1 DEF ListInTurn
    <2>3. (\A i \in DOMAIN calls' : calls'[i].kind # "list") =>
            \A j \in DOMAIN calls : calls[j].kind # "list"
        BY <1>1
    <2> QED BY <1>1, <1>2, <1>3, <2>2, <2>3
<1> QED BY <1>4, <1>5 DEF ListInTurn

-----------------------------------------------------------------------------
(* What is shown is what was stored, and what was sent since is to come    *)

\* The messages shown are those of the stored exchanges.
LEMMA ShownIsSequence ==
    ASSUME TypesHold, NEW p \in 0 .. Len(calls), LastLoad(p), p = 0 \/ calls[p].answer = "ok"
    PROVE  Shown(p) \in Seq(Exchange)
<1>1. CASE p = 0
    BY <1>1 DEF Shown, TypesHold
<1>2. CASE p # 0
    <2>1. p \in DOMAIN calls /\ calls[p].kind = "messages"
        <3>1. p \in 1 .. Len(calls)
            BY <1>2
        <3>2. Len(calls) \in Nat /\ DOMAIN calls = 1 .. Len(calls)
            BY LenProperties DEF TypesHold
        <3> QED BY <1>2, <3>1, <3>2 DEF LastLoad
    <2>2. calls[p].reply \in Seq(Exchange)
        BY <1>2, <2>1, OkReply DEF Ok
    <2> QED BY <1>2, <2>2 DEF Shown
<1> QED BY <1>1, <1>2

\* An answer to a send is stored after what was there.
LEMMA ServeLoadsSend ==
    ASSUME TypesHold, InTurn, NEW k \in DOMAIN calls, Serve(k), disturbed' = {},
           calls[k].kind = "send", NEW p \in 0 .. Len(calls), p < k, LastLoad(p),
           NEW here, here = calls[k].about.convo,
           p = 0 \/ calls[p].answer = "ok",
           FollowedBy(Shown(p), SentAfter(p), store[here])
    PROVE  FollowedBy(Shown(p), SentAfter(p)', store'[here])
<1> DEFINE key == calls[k].about.key
           sent == SentAfter(p)
           more == SentAfter(p)'
<1>1. /\ DOMAIN calls' = DOMAIN calls /\ DOMAIN calls = 1 .. Len(calls)
      /\ \A j \in DOMAIN calls : /\ calls'[j].kind = calls[j].kind
                                 /\ calls'[j].about = calls[j].about
                                 /\ j # k => calls'[j] = calls[j]
                                 /\ calls[j].answer = "ok" => j < k
      /\ calls'[k].answer = "ok" /\ Executes(calls[k])
    BY ServedInTurn
<1>2. here \in Conversation /\ key \in Exchange
    BY <1>1, ServeStores
<1>3. store'[here] = Append(store[here], key) /\ store[here] \in Seq(Exchange)
    BY <1>1, <1>2 DEF Serve, TypesHold
<1>4. \A n \in DOMAIN store[here] : store[here][n] # key
    <2>1. StoredIn(key) = {}
        BY <1>1 DEF Executes
    <2> QED BY <1>2, <2>1 DEF StoredIn
<1>5. /\ DOMAIN sent = {i \in DOMAIN calls : i > p /\ calls[i].kind = "send" /\ calls[i].answer = "ok"}
      /\ \A j \in DOMAIN sent : sent[j] = calls[j].about.key
    BY DEF SentAfter
<1>6. /\ DOMAIN more = {i \in DOMAIN calls' : i > p /\ calls'[i].kind = "send" /\ calls'[i].answer = "ok"}
      /\ \A j \in DOMAIN more : more[j] = calls'[j].about.key
    BY DEF SentAfter
<1>7. Shown(p) \in Seq(Exchange)
    BY ShownIsSequence
<1> HIDE DEF sent, more, key
<1>8. DOMAIN sent \subseteq Nat /\ k \in Nat /\ \A j \in DOMAIN sent : j < k
    BY <1>1, <1>5
<1>9. DOMAIN more = DOMAIN sent \cup {k}
    <2>1. k \in DOMAIN more
        BY <1>1, <1>6
    <2>2. ASSUME NEW j \in DOMAIN calls, j # k PROVE j \in DOMAIN more <=> j \in DOMAIN sent
        BY <1>1, <1>5, <1>6, <2>2
    <2> QED BY <1>1, <1>5, <1>6, <2>1, <2>2
<1>10. more[k] = key
    BY <1>1, <1>6, <1>9 DEF key
<1>11. \A j \in DOMAIN sent : more[j] = sent[j]
    BY <1>1, <1>5, <1>6, <1>9
<1>12. FollowedBy(Shown(p), sent, store[here])
    BY DEF sent
<1> DEFINE base == Shown(p)
           old == store[here]
<1>13. base \in Seq(Exchange) /\ old \in Seq(Exchange) /\ FollowedBy(base, sent, old)
       /\ \A n \in DOMAIN old : old[n] # key
    BY <1>3, <1>4, <1>7, <1>12
<1>14. store'[here] = Append(old, key)
    BY <1>3
<1> HIDE DEF base, old
<1>15. FollowedBy(base, more, Append(old, key))
    BY <1>2, <1>8, <1>9, <1>10, <1>11, <1>13, FollowedServe
<1> QED BY <1>14, <1>15 DEF base, more

LEMMA ServeLoads ==
    ASSUME TypesHold, InTurn, LoadInTurn, NEW k \in DOMAIN calls, Serve(k), disturbed' = {}
    PROVE  LoadInTurn'
<1>1. /\ DOMAIN calls' = DOMAIN calls /\ Len(calls') = Len(calls) /\ Len(calls) \in Nat
      /\ DOMAIN calls = 1 .. Len(calls)
      /\ \A j \in DOMAIN calls : /\ calls'[j].kind = calls[j].kind
                                 /\ calls'[j].about = calls[j].about
                                 /\ j # k => calls'[j] = calls[j]
                                 /\ calls[j].answer = "ok" => j < k
      /\ calls'[k].answer = "ok" /\ calls'[k].reply = Reply(calls[k])
    BY ServedInTurn
<1>2. /\ currentConvoId' = currentConvoId /\ container' = container
      /\ conversations' = conversations
    BY DEF Serve, page
<1>3. \A p \in 0 .. Len(calls) : LastLoad(p)' => LastLoad(p)
    <2>1. \A p \in 0 .. Len(calls) : p # 0 => p \in DOMAIN calls
        BY <1>1
    <2> QED BY <1>1, <2>1 DEF LastLoad
<1>4. ASSUME currentConvoId = Nothing
      PROVE  /\ container' = << >> /\ conversations' = {}
             /\ \A j \in DOMAIN calls' : calls'[j].kind \notin {"messages", "send"}
    BY <1>1, <1>2, <1>4 DEF LoadInTurn
<1>5. ASSUME currentConvoId # Nothing, NEW p \in 0 .. Len(calls), LastLoad(p)'
      PROVE  /\ p # 0 => calls'[p].about = currentConvoId
             /\ \A j \in DOMAIN calls' :
                  j > p /\ calls'[j].kind = "send" => calls'[j].about.convo = currentConvoId
             /\ p = 0 \/ calls'[p].answer = "ok" =>
                  FollowedBy(Shown(p)', SentAfter(p)', store'[currentConvoId])
    <2>1. /\ LastLoad(p)
          /\ p # 0 => calls[p].about = currentConvoId
          /\ \A j \in DOMAIN calls :
               j > p /\ calls[j].kind = "send" => calls[j].about.convo = currentConvoId
          /\ p = 0 \/ calls[p].answer = "ok" =>
               FollowedBy(Shown(p), SentAfter(p), store[currentConvoId])
        BY <1>3, <1>5 DEF LoadInTurn
    <2>2. p # 0 => p \in DOMAIN calls
        BY <1>1
    <2>3. ASSUME p = 0 \/ calls'[p].answer = "ok"
          PROVE  FollowedBy(Shown(p)', SentAfter(p)', store'[currentConvoId])
        <3>1. CASE p = k
            <4>0. p # 0
                BY <1>1, <3>1
            <4>1. calls[k].kind = "messages" /\ calls[k].about = currentConvoId
                BY <2>1, <3>1, <4>0 DEF LastLoad
            <4>2. store' = store
                BY <4>1 DEF Serve, Executes
            <4>3. Shown(p)' = store[currentConvoId]
                BY <1>1, <3>1, <4>0, <4>1 DEF Shown, Reply
            <4>4. DOMAIN (SentAfter(p)') = {}
                <5>1. \A j \in DOMAIN calls' : j > p => calls'[j].answer # "ok"
                    BY <1>1, <3>1
                <5> QED BY <5>1 DEF SentAfter
            <4>5. store[currentConvoId] \in Seq(Exchange)
                BY <1>5 DEF TypesHold
            <4> DEFINE sent == SentAfter(p)'
                       here == store[currentConvoId]
            <4>6. DOMAIN sent = {} /\ here \in Seq(Exchange)
                BY <4>4, <4>5
            <4> HIDE DEF sent, here
            <4>7. FollowedBy(here, sent, here)
                BY <4>6, FollowedStart
            <4> QED BY <4>2, <4>3, <4>7 DEF sent, here
        <3>2. CASE p # k
            <4>1. p = 0 \/ calls[p].answer = "ok"
                BY <1>1, <2>2, <2>3, <3>2
            <4>2. p < k
                BY <1>1, <2>2, <4>1
            <4>3. Shown(p)' = Shown(p)
                BY <1>1, <1>2, <2>2, <3>2 DEF Shown
            <4>4. FollowedBy(Shown(p), SentAfter(p), store[currentConvoId])
                BY <2>1, <4>1
            <4>5. CASE calls[k].kind = "send"
                <5>1. currentConvoId = calls[k].about.convo
                    BY <2>1, <4>2, <4>5
                <5> QED BY <2>1, <4>1, <4>2, <4>3, <4>4, <4>5, <5>1, ServeLoadsSend
            <4>6. CASE calls[k].kind # "send"
                <5>1. store' = store
                    BY <4>6 DEF Serve, Executes
                <5>2. ASSUME NEW j \in DOMAIN calls
                      PROVE  calls'[j].kind = "send" /\ calls'[j].answer = "ok" <=>
                               calls[j].kind = "send" /\ calls[j].answer = "ok"
                    BY <1>1, <4>6
                <5>3. SentAfter(p)' = SentAfter(p)
                    <6> DEFINE D == {i \in DOMAIN calls :
                                       i > p /\ calls[i].kind = "send" /\ calls[i].answer = "ok"}
                    <6>1. {i \in DOMAIN calls' :
                             i > p /\ calls'[i].kind = "send" /\ calls'[i].answer = "ok"} = D
                        BY <1>1, <5>2
                    <6>2. \A j \in D : calls'[j].about.key = calls[j].about.key
                        BY <1>1
                    <6>3. SentAfter(p) = [j \in D |-> calls[j].about.key]
                        BY DEF SentAfter
                    <6> HIDE DEF D
                    <6>4. SentAfter(p)' = [j \in D |-> calls'[j].about.key]
                        BY <6>1 DEF SentAfter
                    <6> QED BY <6>2, <6>3, <6>4
                <5> QED BY <4>3, <4>4, <5>1, <5>3
            <4> QED BY <4>5, <4>6
        <3> QED BY <3>1, <3>2
    <2> QED BY <1>1, <2>1, <2>2, <2>3
<1> QED BY <1>1, <1>2, <1>4, <1>5 DEF LoadInTurn

\* Messages are asked for last, and of the conversation selected.
LEMMA SelectedLast ==
    ASSUME NEW n \in Nat \ {0}, DOMAIN calls' = 1 .. n, Len(calls') = n,
           calls'[n].kind = "messages", calls'[n].answer = "pending",
           calls'[n].about = currentConvoId', currentConvoId' # Nothing
    PROVE  LoadInTurn'
<1>1. n \in DOMAIN calls' /\ \A p \in 0 .. n : p <= n /\ (p # n => n > p)
    OBVIOUS
<1>2. ASSUME NEW p \in 0 .. n, LastLoad(p)' PROVE p = n
    BY <1>1, <1>2 DEF LastLoad
<1>3. ASSUME NEW p \in 0 .. n, LastLoad(p)'
      PROVE  /\ p # 0 /\ calls'[p].about = currentConvoId' /\ calls'[p].answer # "ok"
             /\ \A j \in DOMAIN calls' : ~(j > p)
    BY <1>2, <1>3
<1> QED BY <1>3 DEF LoadInTurn

\* The oldest call leaves.  Call q was the last to load messages, call p it
\* is now: or none does.
LEMMA ShiftedSends ==
    ASSUME TypesHold, NEW k \in DOMAIN calls, NEW further \in Seq(Call), Handled(k, further),
           disturbed' = {}, \A n \in DOMAIN further : further[n].answer = "pending",
           NEW p \in Nat, NEW q \in Nat, q = p + 1 \/ (q = 0 /\ p = 0)
    PROVE  /\ DOMAIN SentAfter(q) \subseteq Nat \ {0} /\ DOMAIN (SentAfter(p)') \subseteq Nat \ {0}
           /\ \A j \in DOMAIN SentAfter(q) \ {1} :
                j - 1 \in DOMAIN (SentAfter(p)') /\ SentAfter(p)'[j - 1] = SentAfter(q)[j]
           /\ \A i \in DOMAIN (SentAfter(p)') :
                i + 1 \in DOMAIN SentAfter(q) /\ SentAfter(p)'[i] = SentAfter(q)[i + 1]
<1> DEFINE sent == SentAfter(q)
           left == SentAfter(p)'
<1>1. /\ Len(calls) \in Nat \ {0} /\ DOMAIN calls = 1 .. Len(calls)
      /\ DOMAIN calls' = 1 .. Len(calls')
      /\ \A i \in DOMAIN calls' :
           \/ i < Len(calls) /\ i + 1 \in DOMAIN calls /\ calls'[i] = calls[i + 1]
           \/ Len(calls) <= i /\ calls'[i].answer = "pending"
      /\ \A j \in DOMAIN calls \ {1} : j - 1 \in DOMAIN calls' /\ calls'[j - 1] = calls[j]
    BY HandledInTurn
<1>5. /\ DOMAIN sent = {i \in DOMAIN calls : i > q /\ calls[i].kind = "send" /\ calls[i].answer = "ok"}
      /\ \A j \in DOMAIN sent : sent[j] = calls[j].about.key
    BY DEF SentAfter
<1>6. /\ DOMAIN left = {i \in DOMAIN calls' : i > p /\ calls'[i].kind = "send" /\ calls'[i].answer = "ok"}
      /\ \A j \in DOMAIN left : left[j] = calls'[j].about.key
    BY DEF SentAfter
<1> HIDE DEF sent, left
<1>2. DOMAIN sent \subseteq Nat \ {0}
    BY <1>1, <1>5
<1>3. DOMAIN left \subseteq Nat \ {0}
    BY <1>6, <1>1
<1>7. ASSUME NEW j \in DOMAIN sent \ {1} PROVE j - 1 \in DOMAIN left /\ left[j - 1] = sent[j]
    <2>1. j \in DOMAIN calls \ {1} /\ j > q /\ calls[j].kind = "send" /\ calls[j].answer = "ok"
        BY <1>5
    <2>2. j - 1 \in DOMAIN calls' /\ calls'[j - 1] = calls[j]
        BY <1>1, <2>1
    <2>3. j - 1 > p
        BY <1>1, <2>1
    <2>4. j - 1 \in DOMAIN left
        BY <1>6, <2>1, <2>2, <2>3
    <2> QED BY <1>5, <1>6, <2>2, <2>4
<1>8. ASSUME NEW i \in DOMAIN left PROVE i + 1 \in DOMAIN sent /\ left[i] = sent[i + 1]
    <2>1. i \in DOMAIN calls' /\ i > p /\ calls'[i].kind = "send" /\ calls'[i].answer = "ok"
        BY <1>6
    <2>2. i + 1 \in DOMAIN calls /\ calls'[i] = calls[i + 1]
        BY <1>1, <2>1
    <2>3. i + 1 > q
        BY <1>1, <2>1
    <2>4. i + 1 \in DOMAIN sent
        BY <1>5, <2>1, <2>2, <2>3
    <2> QED BY <1>5, <1>6, <2>2, <2>4
<1> QED BY <1>2, <1>3, <1>7, <1>8 DEF sent, left

\* The answer handled is none to the last load: what is shown or about to be
\* shown stays.
LEMMA HandledBefore ==
    ASSUME TypesHold, NEW k \in DOMAIN calls, NEW further \in Seq(Call), Handled(k, further),
           disturbed' = {}, \A n \in DOMAIN further : further[n].answer = "pending",
           NEW p \in Nat, NEW q \in Nat, NEW here, NEW base,
           q = p + 1 \/ (q = 0 /\ p = 0),
           q = 0 => calls[1].kind # "send",
           FollowedBy(base, SentAfter(q), here)
    PROVE  FollowedBy(base, SentAfter(p)', here)
<1> DEFINE sent == SentAfter(q)
           left == SentAfter(p)'
<1>1. /\ DOMAIN sent \subseteq Nat \ {0} /\ DOMAIN left \subseteq Nat \ {0}
      /\ \A j \in DOMAIN sent \ {1} : j - 1 \in DOMAIN left /\ left[j - 1] = sent[j]
      /\ \A i \in DOMAIN left : i + 1 \in DOMAIN sent /\ left[i] = sent[i + 1]
    BY ShiftedSends
<1>2. 1 \notin DOMAIN sent
    BY DEF SentAfter
<1>3. FollowedBy(base, sent, here)
    OBVIOUS
<1> HIDE DEF sent, left
<1>4. DOMAIN sent \subseteq Nat /\ DOMAIN left \subseteq Nat
    BY <1>1
<1>5. \A j \in DOMAIN sent : j - 1 \in DOMAIN left /\ left[j - 1] = sent[j]
    BY <1>1, <1>2
<1>6. \A i \in DOMAIN left : i + 1 \in DOMAIN sent /\ left[i] = sent[i + 1]
    BY <1>1
<1>7. FollowedBy(base, left, here)
    BY <1>3, <1>4, <1>5, <1>6, FollowedShift
<1> QED BY <1>7 DEF left

\* The answer handled is to a send, and shows what was stored next.
LEMMA HandledSend ==
    ASSUME TypesHold, StoredOnce, NEW k \in DOMAIN calls, NEW further \in Seq(Call),
           Handled(k, further), disturbed' = {},
           \A n \in DOMAIN further : further[n].answer = "pending",
           Ok(k, "send"), NEW c \in Conversation,
           FollowedBy(container, SentAfter(0), store[c])
    PROVE  FollowedBy(Append(container, calls[k].reply), SentAfter(0)', store[c])
<1> DEFINE sent == SentAfter(0)
           left == SentAfter(0)'
           here == store[c]
<1>1. /\ DOMAIN sent \subseteq Nat \ {0} /\ DOMAIN left \subseteq Nat \ {0}
      /\ \A j \in DOMAIN sent \ {1} : j - 1 \in DOMAIN left /\ left[j - 1] = sent[j]
      /\ \A i \in DOMAIN left : i + 1 \in DOMAIN sent /\ left[i] = sent[i + 1]
    BY ShiftedSends
<1>2. k = 1 /\ 1 \in DOMAIN calls
    BY HandledInTurn
<1>3. 1 \in DOMAIN sent /\ sent[1] = calls[k].about.key
    BY <1>2 DEF SentAfter, Ok
<1>4. calls[k].reply = calls[k].about.key /\ calls[k].reply \in Exchange
    BY OkReply DEF Exchange
<1>5. here \in Seq(Exchange) /\ container \in Seq(Exchange)
    BY DEF TypesHold
<1>6. \A m, n \in DOMAIN here : here[m] = here[n] => m = n
    BY DEF StoredOnce
<1>7. FollowedBy(container, sent, here)
    OBVIOUS
<1> HIDE DEF sent, left, here
<1>8. sent[1] \in Exchange
    BY <1>3, <1>4
<1>9. FollowedBy(Append(container, sent[1]), left, here)
    BY <1>1, <1>3, <1>5, <1>6, <1>7, <1>8, FollowedSend
<1> QED BY <1>3, <1>4, <1>9 DEF left, here

\* A handler that selects nothing.
LEMMA HandledLoads ==
    ASSUME TypesHold, StoredOnce, LoadInTurn, NEW k \in DOMAIN calls, NEW further \in Seq(Call),
           Handled(k, further), disturbed' = {},
           \A n \in DOMAIN further : further[n].answer = "pending" /\ further[n].kind = "list",
           calls[k].answer = "ok", currentConvoId' = currentConvoId,
           currentConvoId = Nothing => conversations' = {},
           calls[k].kind = "messages" => container' = calls[k].reply,
           calls[k].kind = "send" => container' = Append(container, calls[k].reply),
           calls[k].kind \notin {"messages", "send"} => container' = container
    PROVE  LoadInTurn'
<1>1. /\ k = 1 /\ Len(calls) \in Nat \ {0} /\ DOMAIN calls = 1 .. Len(calls)
      /\ DOMAIN calls' = 1 .. Len(calls') /\ Len(calls') \in Nat
      /\ \A i \in DOMAIN calls' :
           \/ i < Len(calls) /\ i + 1 \in DOMAIN calls /\ calls'[i] = calls[i + 1]
           \/ Len(calls) <= i /\ calls'[i].kind = "list"
      /\ \A j \in DOMAIN calls \ {1} : j - 1 \in DOMAIN calls' /\ calls'[j - 1] = calls[j]
      /\ owner' = owner /\ store' = store
    <2>1. Len(calls') \in Nat
        BY HandledCalls, LenProperties DEF TypesHold
    <2> QED BY <2>1, HandledInTurn
<1>2. ASSUME currentConvoId = Nothing
      PROVE  /\ container' = << >> /\ conversations' = {}
             /\ \A i \in DOMAIN calls' : calls'[i].kind \notin {"messages", "send"}
    <2>1. container = << >> /\ \A i \in DOMAIN calls : calls[i].kind \notin {"messages", "send"}
        BY <1>2 DEF LoadInTurn
    <2>2. container' = << >>
        BY <2>1
    <2>3. \A i \in DOMAIN calls' : calls'[i].kind \notin {"messages", "send"}
        BY <1>1, <2>1
    <2> QED BY <1>2, <2>2, <2>3
<1>3. ASSUME currentConvoId # Nothing, NEW p \in 0 .. Len(calls'), LastLoad(p)'
      PROVE  /\ p # 0 => calls'[p].about = currentConvoId
             /\ \A j \in DOMAIN calls' :
                  j > p /\ calls'[j].kind = "send" => calls'[j].about.convo = currentConvoId
             /\ p = 0 \/ calls'[p].answer = "ok" =>
                  FollowedBy(Shown(p)', SentAfter(p)', store[currentConvoId])
    <2>1. /\ p # 0 => calls'[p].kind = "messages"
          /\ \A j \in DOMAIN calls' : j > p => calls'[j].kind # "messages"
        BY <1>3 DEF LastLoad
    <2>2. p # 0 => p + 1 \in DOMAIN calls /\ calls'[p] = calls[p + 1]
        <3>1. p # 0 => p \in DOMAIN calls'
            BY <1>1
        <3> QED BY <1>1, <2>1, <3>1
    <2>3. currentConvoId \in Conversation
        BY <1>3 DEF TypesHold
    <2>4. \A j \in DOMAIN calls : j > p + 1 => j \in DOMAIN calls \ {1} /\ j - 1 > p
        BY <1>1
    <2>5. CASE p # 0 \/ calls[1].kind = "messages"
        <3> DEFINE q == p + 1
        <3>1. q \in DOMAIN calls /\ calls[q].kind = "messages"
            BY <1>1, <2>1, <2>2, <2>5
        <3>2. \A j \in DOMAIN calls : j > q => calls[j].kind # "messages"
            BY <1>1, <2>1, <2>4
        <3>3. q \in 0 .. Len(calls) /\ q # 0 /\ p \in Nat /\ q \in Nat
            BY <1>1, <3>1
        <3> HIDE DEF q
        <3>4. LastLoad(q)
            BY <3>1, <3>2 DEF LastLoad
        <3>5. /\ calls[q].about = currentConvoId
              /\ \A j \in DOMAIN calls :
                   j > q /\ calls[j].kind = "send" => calls[j].about.convo = currentConvoId
              /\ calls[q].answer = "ok" =>
                   FollowedBy(Shown(q), SentAfter(q), store[currentConvoId])
            BY <1>3, <3>3, <3>4 DEF LoadInTurn
        <3>6. ASSUME NEW j \in DOMAIN calls', j > p, calls'[j].kind = "send"
              PROVE  calls'[j].about.convo = currentConvoId
            <4>1. j + 1 \in DOMAIN calls /\ calls'[j] = calls[j + 1] /\ j + 1 > q
                BY <1>1, <3>6 DEF q
            <4> QED BY <3>5, <3>6, <4>1
        <3>7. ASSUME p = 0 \/ calls'[p].answer = "ok"
              PROVE  FollowedBy(Shown(p)', SentAfter(p)', store[currentConvoId])
            <4>1. calls[q].answer = "ok" /\ Shown(p)' = Shown(q)
                <5>1. CASE p = 0
                    BY <1>1, <2>5, <5>1, <3>3 DEF Shown, q
                <5>2. CASE p # 0
                    BY <2>2, <3>3, <3>7, <5>2 DEF Shown, q
                <5> QED BY <5>1, <5>2
            <4> DEFINE base == Shown(q)
                       here == store[currentConvoId]
            <4>2. FollowedBy(base, SentAfter(q), here)
                BY <3>5, <4>1
            <4> HIDE DEF base, here
            <4>3. FollowedBy(base, SentAfter(p)', here)
                <5>1. q = p + 1
                    BY DEF q
                <5> QED BY <3>3, <4>2, <5>1, HandledBefore
            <4> QED BY <4>1, <4>3 DEF base, here
        <3>8. p # 0 => calls'[p].about = currentConvoId
            BY <2>2, <3>5 DEF q
        <3> QED BY <3>6, <3>7, <3>8
    <2>6. CASE p = 0 /\ calls[1].kind # "messages"
        <3>1. \A j \in DOMAIN calls : calls[j].kind # "messages"
            <4>1. \A j \in DOMAIN calls \ {1} : j - 1 > 0
                BY <1>1
            <4> QED BY <1>1, <2>1, <2>6, <4>1
        <3>2. LastLoad(0) /\ 0 \in 0 .. Len(calls)
            BY <1>1, <3>1 DEF LastLoad
        <3>3. /\ \A j \in DOMAIN calls :
                   j > 0 /\ calls[j].kind = "send" => calls[j].about.convo = currentConvoId
              /\ FollowedBy(Shown(0), SentAfter(0), store[currentConvoId])
            BY <1>3, <3>2 DEF LoadInTurn
        <3>4. ASSUME NEW j \in DOMAIN calls', calls'[j].kind = "send"
              PROVE  calls'[j].about.convo = currentConvoId
            <4>1. j + 1 \in DOMAIN calls /\ calls'[j] = calls[j + 1] /\ j + 1 > 0
                BY <1>1, <3>4
            <4> QED BY <3>3, <3>4, <4>1
        <3>5. Shown(0) = container /\ Shown(p)' = container'
            BY <2>6 DEF Shown
        <3>6. FollowedBy(container', SentAfter(p)', store[currentConvoId])
            <4>1. CASE calls[1].kind = "send"
                <5>1. Ok(k, "send")
                    BY <1>1, <4>1 DEF Ok
                <5>2. FollowedBy(container, SentAfter(0), store[currentConvoId])
                    BY <3>3, <3>5
                <5>3. FollowedBy(Append(container, calls[k].reply), SentAfter(0)',
                                 store[currentConvoId])
                    BY <2>3, <5>1, <5>2, HandledSend
                <5>4. SentAfter(p)' = SentAfter(0)'
                    BY <2>6 DEF SentAfter
                <5> QED BY <1>1, <4>1, <5>3, <5>4
            <4>2. CASE calls[1].kind # "send"
                <5>1. container' = container
                    BY <1>1, <2>6, <4>2
                <5> DEFINE here == store[currentConvoId]
                <5>2. FollowedBy(container, SentAfter(0), here)
                    BY <3>3, <3>5
                <5> HIDE DEF here
                <5>3. FollowedBy(container, SentAfter(p)', here)
                    <6>1. p \in Nat /\ 0 \in Nat
                        OBVIOUS
                    <6> QED BY <2>6, <4>2, <5>2, <6>1, HandledBefore
                <5> QED BY <5>1, <5>3 DEF here
            <4> QED BY <4>1, <4>2
        <3> QED BY <2>6, <3>4, <3>5, <3>6
    <2> QED BY <2>5, <2>6
<1> QED BY <1>1, <1>2, <1>3 DEF LoadInTurn

\* A click that selects nothing.
LEMMA ClickedLoads ==
    ASSUME TypesHold, LoadInTurn, NEW call, Clicked(call), currentConvoId' = currentConvoId,
           call.kind # "messages",
           call.kind = "send" => currentConvoId # Nothing /\ call.about.convo = currentConvoId
    PROVE  LoadInTurn'
<1>1. /\ DOMAIN calls = 1 .. Len(calls) /\ Len(calls) \in Nat
      /\ Len(calls') = Len(calls) + 1 /\ DOMAIN calls' = 1 .. Len(calls) + 1
      /\ \A i \in DOMAIN calls : i \in DOMAIN calls' /\ calls'[i] = calls[i]
      /\ calls'[Len(calls) + 1] = call /\ call.answer = "pending"
      /\ \A i \in DOMAIN calls' : i \in DOMAIN calls \/ i = Len(calls) + 1
      /\ store' = store /\ conversations' = conversations /\ container' = container
    BY ClickedInTurn
<1>2. ASSUME currentConvoId = Nothing
      PROVE  /\ container' = << >> /\ conversations' = {}
             /\ \A i \in DOMAIN calls' : calls'[i].kind \notin {"messages", "send"}
    BY <1>1, <1>2 DEF LoadInTurn
<1>3. ASSUME currentConvoId # Nothing, NEW p \in 0 .. Len(calls'), LastLoad(p)'
      PROVE  /\ p # 0 => calls'[p].about = currentConvoId
             /\ \A j \in DOMAIN calls' :
                  j > p /\ calls'[j].kind = "send" => calls'[j].about.convo = currentConvoId
             /\ p = 0 \/ calls'[p].answer = "ok" =>
                  FollowedBy(Shown(p)', SentAfter(p)', store[currentConvoId])
    <2>1. /\ p # 0 => calls'[p].kind = "messages"
          /\ \A j \in DOMAIN calls' : j > p => calls'[j].kind # "messages"
        BY <1>3 DEF LastLoad
    <2>2. p \in 0 .. Len(calls) /\ (p # 0 => p \in DOMAIN calls)
        BY <1>1, <2>1
    <2>3. LastLoad(p)
        BY <1>1, <2>1, <2>2 DEF LastLoad
    <2>4. /\ p # 0 => calls[p].about = currentConvoId
          /\ \A j \in DOMAIN calls :
               j > p /\ calls[j].kind = "send" => calls[j].about.convo = currentConvoId
          /\ p = 0 \/ calls[p].answer = "ok" =>
               FollowedBy(Shown(p), SentAfter(p), store[currentConvoId])
        BY <1>3, <2>2, <2>3 DEF LoadInTurn
    <2>5. Shown(p)' = Shown(p)
        BY <1>1, <2>2 DEF Shown
    <2>6. SentAfter(p)' = SentAfter(p)
        <3> DEFINE D == {i \in DOMAIN calls :
                           i > p /\ calls[i].kind = "send" /\ calls[i].answer = "ok"}
        <3>1. {i \in DOMAIN calls' :
                 i > p /\ calls'[i].kind = "send" /\ calls'[i].answer = "ok"} = D
            BY <1>1
        <3>2. \A j \in D : calls'[j].about.key = calls[j].about.key
            BY <1>1
        <3>3. SentAfter(p) = [j \in D |-> calls[j].about.key]
            BY DEF SentAfter
        <3> HIDE DEF D
        <3>4. SentAfter(p)' = [j \in D |-> calls'[j].about.key]
            BY <3>1 DEF SentAfter
        <3> QED BY <3>2, <3>3, <3>4
    <2>7. \A j \in DOMAIN calls' :
            j > p /\ calls'[j].kind = "send" => calls'[j].about.convo = currentConvoId
        BY <1>1, <2>4
    <2> QED BY <1>1, <2>2, <2>4, <2>5, <2>6, <2>7
<1> QED BY <1>1, <1>2, <1>3 DEF LoadInTurn

-----------------------------------------------------------------------------
(* At rest the page is exact                                               *)

\* A handler that goes on by asking for the list.
LEMMA AskedAgain ==
    ASSUME Known, InTurn, LoadInTurn, NEW k \in DOMAIN calls, NEW token \in User \cup {Nothing},
           NEW then \in Conversation \cup {Nothing},
           Handled(k, << LoadConversations(token, then) >>), disturbed' = {},
           token = currentUser',
           calls[k].answer = "ok", currentConvoId' = currentConvoId,
           conversations' = conversations,
           calls[k].kind # "messages",
           calls[k].kind = "send" => container' = Append(container, calls[k].reply),
           calls[k].kind # "send" => container' = container
    PROVE  InTurn' /\ ListInTurn' /\ LoadInTurn'
<1> DEFINE call == LoadConversations(token, then)
           further == << call >>
<1>1. call \in Call
    BY RequestIsCall
<1>2. call.kind = "list" /\ call.answer = "pending" /\ call.token = token
    BY DEF LoadConversations, Request
<1>3. Handled(k, << call >>) /\ Handled(k, further)
    OBVIOUS
<1> HIDE DEF call
<1>4. further \in Seq(Call) /\ DOMAIN further = {1} /\ further[1] = call
    BY <1>1, OneCall
<1>5. TypesHold /\ StoredOnce
    BY DEF Known
<1>6. ListInTurn'
    BY <1>1, <1>2, <1>3, <1>5, AskedLast
<1> HIDE DEF further
<1>7. \A n \in DOMAIN further : further[n].answer = "pending" /\ further[n].kind = "list"
    BY <1>2, <1>4
<1>8. InTurn'
    BY <1>3, <1>4, <1>5, <1>7, HandledTurns
<1>9. currentConvoId = Nothing => conversations' = {}
    BY DEF LoadInTurn
<1>10. LoadInTurn'
    BY <1>3, <1>4, <1>5, <1>7, <1>9, HandledLoads
<1> QED BY <1>6, <1>8, <1>10

LEMMA AnswerUndisturbed ==
    ASSUME Known, Reliable, InTurn, ListInTurn, LoadInTurn,
           NEW k \in DOMAIN calls, Answer(k), disturbed' = {}
    PROVE  InTurn' /\ ListInTurn' /\ LoadInTurn'
<1>1. /\ TypesHold /\ StoredOnce /\ CallKnown(calls[k])
      /\ signedIn # {} => currentUser \in signedIn
    BY DEF Known, CallsKnown, Session
<1>2. ~MeFails(k) /\ ~ListFails(k) /\ ~OtherFails(k)
    BY DEF MeFails, ListFails, OtherFails, NotOk, InTurn
<1>3. authToken \in User \cup {Nothing} /\ signedIn \subseteq User /\ Nothing \notin User
    BY <1>1, NullAssumption DEF TypesHold
<1>4. CASE Me(k)
    <2>1. Handled(k, << LoadConversations(authToken, Nothing) >>)
        BY <1>4 DEF Me
    <2>2. "unreliable" \notin disturbed
        BY <2>1 DEF Handled
    <2>3. currentUser' = calls[k].reply /\ calls[k].kind = "me" /\ calls[k].answer = "ok"
        BY <1>4 DEF Me, Ok
    <2>4. authToken = currentUser'
        <3>1. calls[k].reply = calls[k].token
            BY <1>1, <1>4, OkReply DEF Me
        <3>2. authToken = calls[k].token
            BY <2>2, <2>3 DEF Reliable, ReliableCall
        <3> QED BY <2>3, <3>1, <3>2
    <2>5. currentConvoId' = currentConvoId /\ conversations' = conversations /\ container' = container
        BY <1>4 DEF Me, page
    <2> QED BY <1>3, <2>1, <2>3, <2>4, <2>5, AskedAgain
<1>5. CASE Login(k)
    <2>1. Handled(k, << LoadConversations(calls[k].reply, Nothing) >>)
        BY <1>5 DEF Login
    <2>2. currentUser' = calls[k].reply /\ calls[k].kind = "login" /\ calls[k].answer = "ok"
        BY <1>5 DEF Login, Ok
    <2>3. calls[k].reply \in User
        BY <1>1, <1>5, OkReply DEF Login
    <2>4. currentConvoId' = currentConvoId /\ conversations' = conversations /\ container' = container
        BY <1>5 DEF Login, page
    <2> DEFINE token == calls[k].reply
    <2>5. token \in User \cup {Nothing} /\ token = currentUser'
          /\ Handled(k, << LoadConversations(token, Nothing) >>)
        BY <2>1, <2>2, <2>3
    <2> HIDE DEF token
    <2> QED BY <2>2, <2>4, <2>5, AskedAgain
<1>6. CASE Create(k) \/ Send(k)
    <2> DEFINE then == IF Create(k) THEN calls[k].reply ELSE Nothing
    <2>1. Handled(k, << LoadConversations(authToken, then) >>)
        <3>1. CASE Create(k)
            BY <3>1 DEF Create
        <3>2. CASE ~Create(k)
            BY <1>6, <3>2 DEF Send
        <3> QED BY <3>1, <3>2
    <2>2. then \in Conversation \cup {Nothing}
        BY <1>1, OkReply DEF Create
    <2> HIDE DEF then
    <2>3. calls[k].kind \in {"create", "send"} /\ calls[k].answer = "ok"
        BY <1>6 DEF Create, Send, Ok
    <2>4. "unreliable" \notin disturbed
        BY <2>1 DEF Handled
    <2>5. authToken = currentUser /\ currentUser' = currentUser
        <3>1. currentUser # Nothing
            BY <1>1, <1>3, <2>3 DEF CallKnown
        <3> QED BY <1>6, <2>4, <3>1 DEF Reliable, Create, Send, session
    <2>6. currentConvoId' = currentConvoId /\ conversations' = conversations
        BY <1>6 DEF Create, Send, page
    <2>7. /\ calls[k].kind = "send" => container' = Append(container, calls[k].reply)
          /\ calls[k].kind # "send" => container' = container
        BY <1>6 DEF Create, Send, Ok, page
    <2> QED BY <1>3, <2>1, <2>2, <2>3, <2>5, <2>6, <2>7, AskedAgain
<1>7. CASE List(k)
    <2>1. PICK cs \in Seq(Conversation) :
            /\ Handled(k, Loads(cs)) /\ Selects(cs)
            /\ cs = << >> => currentConvoId # Nothing \/ ListFails(k) \/ calls[k].reply = {}
        BY <1>1, <1>7, ListSelects
    <2> DEFINE further == Loads(cs)
    <2>2. further \in Seq(Call) /\ Len(further) = Len(cs) /\ DOMAIN further = DOMAIN cs
        BY <1>1, LoadsCalls
    <2>3. \A n \in DOMAIN further :
            /\ further[n].answer = "pending" /\ further[n].kind = "messages"
            /\ further[n].about = cs[n]
        <3>1. \A n \in DOMAIN cs : further[n] = LoadMessages(authToken, cs[n])
            BY <1>1, LoadsCalls
        <3>2. \A c : /\ LoadMessages(authToken, c).answer = "pending"
                     /\ LoadMessages(authToken, c).kind = "messages"
                     /\ LoadMessages(authToken, c).about = c
            BY DEF LoadMessages, Request
        <3> QED BY <2>2, <3>1, <3>2
    <2>4. Handled(k, further)
        BY <2>1
    <2> HIDE DEF further
    <2>5. calls[k].kind = "list" /\ calls[k].answer = "ok" /\ conversations' = calls[k].reply
        BY <1>7 DEF List, Ok
    <2>6. currentUser' = currentUser /\ container' = container
        BY <2>1 DEF Selects, session
    <2>7. InTurn'
        <3>1. \A n \in DOMAIN further : further[n].answer = "pending" /\ further[n].kind # "send"
            BY <2>3
        <3> QED BY <1>1, <2>2, <2>4, <3>1, HandledTurns
    <2>8. ListInTurn'
        <3>1. \A n \in DOMAIN further : further[n].kind = "messages"
            BY <2>3
        <3> QED BY <1>1, <2>2, <2>4, <2>5, <2>6, <3>1, HandledLists
    <2>9. CASE cs = << >>
        <3>1. currentConvoId' = currentConvoId
            BY <2>1, <2>9 DEF Selects
        <3>2. currentConvoId = Nothing => conversations' = {}
            BY <1>2, <2>1, <2>5, <2>9
        <3>3. \A n \in DOMAIN further : further[n].answer = "pending" /\ further[n].kind = "list"
            <4>1. DOMAIN further = {}
                BY <2>2, <2>9
            <4> QED BY <4>1
        <3>4. LoadInTurn'
            BY <1>1, <2>2, <2>4, <2>5, <2>6, <3>1, <3>2, <3>3, HandledLoads
        <3> QED BY <2>7, <2>8, <3>4
    <2>10. CASE cs # << >>
        <3>1. /\ Len(cs) \in DOMAIN cs /\ currentConvoId' = cs[Len(cs)]
              /\ cs[Len(cs)] \in Conversation
            BY <2>1, <2>10, LastSelected DEF Selects
        <3>2. Len(cs) \in Nat \ {0}
            BY <2>10, EmptySeq, LenProperties
        <3> DEFINE n == Len(calls')
        <3>3. /\ Len(calls) \in Nat \ {0} /\ n = Len(calls) - 1 + Len(further)
              /\ DOMAIN calls' = 1 .. n
              /\ \A i \in DOMAIN calls' :
                   \/ i < Len(calls)
                   \/ /\ i - (Len(calls) - 1) \in DOMAIN further
                      /\ calls'[i] = further[i - (Len(calls) - 1)]
            BY <1>1, <2>2, <2>4, HandledInTurn
        <3>4. n \in Nat \ {0} /\ n \in 1 .. n /\ ~(n < Len(calls)) /\ n - (Len(calls) - 1) = Len(cs)
            BY <2>2, <3>2, <3>3
        <3>5. calls'[n] = further[Len(cs)] /\ Len(cs) \in DOMAIN further
            BY <2>2, <3>1, <3>3, <3>4
        <3> HIDE DEF n
        <3>6. /\ calls'[n].kind = "messages" /\ calls'[n].answer = "pending"
              /\ calls'[n].about = currentConvoId' /\ currentConvoId' # Nothing
            BY <2>3, <3>1, <3>5, NullAssumption
        <3>7. LoadInTurn'
            BY <3>3, <3>4, <3>6, SelectedLast DEF n
        <3> QED BY <2>7, <2>8, <3>7
    <2> QED BY <2>9, <2>10
<1>8. CASE Messages(k)
    <2>1. Handled(k, << >>) /\ calls[k].kind = "messages" /\ calls[k].answer = "ok"
        BY <1>8 DEF Messages, Ok
    <2>2. /\ container' = calls[k].reply /\ currentConvoId' = currentConvoId
          /\ conversations' = conversations /\ currentUser' = currentUser
        BY <1>8 DEF Messages, session
    <2>3. << >> \in Seq(Call) /\ DOMAIN << >> = {}
        OBVIOUS
    <2>4. currentConvoId = Nothing => conversations' = {}
        BY <2>2 DEF LoadInTurn
    <2>5. InTurn'
        BY <1>1, <2>1, <2>3, HandledTurns
    <2>6. ListInTurn'
        BY <1>1, <2>1, <2>2, <2>3, HandledLists
    <2>7. LoadInTurn'
        BY <1>1, <2>1, <2>2, <2>3, <2>4, HandledLoads
    <2> QED BY <2>5, <2>6, <2>7
<1> QED BY <1>2, <1>4, <1>5, <1>6, <1>7, <1>8 DEF Answer

LEMMA ClicksUndisturbed ==
    ASSUME TypesHold, InTurn, ListInTurn, LoadInTurn, disturbed' = {}
    PROVE  /\ \A u \in User : ClickLogin(u) => InTurn' /\ ListInTurn' /\ LoadInTurn'
           /\ \A c \in Conversation : ClickConversation(c) => InTurn' /\ ListInTurn' /\ LoadInTurn'
           /\ \A c \in Conversation : ClickNew(c) => InTurn' /\ ListInTurn' /\ LoadInTurn'
           /\ \A key \in Key : Submit(key) => InTurn' /\ ListInTurn' /\ LoadInTurn'
           /\ ~SubmitReplay
<1>1. ASSUME NEW u \in User, ClickLogin(u) PROVE InTurn' /\ ListInTurn' /\ LoadInTurn'
    <2>1. Clicked(LogIn(u)) /\ currentConvoId' = currentConvoId
        BY <1>1, ClicksAre
    <2>2. LogIn(u).kind = "login"
        BY DEF LogIn, Request
    <2> QED BY <2>1, <2>2, ClickedTurns, ClickedLists, ClickedLoads
<1>2. ASSUME NEW c \in Conversation, ClickConversation(c)
      PROVE  InTurn' /\ ListInTurn' /\ LoadInTurn'
    <2> DEFINE call == LoadMessages(authToken, c)
    <2>1. Clicked(call) /\ currentConvoId' = c
        BY <1>2, ClicksAre
    <2>2. call.kind = "messages" /\ call.answer = "pending" /\ call.about = c
        BY DEF LoadMessages, Request
    <2> HIDE DEF call
    <2>3. /\ Len(calls) \in Nat /\ Len(calls') = Len(calls) + 1
          /\ DOMAIN calls' = 1 .. Len(calls) + 1 /\ calls'[Len(calls) + 1] = call
        BY <2>1, ClickedInTurn
    <2> DEFINE n == Len(calls) + 1
    <2>4. n \in Nat \ {0} /\ DOMAIN calls' = 1 .. n /\ Len(calls') = n /\ calls'[n] = call
        BY <2>3
    <2> HIDE DEF n
    <2>5. LoadInTurn'
        BY <2>1, <2>2, <2>4, SelectedLast, NullAssumption
    <2> QED BY <2>1, <2>2, <2>5, ClickedTurns, ClickedLists
<1>3. ASSUME NEW c \in Conversation, ClickNew(c) PROVE InTurn' /\ ListInTurn' /\ LoadInTurn'
    <2> DEFINE call == Request("create", authToken, c, Nothing)
    <2>1. Clicked(call) /\ currentConvoId' = currentConvoId
        BY <1>3, ClicksAre
    <2>2. call.kind = "create"
        BY DEF Request
    <2> HIDE DEF call
    <2> QED BY <2>1, <2>2, ClickedTurns, ClickedLists, ClickedLoads
<1>4. ASSUME NEW key \in Key, Submit(key) PROVE InTurn' /\ ListInTurn' /\ LoadInTurn'
    <2> DEFINE call == SendOf(key)
    <2>1. Clicked(call) /\ currentConvoId' = currentConvoId
        BY <1>4, ClicksAre
    <2>2. call.kind = "send" /\ call.about.convo = currentConvoId /\ call.about.key = key
        BY DEF SendOf, Request
    <2> HIDE DEF call
    <2>3. currentConvoId # Nothing /\ ~Drawn(key)
        BY <1>4 DEF Submit
    <2>4. /\ StoredIn(call.about.key) = {}
          /\ \A j \in DOMAIN calls : calls[j].kind = "send" => calls[j].about.key # call.about.key
        BY <2>2, <2>3 DEF Drawn
    <2>5. InTurn'
        BY <2>1, <2>4, ClickedTurns
    <2> QED BY <2>1, <2>2, <2>3, <2>5, ClickedLists, ClickedLoads
<1>5. ~SubmitReplay
    BY DEF SubmitReplay
<1> QED BY <1>1, <1>2, <1>3, <1>4, <1>5

LEMMA UndisturbedNext ==
    Known /\ Reliable /\ Undisturbed /\ [Next]_vars => Undisturbed'
<1> SUFFICES ASSUME Known, Reliable, Undisturbed, [Next]_vars, disturbed' = {}
             PROVE  InTurn' /\ ListInTurn' /\ LoadInTurn'
    BY DEF Undisturbed
<1>1. TypesHold
    BY DEF Known
<1>2. disturbed = {}
    BY DEF Next, Serve, Fail, Answer, Me, MeFails, Login, List, ListFails, Create, Messages,
           Send, OtherFails, Handled, ClickLogin, ClickConversation, ClickNew, Submit,
           SubmitReplay, vars
<1>3. InTurn /\ ListInTurn /\ LoadInTurn
    BY <1>2 DEF Undisturbed
<1>4. ASSUME NEW k \in DOMAIN calls, Serve(k) PROVE InTurn' /\ ListInTurn' /\ LoadInTurn'
    BY <1>1, <1>3, <1>4, ServeTurns, ServeLists, ServeLoads
<1>5. ASSUME NEW k \in DOMAIN calls, Fail(k) PROVE FALSE
    BY <1>5 DEF Fail
<1>6. ASSUME NEW k \in DOMAIN calls, Answer(k) PROVE InTurn' /\ ListInTurn' /\ LoadInTurn'
    BY <1>3, <1>6, AnswerUndisturbed
<1>7. CASE UNCHANGED vars
    <2> USE <1>7 DEF vars, session, page, server
    <2>1. InTurn'
        BY <1>3 DEF InTurn, StoredIn
    <2>2. ListInTurn'
        BY <1>3 DEF ListInTurn, LastList, Listing
    <2>3. \A p \in 0 .. Len(calls) :
            /\ LastLoad(p)' <=> LastLoad(p)
            /\ Shown(p)' = Shown(p) /\ SentAfter(p)' = SentAfter(p)
        BY DEF LastLoad, Shown, SentAfter
    <2>4. LoadInTurn'
        BY <1>3, <2>3 DEF LoadInTurn
    <2> QED BY <2>1, <2>2, <2>4
<1> QED BY <1>1, <1>3, <1>4, <1>5, <1>6, <1>7, ClicksUndisturbed DEF Next

LEMMA InitUndisturbed == Init => Undisturbed
<1> SUFFICES ASSUME Init PROVE InTurn /\ ListInTurn /\ LoadInTurn
    BY DEF Undisturbed
<1>1. DOMAIN calls = {1} /\ calls[1].kind \in {"me", "login"} /\ calls[1].answer = "pending"
    BY DEF Init, LogIn, Request
<1>2. InTurn
    BY <1>1 DEF InTurn
<1>3. ListInTurn
    BY <1>1 DEF ListInTurn, LastList
<1>4. LoadInTurn
    BY <1>1 DEF Init, LoadInTurn
<1> QED BY <1>2, <1>3, <1>4

\* No call under way, nothing is left to come.
LEMMA UndisturbedEnds == Known /\ Undisturbed => UndisturbedIsExact
<1> SUFFICES ASSUME Known, Undisturbed, calls = << >>, disturbed = {}
             PROVE  /\ conversations = Listing(currentUser)
                    /\ IF currentConvoId = Nothing
                       THEN container = << >> /\ conversations = {}
                       ELSE container = store[currentConvoId]
    BY DEF UndisturbedIsExact
<1>1. DOMAIN calls = {} /\ Len(calls) = 0
    OBVIOUS
<1>2. ListInTurn /\ LoadInTurn /\ TypesHold
    BY DEF Undisturbed, Known
<1>3. conversations = Listing(currentUser)
    BY <1>1, <1>2 DEF ListInTurn
<1>4. ASSUME currentConvoId = Nothing PROVE container = << >> /\ conversations = {}
    BY <1>2, <1>4 DEF LoadInTurn
<1>5. ASSUME currentConvoId # Nothing PROVE container = store[currentConvoId]
    <2>1. LastLoad(0) /\ 0 \in 0 .. Len(calls)
        BY <1>1 DEF LastLoad
    <2>2. FollowedBy(Shown(0), SentAfter(0), store[currentConvoId])
        BY <1>2, <1>5, <2>1 DEF LoadInTurn
    <2>3. Shown(0) = container /\ DOMAIN SentAfter(0) = {}
        BY <1>1 DEF Shown, SentAfter
    <2>4. container \in Seq(Exchange) /\ store[currentConvoId] \in Seq(Exchange)
        BY <1>2, <1>5 DEF TypesHold
    <2> DEFINE sent == SentAfter(0)
               here == store[currentConvoId]
    <2>5. DOMAIN sent = {} /\ here \in Seq(Exchange) /\ FollowedBy(container, sent, here)
        BY <2>2, <2>3, <2>4
    <2> HIDE DEF sent, here
    <2>6. container = here
        BY <2>4, <2>5, FollowedEnd
    <2> QED BY <2>6 DEF here
<1> QED BY <1>3, <1>4, <1>5

\* At rest the page is exact: when calls are answered in the order they were
\* made, none fails or is refused and no key is sent twice, it ends with what
\* the server has.
THEOREM PageEndsExact == Spec => []UndisturbedIsExact
<1>1. Init => Known /\ Reliable /\ Undisturbed
    BY InitKnown, InitReliable, InitUndisturbed
<1>2. Known /\ Reliable /\ Undisturbed /\ [Next]_vars => (Known /\ Reliable /\ Undisturbed)'
    BY KnownNext, ReliableNext, UndisturbedNext
<1>3. Known /\ Undisturbed => UndisturbedIsExact
    BY UndisturbedEnds
<1> QED BY <1>1, <1>2, <1>3, PTL DEF Spec
================================================================================

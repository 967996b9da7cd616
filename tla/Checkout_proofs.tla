--------------------------- MODULE Checkout_proofs ---------------------------
(***************************************************************************)
(* Theorems about taking a payment online, for any number of attempts,     *)
(* customers, settles and runs of the record job, any tries and amounts,   *)
(* and every fault, however often it comes.                                *)
(***************************************************************************)
EXTENDS Checkout, SumTheorems

-----------------------------------------------------------------------------
(* The inductive invariant *)

\* What the run of the record job may find its attempt in.
Recording == { "recording", "recorded", "record_refused" }

\* An attempt and its page.  Only a page that was shown takes money; an attempt
\* that let go of the payable without its money had its page ended, or still
\* knows where the page is.
PageFits(a) ==
  /\ page[a].state \in {"approved", "declined", "processing", "paid"} => page[a].shown
  /\ page[a].shown => attempt[a].ref
  /\ attempt[a].ref => page[a].state # "none"
  /\ attempt[a].ref => attempt[a].state \notin {"none", "creating", "abandoned"}
  /\ attempt[a].state \in {"open", "processing"} => attempt[a].ref /\ attempt[a].url
  /\ attempt[a].state = "expired" => page[a].state = "ended"
  /\ attempt[a].state = "failed" /\ page[a].shown /\ ~attempt[a].url => page[a].state = "ended"
  /\ attempt[a].state \in TakenStates => page[a].state = "paid"
  /\ a \in rows => attempt[a].state \in Recording
  /\ attempt[a].state = "recorded" => a \in rows

\* A request makes its own attempt, and lets go only of a page that ended.
RequestFits(c) ==
  /\ req[c].step \in {"call", "opened", "failing", "refusing"} =>
       /\ req[c].held \in Attempts /\ attempt[req[c].held].state = "creating"
       /\ \A d \in Customers : req[d].step \in {"call", "opened", "failing", "refusing"} /\ req[d].held = req[c].held => d = c
  /\ req[c].step \in {"opened", "refusing"} => page[req[c].held].state # "none"
  /\ req[c].step \in {"ending", "expire"} => req[c].held \in Attempts /\ attempt[req[c].held].ref
  /\ req[c].step = "expire" => page[req[c].held].state = "ended"

\* A settle says of a page what stays true of it.
AskFits(s) ==
  /\ ask[s].step # "idle" => ask[s].a \in Attempts /\ attempt[ask[s].a].ref
  /\ ask[s].step \in {"take", "takeback", "flag", "queue"} => ask[s].answer = "succeeded"
  /\ ask[s].step # "idle" /\ ask[s].answer = "succeeded" => page[ask[s].a].state = "paid"
  /\ ask[s].step # "idle" /\ ask[s].answer = "expired" => page[ask[s].a].state = "ended"

\* A run records money that was taken, and finishes with its row.
RunFits(r) ==
  /\ rec[r].step # "idle" => rec[r].a \in Attempts /\ attempt[rec[r].a].state \in Recording
  /\ rec[r].step = "finish" => rec[r].a \in rows

IInv ==
  /\ TypeOK
  /\ \A a \in Attempts : PageFits(a)
  /\ \A c \in Customers : RequestFits(c)
  /\ \A s \in Settlers : AskFits(s)
  /\ \A r \in Recorders : RunFits(r)

\* As long as no job is reclaimed while its run goes on, an attempt has one run,
\* which refuses only what is not written.
OneRun ==
  /\ \A r \in Recorders :
       /\ rec[r].step # "idle" => attempt[rec[r].a].state = "recording"
       /\ rec[r].step = "refuse" => rec[r].a \notin rows
       /\ \A q \in Recorders : rec[r].step # "idle" /\ rec[q].step # "idle" /\ rec[q].a = rec[r].a => q = r
  /\ \A a \in Attempts : attempt[a].state = "record_refused" => a \notin rows

-----------------------------------------------------------------------------
(* Types *)

\* What is due is never below nothing, nor above what was owed.
LEMMA DueTyped == Due \in 0 .. Owed
BY CheckoutAssumption DEF Due

\* The one statement of a move leaves the table typed.
LEMMA MovedTyped ==
  ASSUME TypeOK, NEW a \in Attempts, NEW to \in States
  PROVE  Moved(a, to) \in [Attempts -> Row]
<1> DEFINE slot == attempt[a].slot /\ to \in OpenStates
<1>1. slot \in BOOLEAN
  OBVIOUS
<1>2. attempt[a] \in Row
  BY DEF TypeOK
<1>3. [attempt[a] EXCEPT !.state = to, !.slot = slot] \in Row
  <2> HIDE DEF slot
  <2> QED BY <1>1, <1>2 DEF Row
<1>4. Moved(a, to) = attempt \/ Moved(a, to) = [attempt EXCEPT ![a] = [attempt[a] EXCEPT !.state = to, !.slot = slot]]
  BY <1>2 DEF Moved, Row
<1> HIDE DEF slot
<1> QED BY <1>3, <1>4 DEF TypeOK

\* A fault is counted, and stays within the bound.
LEMMA FaultTyped ==
  ASSUME TypeOK, NEW kind, Fault(kind)
  PROVE  faults' \in 0 .. MaxFaults
BY CheckoutAssumption DEF TypeOK, Fault

LEMMA ExpireTyped ==
  ASSUME TypeOK, NEW a \in Attempts, NEW answer, Expire(a, answer)
  PROVE  page' \in [Attempts -> Page] /\ faults' \in 0 .. MaxFaults
BY FaultTyped DEF TypeOK, Expire, Page, PageStates

LEMMA ProviderTyped ==
  ASSUME TypeOK, NEW a \in Attempts, Pay(a) \/ BankSays(a) \/ Lapse(a)
  PROVE  TypeOK'
BY DEF TypeOK, Pay, BankSays, Lapse, Page, PageStates

\* What a process is before it begins and once it is over.
LEMMA RestTyped == NoRow \in Row /\ NoPage \in Page /\ NoRequest \in Pressed /\ NoAsk \in Asked /\ NoRun \in Run
BY CheckoutAssumption
   DEF NoRow, Row, NoPage, Page, NoRequest, Pressed, NoAsk, Asked, NoRun, Run, States, PageStates

\* What a process becomes as it goes on or ends.
LEMMA RequestGoesTyped ==
  ASSUME TypeOK, NEW c \in Customers,
         Answered(c) \/ \E step \in {"expire", "recent", "opened", "failing", "refusing"} : Goes(c, step)
  PROVE  req' \in [Customers -> Pressed]
<1>1. CASE Answered(c)
  BY <1>1, RestTyped DEF TypeOK, Answered
<1>2. CASE \E step \in {"expire", "recent", "opened", "failing", "refusing"} : Goes(c, step)
  <2>1. PICK step \in {"expire", "recent", "opened", "failing", "refusing"} : Goes(c, step)
    BY <1>2
  <2>2. [req[c] EXCEPT !.step = step] \in Pressed
    BY DEF TypeOK, Pressed
  <2>3. req' = [req EXCEPT ![c] = [req[c] EXCEPT !.step = step]]
    BY <2>1 DEF Goes
  <2> QED BY <2>2, <2>3 DEF TypeOK
<1> QED BY <1>1, <1>2

LEMMA AskGoesTyped ==
  ASSUME TypeOK, NEW s \in Settlers,
         AskEnds(s) \/ \E step \in {"apply", "take", "takeback", "flag", "queue"} : AskGoes(s, step)
  PROVE  ask' \in [Settlers -> Asked]
<1>1. CASE AskEnds(s)
  BY <1>1, RestTyped DEF TypeOK, AskEnds
<1>2. CASE \E step \in {"apply", "take", "takeback", "flag", "queue"} : AskGoes(s, step)
  <2>1. PICK step \in {"apply", "take", "takeback", "flag", "queue"} : AskGoes(s, step)
    BY <1>2
  <2>2. [ask[s] EXCEPT !.step = step] \in Asked
    BY DEF TypeOK, Asked
  <2>3. ask' = [ask EXCEPT ![s] = [ask[s] EXCEPT !.step = step]]
    BY <2>1 DEF AskGoes
  <2> QED BY <2>2, <2>3 DEF TypeOK
<1> QED BY <1>1, <1>2

LEMMA RunGoesTyped ==
  ASSUME TypeOK, NEW r \in Recorders,
         \/ rec' = [rec EXCEPT ![r] = NoRun]
         \/ \E step \in {"write", "refuse", "finish"} : RunGoes(r, step)
  PROVE  rec' \in [Recorders -> Run]
<1>1. CASE rec' = [rec EXCEPT ![r] = NoRun]
  BY <1>1, RestTyped DEF TypeOK
<1>2. CASE \E step \in {"write", "refuse", "finish"} : RunGoes(r, step)
  <2>1. PICK step \in {"write", "refuse", "finish"} : RunGoes(r, step)
    BY <1>2
  <2>2. [rec[r] EXCEPT !.step = step] \in Run
    BY DEF TypeOK, Run
  <2>3. rec' = [rec EXCEPT ![r] = [rec[r] EXCEPT !.step = step]]
    BY <2>1 DEF RunGoes
  <2> QED BY <2>2, <2>3 DEF TypeOK
<1> QED BY <1>1, <1>2

\* The URL of a page that ended is cleared.
LEMMA ClearedTyped ==
  ASSUME TypeOK, NEW a \in Attempts
  PROVE  [attempt EXCEPT ![a].url = FALSE] \in [Attempts -> Row]
<1>1. [attempt[a] EXCEPT !.url = FALSE] \in Row
  BY DEF TypeOK, Row
<1> QED BY <1>1 DEF TypeOK

LEMMA RequestTyped ==
  ASSUME TypeOK, NEW c \in Customers, RequestFits(c), Press(c) \/ Request(c) \/ RequestDies(c)
  PROVE  TypeOK'
<1>0. req[c] \in Pressed
  BY DEF TypeOK
<1>1. CASE Press(c)
  <2>1. [NoRequest EXCEPT !.step = "held", !.due = Due] \in Pressed
    BY DueTyped, RestTyped DEF Pressed
  <2> QED BY <1>1, <2>1 DEF TypeOK, Press
<1>2. CASE LookHeld(c)
  <2>1. req' \in [Customers -> Pressed]
    <3>1. CASE Goes(c, "recent") \/ Answered(c)
      BY <3>1, RequestGoesTyped
    <3>2. CASE \E a \in Holders : req' = [req EXCEPT ![c] = [@ EXCEPT !.step = "ending", !.held = a]]
      <4>1. PICK a \in Attempts : req' = [req EXCEPT ![c] = [@ EXCEPT !.step = "ending", !.held = a]]
        BY <3>2 DEF Holders
      <4>2. [req[c] EXCEPT !.step = "ending", !.held = a] \in Pressed
        BY <1>0 DEF Pressed
      <4> QED BY <4>1, <4>2 DEF TypeOK
    <3> QED BY <1>2, <3>1, <3>2 DEF LookHeld
  <2>2. faults' \in 0 .. MaxFaults
    BY <1>2, FaultTyped DEF TypeOK, LookHeld
  <2> QED BY <1>2, <2>1, <2>2 DEF TypeOK, LookHeld
<1>3. CASE EndHeld(c)
  <2>1. req[c].held \in Attempts
    BY <1>3 DEF EndHeld, RequestFits
  <2>2. PICK answer : Expire(req[c].held, answer) /\ (Goes(c, "expire") \/ Answered(c))
    BY <1>3 DEF EndHeld
  <2>3. req' \in [Customers -> Pressed]
    BY <2>2, RequestGoesTyped
  <2>4. page' \in [Attempts -> Page] /\ faults' \in 0 .. MaxFaults
    BY <2>1, <2>2, ExpireTyped
  <2> QED BY <1>3, <2>3, <2>4 DEF TypeOK, EndHeld
<1>4. CASE ExpireHeld(c)
  <2>1. req[c].held \in Attempts
    BY <1>4 DEF ExpireHeld, RequestFits
  <2>2. Moved(req[c].held, "expired") \in [Attempts -> Row]
    BY <2>1, MovedTyped DEF States
  <2>3. req' \in [Customers -> Pressed]
    BY <1>4, RequestGoesTyped DEF ExpireHeld
  <2> QED BY <1>4, <2>2, <2>3 DEF TypeOK, ExpireHeld
<1>5. CASE LookRecent(c)
  <2>1. CASE Answered(c)
    BY <1>5, <2>1, RequestGoesTyped DEF TypeOK, LookRecent
  <2>2. CASE ~Answered(c)
    <3> DEFINE left == { a \in Attempts : attempt[a].state = "failed" /\ attempt[a].url }
    <3>1. [req[c] EXCEPT !.step = IF left = {} THEN "create" ELSE "declined", !.left = left] \in Pressed
      <4>1. left \in SUBSET Attempts
        OBVIOUS
      <4> HIDE DEF left
      <4> QED BY <1>0, <4>1 DEF Pressed
    <3>2. req' = [req EXCEPT ![c] = [req[c] EXCEPT !.step = IF left = {} THEN "create" ELSE "declined", !.left = left]]
      BY <1>5, <2>2 DEF LookRecent
    <3> HIDE DEF left
    <3> QED BY <1>5, <3>1, <3>2 DEF TypeOK, LookRecent
  <2> QED BY <2>1, <2>2
<1>6. CASE EndDeclined(c)
  <2>1. PICK a \in req[c].left, answer \in {"ended", "completed", "unknown"} :
          /\ Expire(a, answer)
          /\ attempt' = [attempt EXCEPT ![a].url = FALSE] \/ attempt' = attempt
          /\ \/ Answered(c)
             \/ req' = [req EXCEPT ![c] = [@ EXCEPT !.left = req[c].left \ {a},
                                                    !.step = IF req[c].left = {a} THEN "create" ELSE "declined"]]
    BY <1>6 DEF EndDeclined
  <2>2. a \in Attempts
    BY <1>0 DEF Pressed
  <2>3. req' \in [Customers -> Pressed]
    <3>1. [req[c] EXCEPT !.left = req[c].left \ {a}, !.step = IF req[c].left = {a} THEN "create" ELSE "declined"] \in Pressed
      BY <1>0 DEF Pressed
    <3>2. CASE Answered(c)
      BY <3>2, RequestGoesTyped
    <3>3. CASE ~Answered(c)
      BY <2>1, <3>1, <3>3 DEF TypeOK
    <3> QED BY <3>2, <3>3
  <2>4. attempt' \in [Attempts -> Row]
    BY <2>1, <2>2, ClearedTyped DEF TypeOK
  <2>5. page' \in [Attempts -> Page] /\ faults' \in 0 .. MaxFaults
    BY <2>1, <2>2, ExpireTyped
  <2> QED BY <1>6, <2>3, <2>4, <2>5 DEF TypeOK, EndDeclined
<1>7. CASE Create(c)
  <2>1. CASE Answered(c) /\ UNCHANGED attempt
    BY <1>7, <2>1, RequestGoesTyped DEF TypeOK, Create
  <2>2. CASE ~(Answered(c) /\ UNCHANGED attempt)
    <3>1. PICK a \in Attempts :
               /\ attempt' = [attempt EXCEPT ![a] = [NoRow EXCEPT !.state = "creating", !.slot = TRUE, !.amount = req[c].due]]
               /\ req' = [req EXCEPT ![c] = [@ EXCEPT !.step = "call", !.held = a]]
      BY <1>7, <2>2 DEF Create
    <3>2. [req[c] EXCEPT !.step = "call", !.held = a] \in Pressed
      BY <1>0 DEF Pressed
    <3>3. [NoRow EXCEPT !.state = "creating", !.slot = TRUE, !.amount = req[c].due] \in Row
      BY <1>0, RestTyped DEF Pressed, Row, States
    <3> QED BY <1>7, <3>1, <3>2, <3>3 DEF TypeOK, Create
  <2> QED BY <2>1, <2>2
<1>8. CASE CallProvider(c)
  <2>1. page' \in [Attempts -> Page]
    <3>1. req[c].held \in Attempts
      BY <1>8 DEF CallProvider, RequestFits
    <3>2. [page[req[c].held] EXCEPT !.state = "open"] \in Page
      BY <3>1 DEF TypeOK, Page, PageStates
    <3> QED BY <1>8, <3>1, <3>2 DEF TypeOK, CallProvider
  <2>2. req' \in [Customers -> Pressed]
    BY <1>8, RequestGoesTyped DEF CallProvider
  <2>3. faults' \in 0 .. MaxFaults
    BY <1>8, FaultTyped DEF TypeOK, CallProvider
  <2> QED BY <1>8, <2>1, <2>2, <2>3 DEF TypeOK, CallProvider
<1>9. CASE Opened(c)
  <2> DEFINE a == req[c].held
  <2>1. a \in Attempts
    BY <1>9 DEF Opened, RequestFits
  <2>2. Moved(a, "open") \in [Attempts -> Row]
    BY <2>1, MovedTyped DEF States
  <2>3. [Moved(a, "open")[a] EXCEPT !.ref = TRUE, !.url = TRUE] \in Row
    BY <2>1, <2>2 DEF Row
  <2>4. [page[a] EXCEPT !.shown = TRUE] \in Page
    BY <2>1 DEF TypeOK, Page
  <2>5. /\ attempt' = attempt
           \/ attempt' = [Moved(a, "open") EXCEPT ![a] = [Moved(a, "open")[a] EXCEPT !.ref = TRUE, !.url = TRUE]]
        /\ page' = [page EXCEPT ![a] = [page[a] EXCEPT !.shown = TRUE]]
    BY <1>9 DEF Opened
  <2>6. req' \in [Customers -> Pressed]
    BY <1>9, RequestGoesTyped DEF Opened
  <2> HIDE DEF a
  <2>7. attempt' \in [Attempts -> Row]
    BY <2>2, <2>3, <2>5 DEF TypeOK
  <2> QED BY <1>9, <2>4, <2>5, <2>6, <2>7 DEF TypeOK, Opened
<1>10. CASE FailCreate(c)
  <2>1. req[c].held \in Attempts
    BY <1>10 DEF FailCreate, RequestFits
  <2>2. Moved(req[c].held, "failed") \in [Attempts -> Row]
    BY <2>1, MovedTyped DEF States
  <2>3. req' \in [Customers -> Pressed]
    BY <1>10, RequestGoesTyped DEF FailCreate
  <2> QED BY <1>10, <2>2, <2>3 DEF TypeOK, FailCreate
<1>11. CASE RequestDies(c)
  BY <1>11, FaultTyped, RequestGoesTyped DEF TypeOK, RequestDies
<1>12. CASE RefuseRedirect(c)
  <2> DEFINE a == req[c].held
  <2>1. a \in Attempts
    BY <1>12 DEF RefuseRedirect, RequestFits
  <2>2. Moved(a, "failed") \in [Attempts -> Row]
    BY <2>1, MovedTyped DEF States
  <2>3. [Moved(a, "failed")[a] EXCEPT !.ref = TRUE] \in Row
    BY <2>1, <2>2 DEF Row
  <2>4. \/ attempt' = attempt
        \/ attempt' = [Moved(a, "failed") EXCEPT ![a] = [Moved(a, "failed")[a] EXCEPT !.ref = TRUE]]
    BY <1>12 DEF RefuseRedirect
  <2>5. req' \in [Customers -> Pressed]
    BY <1>12, RequestGoesTyped DEF RefuseRedirect
  <2> HIDE DEF a
  <2>6. attempt' \in [Attempts -> Row]
    BY <2>2, <2>3, <2>4 DEF TypeOK
  <2> QED BY <1>12, <2>5, <2>6 DEF TypeOK, RefuseRedirect
<1> QED BY <1>1, <1>2, <1>3, <1>4, <1>5, <1>6, <1>7, <1>8, <1>9, <1>10, <1>11, <1>12 DEF Request

LEMMA SettleTyped ==
  ASSUME TypeOK, NEW s \in Settlers, AskFits(s), (\E a \in Attempts : Ask(s, a)) \/ Settle(s) \/ SettleDies(s)
  PROVE  TypeOK'
<1>0. ask[s] \in Asked
  BY DEF TypeOK
<1>1. CASE \E a \in Attempts : Ask(s, a)
  <2>1. PICK a \in Attempts : Ask(s, a)
    BY <1>1
  <2> DEFINE owes == attempt[a].state \in {"open", "failed"} /\ Due = attempt[a].amount /\ Due > 0
  <2>2. attempt[a].state \in States /\ attempt[a].try \in 0 .. MaxTries /\ owes \in BOOLEAN
    BY DEF TypeOK, Row
  <2>3. ask' = [ask EXCEPT ![s] = [NoAsk EXCEPT !.step = "call", !.a = a, !.seen = attempt[a].state,
                                                !.try = attempt[a].try, !.owes = owes]]
    BY <2>1 DEF Ask
  <2> HIDE DEF owes
  <2>4. [NoAsk EXCEPT !.step = "call", !.a = a, !.seen = attempt[a].state,
                      !.try = attempt[a].try, !.owes = owes] \in Asked
    BY <2>2, RestTyped DEF Asked
  <2> QED BY <2>1, <2>3, <2>4 DEF TypeOK, Ask
<1>2. CASE CallSettle(s)
  <2> DEFINE a == ask[s].a
  <2>1. PICK answer \in {"pending", "processing", "succeeded", "failed", "expired"} :
          /\ Capture(a, ask[s].try, answer) \/ UNCHANGED page
          /\ \/ ask' = [ask EXCEPT ![s] =
                  [@ EXCEPT !.step = IF ask[s].owes /\ answer = "failed" THEN "retry" ELSE "apply", !.answer = answer]]
             \/ AskEnds(s)
          /\ UNCHANGED faults \/ Fault("unsaid")
    BY <1>2 DEF CallSettle
  <2>2. a \in Attempts
    BY <1>2 DEF CallSettle, AskFits
  <2>3. ask' \in [Settlers -> Asked]
    <3>1. [ask[s] EXCEPT !.step = IF ask[s].owes /\ answer = "failed" THEN "retry" ELSE "apply",
                         !.answer = answer] \in Asked
      BY <1>0 DEF Asked
    <3>2. CASE AskEnds(s)
      BY <3>2, AskGoesTyped
    <3>3. CASE ~AskEnds(s)
      BY <2>1, <3>1, <3>3 DEF TypeOK
    <3> QED BY <3>2, <3>3
  <2>4. page' \in [Attempts -> Page]
    <3>1. ask[s].try \in 0 .. MaxTries
      BY <1>0 DEF Asked
    <3>2. [page[a] EXCEPT !.state = "paid"] \in Page
      BY <2>2 DEF TypeOK, Page, PageStates
    <3>3. [page[a] EXCEPT !.declined = @ \cup {ask[s].try}] \in Page
      BY <2>2, <3>1 DEF TypeOK, Page
    <3>4. \/ page' = page
          \/ page' = [page EXCEPT ![a] = [page[a] EXCEPT !.state = "paid"]]
          \/ page' = [page EXCEPT ![a] = [page[a] EXCEPT !.declined = @ \cup {ask[s].try}]]
      BY <2>1 DEF Capture
    <3> HIDE DEF a
    <3> QED BY <3>2, <3>3, <3>4 DEF TypeOK
  <2>5. faults' \in 0 .. MaxFaults
    BY <2>1, FaultTyped DEF TypeOK
  <2> QED BY <1>2, <2>3, <2>4, <2>5 DEF TypeOK, CallSettle
<1>3. CASE NextTry(s)
  <2> DEFINE a == ask[s].a
  <2>1. a \in Attempts
    BY <1>3 DEF NextTry, AskFits
  <2>2. \/ attempt' = attempt
        \/ attempt[a].try < MaxTries /\ attempt' = [attempt EXCEPT ![a] = [attempt[a] EXCEPT !.try = @ + 1]]
    BY <1>3 DEF NextTry
  <2>3. attempt[a].try < MaxTries => [attempt[a] EXCEPT !.try = @ + 1] \in Row
    BY <2>1, CheckoutAssumption DEF TypeOK, Row
  <2> HIDE DEF a
  <2>4. attempt' \in [Attempts -> Row]
    BY <2>2, <2>3 DEF TypeOK
  <2> QED BY <1>3, <2>4, AskGoesTyped DEF TypeOK, NextTry
<1>4. CASE ApplyAnswer(s)
  <2>1. ask[s].a \in Attempts
    BY <1>4 DEF ApplyAnswer, AskFits
  <2>2. attempt' = attempt \/ (ask[s].answer \in States /\ attempt' = Moved(ask[s].a, ask[s].answer))
    BY <1>4 DEF ApplyAnswer, States
  <2>3. attempt' \in [Attempts -> Row]
    BY <2>1, <2>2, MovedTyped DEF TypeOK
  <2>4. ask' \in [Settlers -> Asked]
    <3>1. [ask[s] EXCEPT !.step = "lock", !.left = Made] \in Asked
      <4>1. Made \in SUBSET Attempts
        BY DEF Made
      <4> QED BY <1>0, <4>1 DEF Asked
    <3>2. CASE AskEnds(s)
      BY <3>2, AskGoesTyped
    <3>3. CASE ask' = [ask EXCEPT ![s] = [@ EXCEPT !.step = "lock", !.left = Made]]
      BY <3>1, <3>3 DEF TypeOK
    <3> QED BY <1>4, <3>2, <3>3 DEF ApplyAnswer
  <2> QED BY <1>4, <2>3, <2>4 DEF TypeOK, ApplyAnswer
<1>5. CASE LockLink(s)
  <2>1. PICK a \in ask[s].left :
          /\ \/ UNCHANGED <<attempt, page, faults>>
             \/ \E answer \in {"ended", "completed", "unknown"} :
                  /\ Expire(a, answer)
                  /\ \/ attempt' = attempt \/ attempt' = Moved(a, "expired")
                     \/ attempt' = [attempt EXCEPT ![a].url = FALSE]
          /\ ask' = [ask EXCEPT ![s] = IF @.left = {a} THEN NoAsk ELSE [@ EXCEPT !.left = ask[s].left \ {a}]]
    <3>1. PICK a \in ask[s].left :
       /\ IF Swept(a) /\ attempt[a].state # "processing"
          THEN \E answer \in {"ended", "completed", "unknown"} :
                 /\ Expire(a, answer)
                 /\ attempt' = IF answer # "ended" THEN attempt
                               ELSE IF attempt[a].state = "open" THEN Moved(a, "expired")
                               ELSE [attempt EXCEPT ![a].url = FALSE]
          ELSE UNCHANGED <<attempt, page, faults>>
       /\ ask' = [ask EXCEPT ![s] = IF @.left = {a} THEN NoAsk ELSE [@ EXCEPT !.left = ask[s].left \ {a}]]
      BY <1>5 DEF LockLink
    <3>2. CASE Swept(a) /\ attempt[a].state # "processing"
      <4>1. PICK answer \in {"ended", "completed", "unknown"} :
                 /\ Expire(a, answer)
                 /\ attempt' = IF answer # "ended" THEN attempt
                               ELSE IF attempt[a].state = "open" THEN Moved(a, "expired")
                               ELSE [attempt EXCEPT ![a].url = FALSE]
        BY <3>1, <3>2
      <4>2. \/ attempt' = attempt \/ attempt' = Moved(a, "expired")
            \/ attempt' = [attempt EXCEPT ![a].url = FALSE]
        BY <4>1
      <4> QED BY <3>1, <4>1, <4>2
    <3>3. CASE ~(Swept(a) /\ attempt[a].state # "processing")
      BY <3>1, <3>3
    <3> QED BY <3>2, <3>3
  <2>2. a \in Attempts
    BY <1>0 DEF Asked
  <2>3. attempt' \in [Attempts -> Row]
    <3>1. Moved(a, "expired") \in [Attempts -> Row]
      BY <2>2, MovedTyped DEF States
    <3>2. [attempt EXCEPT ![a].url = FALSE] \in [Attempts -> Row]
      BY <2>2, ClearedTyped
    <3> QED BY <2>1, <3>1, <3>2 DEF TypeOK
  <2>4. ask' \in [Settlers -> Asked]
    <3>1. [ask[s] EXCEPT !.left = ask[s].left \ {a}] \in Asked
      BY <1>0 DEF Asked
    <3> QED BY <2>1, <3>1, RestTyped DEF TypeOK
  <2>5. page' \in [Attempts -> Page] /\ faults' \in 0 .. MaxFaults
    BY <2>1, <2>2, ExpireTyped DEF TypeOK
  <2> QED BY <1>5, <2>3, <2>4, <2>5 DEF TypeOK, LockLink
<1>6. CASE ApplySuccess(s)
  <2>1. ask' \in [Settlers -> Asked]
    BY <1>6, AskGoesTyped DEF ApplySuccess
  <2> QED BY <1>6, <2>1 DEF TypeOK, ApplySuccess
<1>7. CASE Take(s)
  <2> DEFINE a == ask[s].a
  <2>1. a \in Attempts
    BY <1>7 DEF Take, AskFits
  <2>2. attempt' = attempt \/ attempt' = [attempt EXCEPT ![a] = [attempt[a] EXCEPT !.state = "succeeded"]]
    BY <1>7 DEF Take
  <2>3. [attempt[a] EXCEPT !.state = "succeeded"] \in Row
    BY <2>1 DEF TypeOK, Row, States
  <2> HIDE DEF a
  <2>4. attempt' \in [Attempts -> Row]
    BY <2>2, <2>3 DEF TypeOK
  <2>5. ask' \in [Settlers -> Asked]
    BY <1>7, AskGoesTyped DEF Take
  <2> QED BY <1>7, <2>4, <2>5 DEF TypeOK, Take
<1>8. CASE TakeBack(s)
  <2> DEFINE a == ask[s].a
  <2>1. a \in Attempts
    BY <1>8 DEF TakeBack, AskFits
  <2>2. \/ attempt' = attempt
        \/ attempt' = [attempt EXCEPT ![a] = [attempt[a] EXCEPT !.state = "succeeded", !.slot = TRUE]]
    BY <1>8 DEF TakeBack
  <2> HIDE DEF a
  <2>3. [attempt[a] EXCEPT !.state = "succeeded", !.slot = TRUE] \in Row
    <3>1. attempt[a] \in Row /\ "succeeded" \in States
      BY <2>1 DEF TypeOK, States
    <3> HIDE DEF a
    <3> QED BY <3>1 DEF Row
  <2>4. attempt' \in [Attempts -> Row]
    BY <2>2, <2>3 DEF TypeOK
  <2>5. ask' \in [Settlers -> Asked]
    BY <1>8, AskGoesTyped DEF TakeBack
  <2> QED BY <1>8, <2>4, <2>5 DEF TypeOK, TakeBack
<1>9. CASE Queue(s)
  <2>1. ask[s].a \in Attempts
    BY <1>9 DEF Queue, AskFits
  <2> QED BY <1>9, <2>1, AskGoesTyped DEF TypeOK, Queue
<1>10. CASE SettleDies(s)
  BY <1>10, FaultTyped, AskGoesTyped DEF TypeOK, SettleDies
<1>11. CASE FlagTwo(s)
  <2> DEFINE a == ask[s].a
  <2>1. a \in Attempts
    BY <1>11 DEF FlagTwo, AskFits
  <2>2. \/ attempt' = attempt
        \/ attempt' = [attempt EXCEPT ![a] = [attempt[a] EXCEPT !.state = "succeeded", !.flag = TRUE]]
    BY <1>11 DEF FlagTwo
  <2> HIDE DEF a
  <2>3. [attempt[a] EXCEPT !.state = "succeeded", !.flag = TRUE] \in Row
    <3>1. attempt[a] \in Row /\ "succeeded" \in States
      BY <2>1 DEF TypeOK, States
    <3> HIDE DEF a
    <3> QED BY <3>1 DEF Row
  <2>4. attempt' \in [Attempts -> Row]
    BY <2>2, <2>3 DEF TypeOK
  <2>5. ask' \in [Settlers -> Asked]
    BY <1>11, AskGoesTyped DEF FlagTwo
  <2> QED BY <1>11, <2>4, <2>5 DEF TypeOK, FlagTwo
<1> QED BY <1>1, <1>2, <1>3, <1>4, <1>5, <1>6, <1>7, <1>8, <1>9, <1>10, <1>11 DEF Settle

LEMMA RecordTyped ==
  ASSUME TypeOK, NEW r \in Recorders, RunFits(r), (\E a \in Attempts : Claim(r, a)) \/ Record(r) \/ RunDies(r)
  PROVE  TypeOK'
<1>0. rec[r] \in Run
  BY DEF TypeOK
<1>1. CASE \E a \in Attempts : Claim(r, a)
  <2>1. PICK a \in Attempts : Claim(r, a)
    BY <1>1
  <2>2. attempt' \in [Attempts -> Row]
    <3>1. Moved(a, "recording") \in [Attempts -> Row]
      BY MovedTyped DEF States
    <3> QED BY <2>1, <3>1 DEF TypeOK, Claim
  <2>3. rec' \in [Recorders -> Run]
    <3>1. [NoRun EXCEPT !.step = "resolve", !.a = a] \in Run
      BY RestTyped DEF Run
    <3> QED BY <2>1, <3>1 DEF TypeOK, Claim
  <2>4. faults' \in 0 .. MaxFaults
    BY <2>1, FaultTyped DEF TypeOK, Claim
  <2>5. queued' \subseteq Attempts
    BY <2>1 DEF TypeOK, Claim
  <2> QED BY <2>1, <2>2, <2>3, <2>4, <2>5 DEF TypeOK, Claim
<1>2. CASE ReadDue(r)
  <2>1. [rec[r] EXCEPT !.step = "look", !.due = Due] \in Run
    BY <1>0, DueTyped DEF Run
  <2> QED BY <1>2, <2>1 DEF TypeOK, ReadDue
<1>3. CASE LookWritten(r)
  <2>1. rec' \in [Recorders -> Run]
    BY <1>3, RunGoesTyped DEF LookWritten
  <2> QED BY <1>3, <2>1 DEF TypeOK, LookWritten
<1>4. CASE WriteRow(r)
  <2>1. rec[r].a \in Attempts
    BY <1>4 DEF WriteRow, RunFits
  <2>2. rec' \in [Recorders -> Run]
    BY <1>4, RunGoesTyped DEF WriteRow, RunTriesAgain
  <2>3. faults' \in 0 .. MaxFaults
    BY <1>4, FaultTyped DEF TypeOK, WriteRow
  <2>4. rows' \subseteq Attempts /\ queued' \subseteq Attempts
    BY <1>4, <2>1 DEF TypeOK, WriteRow, RunTriesAgain
  <2> QED BY <1>4, <2>2, <2>3, <2>4 DEF TypeOK, WriteRow
<1>5. CASE RefuseRecord(r)
  <2>1. rec[r].a \in Attempts
    BY <1>5 DEF RefuseRecord, RunFits
  <2>2. Moved(rec[r].a, "record_refused") \in [Attempts -> Row]
    BY <2>1, MovedTyped DEF States
  <2>3. rec' \in [Recorders -> Run]
    BY <1>5, RunGoesTyped DEF RefuseRecord, RunEnds
  <2> QED BY <1>5, <2>2, <2>3 DEF TypeOK, RefuseRecord, RunEnds
<1>6. CASE Finish(r)
  <2>1. rec[r].a \in Attempts
    BY <1>6 DEF Finish, RunFits
  <2>2. Moved(rec[r].a, "recorded") \in [Attempts -> Row]
    BY <2>1, MovedTyped DEF States
  <2>3. rec' \in [Recorders -> Run]
    BY <1>6, RunGoesTyped DEF Finish, RunEnds
  <2> QED BY <1>6, <2>2, <2>3 DEF TypeOK, Finish, RunEnds
<1>7. CASE RunDies(r)
  BY <1>7, FaultTyped, RunGoesTyped DEF TypeOK, RunDies, RunTriesAgain
<1> QED BY <1>1, <1>2, <1>3, <1>4, <1>5, <1>6, <1>7 DEF Record

LEMMA OthersTyped ==
  ASSUME TypeOK, NEW a \in Attempts, Abandon(a) \/ Dropped(a) \/ PickUp(a) \/ Check(a)
  PROVE  TypeOK'
<1>1. CASE Abandon(a)
  <2>1. [attempt[a] EXCEPT !.state = "abandoned", !.slot = FALSE] \in Row
    BY DEF TypeOK, Row, States
  <2> QED BY <1>1, <2>1 DEF TypeOK, Abandon
<1>2. CASE Dropped(a)
  BY <1>2, FaultTyped DEF TypeOK, Dropped
<1>3. CASE PickUp(a)
  BY <1>3 DEF TypeOK, PickUp
<1>4. CASE Check(a)
  <2>1. [attempt[a] EXCEPT !.checked = TRUE] \in Row
    BY DEF TypeOK, Row
  <2> QED BY <1>4, <2>1 DEF TypeOK, Check
<1> QED BY <1>1, <1>2, <1>3, <1>4

LEMMA ByHandTyped ==
  ASSUME TypeOK, RecordByHand
  PROVE  TypeOK'
<1>1. PICK n \in 1 .. Due : byHand' = byHand + n
  BY DEF RecordByHand
<1>2. n \in Nat
  BY DueTyped, CheckoutAssumption
<1> QED BY <1>1, <1>2, FaultTyped DEF TypeOK, RecordByHand

LEMMA NextTyped ==
  ASSUME IInv, [Next]_vars
  PROVE  TypeOK'
<1>1. CASE Provider
  BY <1>1, ProviderTyped DEF IInv, Provider
<1>2. CASE \E c \in Customers : Press(c) \/ Request(c) \/ RequestDies(c)
  BY <1>2, RequestTyped DEF IInv
<1>3. CASE \E s \in Settlers : (\E a \in Attempts : Ask(s, a)) \/ Settle(s) \/ SettleDies(s)
  BY <1>3, SettleTyped DEF IInv
<1>4. CASE \E r \in Recorders : (\E a \in Attempts : Claim(r, a)) \/ Record(r) \/ RunDies(r)
  BY <1>4, RecordTyped DEF IInv
<1>5. CASE \E a \in Attempts : Abandon(a) \/ Dropped(a) \/ PickUp(a) \/ Check(a)
  BY <1>5, OthersTyped DEF IInv
<1>6. CASE RecordByHand
  BY <1>6, ByHandTyped DEF IInv
<1>7. CASE UNCHANGED vars
  BY <1>7 DEF IInv, TypeOK, vars
<1> QED BY <1>1, <1>2, <1>3, <1>4, <1>5, <1>6, <1>7 DEF Next

-----------------------------------------------------------------------------
(* What a step leaves as it was *)

\* No step takes these back: an attempt's checkout, what its page ended as, that
\* its money is being recorded, and its row.
Onward(a) ==
  /\ attempt[a].ref => /\ attempt'[a].ref
                       /\ page[a].state \in {"paid", "ended"} => page'[a].state = page[a].state
  /\ attempt[a].state \in Recording => attempt'[a].state \in Recording
  /\ page[a].state # "none" => page'[a].state # "none"
  /\ a \in rows => a \in rows'

Making == { "call", "opened", "failing", "refusing" }

\* The attempts and their pages after a step.
Kept == \A a \in Attempts : PageFits(a)' /\ Onward(a)

\* Attempts in the making stay so.
Creating == \A a \in Attempts : attempt[a].state = "creating" => attempt'[a].state = "creating"

LEMMA NothingKept ==
  ASSUME IInv, UNCHANGED <<attempt, page, rows>>
  PROVE  Kept /\ Creating
BY DEF IInv, Kept, Creating, Onward, PageFits

\* What a settle or a run knows goes on being so.
LEMMA AsksStand ==
  ASSUME IInv, Kept
  PROVE  \A s \in Settlers : ask'[s] = ask[s] => AskFits(s)'
<1> SUFFICES ASSUME NEW s \in Settlers, ask'[s] = ask[s]
             PROVE  AskFits(s)'
  OBVIOUS
<1>1. AskFits(s)
  BY DEF IInv
<1>2. ask[s].step # "idle" => ask[s].a \in Attempts /\ Onward(ask[s].a)
  BY <1>1 DEF Kept, AskFits
<1> QED BY <1>1, <1>2 DEF AskFits, Onward

LEMMA RunsStand ==
  ASSUME IInv, Kept
  PROVE  \A r \in Recorders : rec'[r] = rec[r] => RunFits(r)'
<1> SUFFICES ASSUME NEW r \in Recorders, rec'[r] = rec[r]
             PROVE  RunFits(r)'
  OBVIOUS
<1>1. RunFits(r)
  BY DEF IInv
<1>2. rec[r].step # "idle" => rec[r].a \in Attempts /\ Onward(rec[r].a)
  BY <1>1 DEF Kept, RunFits
<1> QED BY <1>1, <1>2 DEF RunFits, Onward

LEMMA RequestsStand ==
  ASSUME IInv, Kept, UNCHANGED req,
         \A c \in Customers : req[c].step \in Making => attempt'[req[c].held].state = "creating"
  PROVE  \A c \in Customers : RequestFits(c)'
<1> SUFFICES ASSUME NEW c \in Customers
             PROVE  RequestFits(c)'
  OBVIOUS
<1>1. RequestFits(c)
  BY DEF IInv
<1>2. req[c].held \in Attempts => Onward(req[c].held)
  BY DEF Kept
<1> QED BY <1>1, <1>2 DEF RequestFits, Onward, Making

\* Every step but Abandon leaves them standing so.
LEMMA MakersStand ==
  ASSUME IInv, Kept, UNCHANGED req, Creating
  PROVE  \A c \in Customers : RequestFits(c)'
<1>1. \A c \in Customers : req[c].step \in Making => attempt'[req[c].held].state = "creating"
  BY DEF IInv, RequestFits, Making, Creating
<1> QED BY <1>1, RequestsStand

\* One request's step: the attempt it makes is its own, before and after.
LEMMA RequestSteps ==
  ASSUME IInv, Kept, NEW c \in Customers,
         \A d \in Customers \ {c} : req'[d] = req[d],
         \A a \in Attempts : attempt[a].state = "creating" /\ attempt'[a].state # "creating"
                               => req[c].step \in Making /\ req[c].held = a,
         req'[c].step \in Making =>
           /\ req'[c].held \in Attempts /\ attempt'[req'[c].held].state = "creating"
           /\ \/ req[c].step \in Making /\ req[c].held = req'[c].held
              \/ attempt[req'[c].held].state # "creating",
         req'[c].step \in {"opened", "refusing"} => page'[req'[c].held].state # "none",
         req'[c].step \in {"ending", "expire"} => req'[c].held \in Attempts /\ attempt'[req'[c].held].ref,
         req'[c].step = "expire" => page'[req'[c].held].state = "ended"
  PROVE  \A d \in Customers : RequestFits(d)'
<1>1. \A d \in Customers : RequestFits(d)
  BY DEF IInv
<1>2. RequestFits(c)'
  <2>1. \A d \in Customers : req'[d].step \in Making /\ req'[d].held = req'[c].held /\ req'[c].step \in Making => d = c
    BY <1>1 DEF RequestFits, Making
  <2> QED BY <2>1 DEF RequestFits, Making
<1>3. ASSUME NEW d \in Customers \ {c}
      PROVE  RequestFits(d)'
  <2>1. req[d].held \in Attempts => Onward(req[d].held)
    BY DEF Kept
  <2>2. req[d].step \in Making => /\ req[d].held \in Attempts /\ attempt'[req[d].held].state = "creating"
                                  /\ \A e \in Customers : req'[e].step \in Making /\ req'[e].held = req[d].held => e = d
    BY <1>1 DEF RequestFits, Making
  <2> QED BY <1>1, <2>1, <2>2 DEF RequestFits, Making, Onward
<1> QED BY <1>2, <1>3

-----------------------------------------------------------------------------
(* What a step does to an attempt and its page *)

LEMMA MovedRow ==
  ASSUME TypeOK, NEW a \in Attempts, NEW to \in States, attempt' = Moved(a, to)
  PROVE  /\ \A b \in Attempts \ {a} : attempt'[b] = attempt[b]
         /\ attempt'[a].state = IF attempt[a].state \in Moves(to) THEN to ELSE attempt[a].state
         /\ attempt'[a].ref = attempt[a].ref /\ attempt'[a].url = attempt[a].url
<1>1. attempt[a] \in Row /\ attempt \in [Attempts -> Row]
  BY DEF TypeOK
<1> DEFINE row == [attempt[a] EXCEPT !.state = to, !.slot = attempt[a].slot /\ to \in OpenStates]
<1>2. row.state = to /\ row.ref = attempt[a].ref /\ row.url = attempt[a].url
  BY <1>1 DEF Row
<1>3. attempt' = IF attempt[a].state \in Moves(to) THEN [attempt EXCEPT ![a] = row] ELSE attempt
  BY DEF Moved
<1> HIDE DEF row
<1> QED BY <1>1, <1>2, <1>3

\* A page goes on from a state it may still leave.
LEMMA PageGoesOn ==
  ASSUME IInv, NEW a \in Attempts, NEW to \in PageStates \ {"none"},
         page' = [page EXCEPT ![a].state = to], UNCHANGED <<attempt, rows>>,
         page[a].state \notin {"paid", "ended"},
         to \in {"approved", "declined", "processing", "paid"} => page[a].shown
  PROVE  Kept /\ Creating
<1>1. page[a] \in Page /\ page \in [Attempts -> Page]
  BY DEF IInv, TypeOK
<1>2. page'[a].state = to /\ page'[a].shown = page[a].shown /\ \A b \in Attempts \ {a} : page'[b] = page[b]
  BY <1>1 DEF Page
<1>3. \A b \in Attempts : PageFits(b)
  BY DEF IInv
<1>4. \A b \in Attempts \ {a} : PageFits(b)' /\ Onward(b)
  BY <1>2, <1>3 DEF PageFits, Onward
<1>5. PageFits(a)' /\ Onward(a)
  BY <1>2, <1>3 DEF PageFits, Onward, TakenStates
<1> QED BY <1>4, <1>5 DEF Kept, Creating

\* A page was asked to end: only then does a declined attempt forget it, and an
\* open one let go.
LEMMA ExpireFits ==
  ASSUME IInv, NEW a \in Attempts, NEW answer, Expire(a, answer), UNCHANGED rows,
         \/ attempt' = attempt
         \/ answer = "ended" /\ attempt[a].state = "failed" /\ attempt' = [attempt EXCEPT ![a].url = FALSE]
         \/ answer = "ended" /\ attempt[a].state = "open" /\ attempt' = Moved(a, "expired")
  PROVE  /\ Kept /\ Creating
         /\ answer = "ended" => page'[a].state = "ended"
<1>1. page[a] \in Page /\ page \in [Attempts -> Page] /\ attempt[a] \in Row /\ attempt \in [Attempts -> Row]
  BY DEF IInv, TypeOK
<1>2. /\ \A b \in Attempts \ {a} : page'[b] = page[b]
      /\ page'[a].shown = page[a].shown
      /\ \/ page'[a].state = page[a].state
         \/ page[a].state \in {"open", "declined", "ended", "none"} /\ page'[a].state = "ended"
      /\ answer = "ended" => page'[a].state = "ended"
  <2>1. \/ page' = page /\ answer # "ended"
        \/ Ending(a) = "ended" /\ page' = [page EXCEPT ![a].state = "ended"]
    BY DEF Expire
  <2>2. Ending(a) = "ended" => page[a].state \in {"open", "declined", "ended", "none"}
    BY <1>1 DEF Ending, Page, PageStates
  <2> QED BY <1>1, <2>1, <2>2 DEF Page
<1>3. /\ \A b \in Attempts \ {a} : attempt'[b] = attempt[b]
      /\ attempt'[a].ref = attempt[a].ref
      /\ \/ attempt'[a].state = attempt[a].state /\ attempt'[a].url = attempt[a].url
         \/ answer = "ended" /\ attempt[a].state = "failed" /\ attempt'[a].state = "failed" /\ ~attempt'[a].url
         \/ answer = "ended" /\ attempt[a].state = "open" /\ attempt'[a].state = "expired"
  <2>1. CASE attempt' = attempt
    BY <2>1
  <2>2. CASE answer = "ended" /\ attempt[a].state = "failed" /\ attempt' = [attempt EXCEPT ![a].url = FALSE]
    BY <1>1, <2>2 DEF Row
  <2>3. CASE answer = "ended" /\ attempt[a].state = "open" /\ attempt' = Moved(a, "expired")
    <3>1. "expired" \in States /\ "open" \in Moves("expired")
      BY DEF States, Moves
    <3> QED BY <2>3, <3>1, MovedRow DEF IInv
  <2> QED BY <2>1, <2>2, <2>3
<1>4. \A b \in Attempts : PageFits(b)
  BY DEF IInv
<1>5. \A b \in Attempts \ {a} : PageFits(b)' /\ Onward(b)
  BY <1>2, <1>3, <1>4 DEF PageFits, Onward
<1>6. PageFits(a)' /\ Onward(a)
  BY <1>2, <1>3, <1>4 DEF PageFits, Onward, TakenStates, Recording
<1>7. Creating
  BY <1>3 DEF Creating
<1> QED BY <1>2, <1>5, <1>6, <1>7 DEF Kept

\* An attempt moves, its page and the rows as they were.
LEMMA MovedFits ==
  ASSUME IInv, NEW a \in Attempts, NEW to \in States, attempt' = Moved(a, to), UNCHANGED <<page, rows>>,
         to \in {"processing", "succeeded", "failed", "expired", "recording", "recorded", "record_refused"},
         to = "expired" => page[a].state = "ended",
         to = "succeeded" => page[a].state = "paid",
         to = "recorded" => a \in rows
  PROVE  Kept
<1>1. /\ \A b \in Attempts \ {a} : attempt'[b] = attempt[b]
      /\ attempt'[a].state = IF attempt[a].state \in Moves(to) THEN to ELSE attempt[a].state
      /\ attempt'[a].ref = attempt[a].ref /\ attempt'[a].url = attempt[a].url
  BY MovedRow DEF IInv
<1>2. \A b \in Attempts : PageFits(b)
  BY DEF IInv
<1>3. \A b \in Attempts \ {a} : PageFits(b)' /\ Onward(b)
  BY <1>1, <1>2 DEF PageFits, Onward
<1>4. attempt[a].state \in Moves(to) =>
        \/ to = "processing" /\ attempt[a].state = "open"
        \/ to = "succeeded" /\ attempt[a].state \in {"open", "processing", "expired", "failed"}
        \/ to = "failed" /\ attempt[a].state \in {"creating", "open", "processing"}
        \/ to = "expired" /\ attempt[a].state \in {"open", "processing"}
        \/ to = "recording" /\ attempt[a].state = "succeeded"
        \/ to = "recorded" /\ attempt[a].state \in {"recording", "record_refused"}
        \/ to = "record_refused" /\ attempt[a].state = "recording"
  BY DEF Moves
<1>5. CASE attempt[a].state \notin Moves(to)
  BY <1>1, <1>2, <1>3, <1>5 DEF PageFits, Onward, Kept
<1>6. CASE attempt[a].state \in Moves(to)
  <2>1. attempt[a].state \in TakenStates => page[a].state = "paid"
    BY <1>2 DEF PageFits
  <2>2. PageFits(a)'
    BY <1>1, <1>2, <1>4, <1>6, <2>1 DEF PageFits, TakenStates, Recording
  <2>3. Onward(a)
    BY <1>1, <1>2, <1>4, <1>6 DEF PageFits, Onward, Recording
  <2> QED BY <1>3, <2>2, <2>3 DEF Kept
<1> QED BY <1>5, <1>6

-----------------------------------------------------------------------------
(* Every step keeps the inductive invariant *)

Fits == /\ \A a \in Attempts : PageFits(a)
        /\ \A c \in Customers : RequestFits(c)
        /\ \A s \in Settlers : AskFits(s)
        /\ \A r \in Recorders : RunFits(r)

LEMMA ProviderFits ==
  ASSUME IInv, NEW a \in Attempts, Pay(a) \/ BankSays(a) \/ Lapse(a)
  PROVE  Fits'
<1>1. Kept /\ Creating
  <2>1. CASE Pay(a)
    <3>1. PICK to \in {"paid", "processing", "approved", "declined"} : page' = [page EXCEPT ![a].state = to]
      BY <2>1 DEF Pay
    <3> QED BY <2>1, <3>1, PageGoesOn DEF Pay, PageStates
  <2>2. CASE BankSays(a)
    <3>1. PICK to \in {"paid", "ended"} : page' = [page EXCEPT ![a].state = to]
      BY <2>2 DEF BankSays
    <3>2. page[a].shown
      BY <2>2 DEF BankSays, IInv, PageFits
    <3> QED BY <2>2, <3>1, <3>2, PageGoesOn DEF BankSays, PageStates
  <2>3. CASE Lapse(a)
    BY <2>3, PageGoesOn DEF Lapse, Live, PageStates
  <2> QED BY <2>1, <2>2, <2>3
<1>2. UNCHANGED <<req, ask, rec>>
  BY DEF Pay, BankSays, Lapse
<1> QED BY <1>1, <1>2, MakersStand, AsksStand, RunsStand DEF Fits, Kept

\* A request changes only its own part, of a request's.
LEMMA OwnRequest ==
  ASSUME IInv, NEW c \in Customers, Press(c) \/ Request(c) \/ RequestDies(c)
  PROVE  /\ \A d \in Customers \ {c} : req'[d] = req[d]
         /\ UNCHANGED <<rows, ask, rec>>
<1>1. req \in [Customers -> Pressed]
  BY DEF IInv, TypeOK
<1>2. CASE Press(c)
  BY <1>1, <1>2 DEF Press
<1>3. CASE LookHeld(c)
  BY <1>1, <1>3 DEF LookHeld, Goes, Answered
<1>4. CASE EndHeld(c)
  BY <1>1, <1>4 DEF EndHeld, Goes, Answered
<1>5. CASE ExpireHeld(c)
  BY <1>1, <1>5 DEF ExpireHeld, Goes
<1>6. CASE LookRecent(c)
  BY <1>1, <1>6 DEF LookRecent, Answered
<1>7. CASE EndDeclined(c)
  BY <1>1, <1>7 DEF EndDeclined, Answered
<1>8. CASE Create(c)
  BY <1>1, <1>8 DEF Create, Answered
<1>9. CASE CallProvider(c)
  BY <1>1, <1>9 DEF CallProvider, Goes
<1>10. CASE Opened(c)
  BY <1>1, <1>10 DEF Opened, Answered
<1>11. CASE FailCreate(c)
  BY <1>1, <1>11 DEF FailCreate, Answered
<1>12. CASE RequestDies(c)
  BY <1>1, <1>12 DEF RequestDies, Answered
<1>13. CASE RefuseRedirect(c)
  BY <1>1, <1>13 DEF RefuseRedirect, Answered
<1> QED BY <1>2, <1>3, <1>4, <1>5, <1>6, <1>7, <1>8, <1>9, <1>10, <1>11, <1>12, <1>13 DEF Request

\* A step of a request that makes nothing: the request is over, or stands where
\* its held attempt is one with a checkout, ended if it is to be let go.
LEMMA RequestElsewhere ==
  ASSUME IInv, NEW c \in Customers, Kept, Creating,
         \A d \in Customers \ {c} : req'[d] = req[d],
         UNCHANGED <<ask, rec>>,
         req'[c].step \in {"idle", "held", "ending", "expire", "recent", "declined", "create"},
         req'[c].step \in {"ending", "expire"} => req'[c].held \in Attempts /\ attempt'[req'[c].held].ref,
         req'[c].step = "expire" => page'[req'[c].held].state = "ended"
  PROVE  Fits'
<1>1. \A d \in Customers : RequestFits(d)'
  BY RequestSteps DEF Making, Creating
<1> QED BY <1>1, AsksStand, RunsStand DEF Fits, Kept

LEMMA RequestKeeps ==
  ASSUME IInv, NEW c \in Customers, Press(c) \/ Request(c) \/ RequestDies(c)
  PROVE  Fits'
<1>1. req \in [Customers -> Pressed] /\ req[c] \in Pressed
  BY DEF IInv, TypeOK
<1>2. RequestFits(c) /\ \A a \in Attempts : PageFits(a)
  BY DEF IInv
<1>3. (\A d \in Customers \ {c} : req'[d] = req[d]) /\ UNCHANGED <<rows, ask, rec>>
  BY OwnRequest
<1>4. CASE Press(c)
  <2>1. req'[c].step = "held"
    BY <1>1, <1>4 DEF Press, NoRequest
  <2> QED BY <1>3, <1>4, <2>1, NothingKept, RequestElsewhere DEF Press
<1>5. CASE LookHeld(c)
  <2>1. \/ req'[c].step \in {"idle", "recent"}
        \/ req'[c].step = "ending" /\ req'[c].held \in Attempts /\ attempt[req'[c].held].ref
    <3>1. CASE Goes(c, "recent") \/ Answered(c)
      BY <1>1, <3>1 DEF Goes, Answered, NoRequest, Pressed
    <3>2. CASE \E a \in Holders : /\ attempt[a].state = "open"
                                  /\ req' = [req EXCEPT ![c] = [@ EXCEPT !.step = "ending", !.held = a]]
      <4>1. PICK a \in Attempts : /\ attempt[a].state = "open"
                                  /\ req' = [req EXCEPT ![c] = [@ EXCEPT !.step = "ending", !.held = a]]
        BY <3>2 DEF Holders
      <4>2. req'[c].step = "ending" /\ req'[c].held = a
        BY <1>1, <4>1 DEF Pressed
      <4> QED BY <1>2, <4>1, <4>2 DEF PageFits
    <3> QED BY <1>5, <3>1, <3>2 DEF LookHeld
  <2>2. UNCHANGED <<attempt, page>>
    BY <1>5 DEF LookHeld
  <2> QED BY <1>3, <2>1, <2>2, NothingKept, RequestElsewhere
<1>6. CASE EndHeld(c)
  <2> DEFINE a == req[c].held
  <2>1. a \in Attempts /\ attempt[a].ref
    BY <1>2, <1>6 DEF EndHeld, RequestFits
  <2>2. PICK answer : Expire(a, answer) /\ IF answer = "ended" THEN Goes(c, "expire") ELSE Answered(c)
    BY <1>6 DEF EndHeld
  <2>3. attempt' = attempt
    BY <1>6 DEF EndHeld
  <2> HIDE DEF a
  <2>4. Kept /\ Creating /\ (answer = "ended" => page'[a].state = "ended")
    BY <1>3, <2>1, <2>2, <2>3, ExpireFits
  <2>5. \/ req'[c].step = "idle"
        \/ answer = "ended" /\ req'[c].step = "expire" /\ req'[c].held = a
    BY <1>1, <2>2 DEF Goes, Answered, NoRequest, Pressed, a
  <2> QED BY <1>3, <2>1, <2>3, <2>4, <2>5, RequestElsewhere
<1>7. CASE ExpireHeld(c)
  <2>1. req[c].held \in Attempts /\ page[req[c].held].state = "ended"
    BY <1>2, <1>7 DEF ExpireHeld, RequestFits
  <2>2. attempt' = Moved(req[c].held, "expired") /\ UNCHANGED page
    BY <1>7 DEF ExpireHeld
  <2>3. Kept
    BY <1>3, <2>1, <2>2, MovedFits DEF States
  <2>4. Creating
    BY <2>1, <2>2, MovedRow DEF IInv, Creating, States, Moves
  <2>5. req'[c].step = "recent"
    BY <1>1, <1>7 DEF ExpireHeld, Goes, Pressed
  <2> QED BY <1>3, <2>3, <2>4, <2>5, RequestElsewhere
<1>8. CASE LookRecent(c)
  <2>1. req'[c].step \in {"idle", "create", "declined"}
    <3>1. CASE Answered(c)
      BY <1>1, <3>1 DEF Answered, NoRequest
    <3>2. CASE ~Answered(c)
      <4>1. PICK step \in {"create", "declined"}, left \in SUBSET Attempts :
               req' = [req EXCEPT ![c] = [@ EXCEPT !.step = step, !.left = left]]
        BY <1>8, <3>2 DEF LookRecent
      <4> QED BY <1>1, <4>1 DEF Pressed
    <3> QED BY <3>1, <3>2
  <2>2. UNCHANGED <<attempt, page>>
    BY <1>8 DEF LookRecent
  <2> QED BY <1>3, <2>1, <2>2, NothingKept, RequestElsewhere
<1>9. CASE EndDeclined(c)
  <2>1. PICK a \in req[c].left, answer \in {"ended", "completed", "unknown"} :
          /\ Expire(a, answer)
          /\ attempt' = IF answer = "ended" /\ attempt[a].state = "failed"
                         THEN [attempt EXCEPT ![a].url = FALSE] ELSE attempt
          /\ \/ Answered(c)
             \/ req' = [req EXCEPT ![c] = [@ EXCEPT !.left = req[c].left \ {a},
                                                    !.step = IF req[c].left = {a} THEN "create" ELSE "declined"]]
    BY <1>9 DEF EndDeclined
  <2>2. a \in Attempts
    BY <1>1 DEF Pressed
  <2>3. \/ attempt' = attempt
        \/ answer = "ended" /\ attempt[a].state = "failed" /\ attempt' = [attempt EXCEPT ![a].url = FALSE]
    BY <2>1
  <2>4. Kept /\ Creating
    BY <1>3, <2>1, <2>2, <2>3, ExpireFits
  <2>5. req'[c].step \in {"idle", "create", "declined"}
    <3>1. CASE Answered(c)
      BY <1>1, <3>1 DEF Answered, NoRequest
    <3>2. CASE ~Answered(c)
      <4> DEFINE step == IF req[c].left = {a} THEN "create" ELSE "declined"
      <4>1. req' = [req EXCEPT ![c] = [req[c] EXCEPT !.left = req[c].left \ {a}, !.step = step]]
        BY <2>1, <3>2
      <4>2. step \in {"create", "declined"}
        OBVIOUS
      <4> HIDE DEF step
      <4>3. req'[c].step = step
        BY <1>1, <4>1 DEF Pressed
      <4> QED BY <4>2, <4>3
    <3> QED BY <3>1, <3>2
  <2> QED BY <1>3, <2>4, <2>5, RequestElsewhere
<1>10. CASE Create(c)
  <2>1. CASE Answered(c) /\ UNCHANGED attempt
    <3>1. req'[c].step = "idle"
      BY <1>1, <2>1 DEF Answered, NoRequest
    <3> QED BY <1>3, <1>10, <2>1, <3>1, NothingKept, RequestElsewhere DEF Create
  <2>2. CASE ~(Answered(c) /\ UNCHANGED attempt)
    <3> DEFINE row == [NoRow EXCEPT !.state = "creating", !.slot = TRUE, !.amount = req[c].due]
    <3>1. PICK a \in Attempts : /\ attempt[a].state = "none"
                                /\ attempt' = [attempt EXCEPT ![a] = row]
                                /\ req' = [req EXCEPT ![c] = [@ EXCEPT !.step = "call", !.held = a]]
      BY <1>10, <2>2 DEF Create, Made
    <3>2. row.state = "creating" /\ row.ref = FALSE
      BY DEF NoRow
    <3> HIDE DEF row
    <3>3. /\ \A b \in Attempts \ {a} : attempt'[b] = attempt[b]
          /\ attempt'[a].state = "creating" /\ attempt'[a].ref = FALSE
      BY <3>1, <3>2 DEF IInv, TypeOK
    <3>4. UNCHANGED page
      BY <1>10 DEF Create
    <3>5. Kept
      <4>1. \A b \in Attempts \ {a} : PageFits(b)' /\ Onward(b)
        BY <1>2, <1>3, <3>3, <3>4 DEF PageFits, Onward
      <4>2. PageFits(a)' /\ Onward(a)
        BY <1>2, <1>3, <3>1, <3>3, <3>4 DEF PageFits, Onward, TakenStates, Recording
      <4> QED BY <4>1, <4>2 DEF Kept
    <3>6. req'[c].step = "call" /\ req'[c].held = a
      BY <1>1, <3>1 DEF Pressed
    <3>7. \A d \in Customers : RequestFits(d)'
      BY <1>3, <3>1, <3>3, <3>5, <3>6, RequestSteps DEF Making
    <3> QED BY <1>3, <3>5, <3>7, AsksStand, RunsStand DEF Fits, Kept
  <2> QED BY <2>1, <2>2
<1>11. CASE CallProvider(c)
  <2>1. PICK a \in Attempts : a = req[c].held /\ req[c].step = "call" /\ attempt[a].state = "creating"
    BY <1>2, <1>11 DEF CallProvider, RequestFits
  <2>2. /\ attempt' = attempt
        /\ \/ page' = [page EXCEPT ![a].state = "open"] /\ Goes(c, "opened")
           \/ page' = page /\ Goes(c, "failing")
           \/ page' = [page EXCEPT ![a].state = "open"] /\ Goes(c, "failing")
           \/ page' = [page EXCEPT ![a].state = "open"] /\ Goes(c, "refusing")
    BY <1>11, <2>1 DEF CallProvider
  <2>3. /\ req'[c].step \in {"opened", "failing", "refusing"} /\ req'[c].held = a
        /\ req'[c].step \in {"opened", "refusing"} => page' = [page EXCEPT ![a].state = "open"]
    BY <1>1, <2>1, <2>2 DEF Goes, Pressed
  <2>4. /\ \A b \in Attempts \ {a} : page'[b] = page[b]
        /\ page'[a].shown = page[a].shown
        /\ page'[a].state = page[a].state \/ page'[a].state = "open"
        /\ req'[c].step \in {"opened", "refusing"} => page'[a].state = "open"
    BY <2>1, <2>2, <2>3 DEF IInv, TypeOK, Page
  <2>5. Kept /\ Creating
    <3>1. \A b \in Attempts \ {a} : PageFits(b)' /\ Onward(b)
      BY <1>2, <1>3, <2>2, <2>4 DEF PageFits, Onward
    <3>2. ~attempt[a].ref
      BY <1>2, <2>1 DEF PageFits
    <3>3. PageFits(a)'
      BY <1>2, <1>3, <2>1, <2>2, <2>4, <3>2 DEF PageFits, TakenStates
    <3>4. Onward(a)
      BY <1>2, <1>3, <2>1, <2>2, <2>4, <3>2 DEF PageFits, Onward, Recording
    <3> QED BY <2>2, <3>1, <3>3, <3>4 DEF Kept, Creating
  <2>6. \A d \in Customers : RequestFits(d)'
    BY <1>3, <2>1, <2>2, <2>3, <2>4, <2>5, RequestSteps DEF Making
  <2> QED BY <1>3, <2>5, <2>6, AsksStand, RunsStand DEF Fits, Kept
<1>12. CASE Opened(c)
  <2>1. PICK a \in Attempts :
          a = req[c].held /\ req[c].step = "opened" /\ attempt[a].state = "creating" /\ page[a].state # "none"
    BY <1>2, <1>12 DEF Opened, RequestFits
  <2>2. /\ attempt' = [Moved(a, "open") EXCEPT ![a] = [Moved(a, "open")[a] EXCEPT !.ref = TRUE, !.url = TRUE]]
        /\ page' = [page EXCEPT ![a].shown = TRUE]
    BY <1>12, <2>1 DEF Opened, Moves
  <2>3. req'[c].step = "idle"
    BY <1>1, <1>12 DEF Opened, Answered, NoRequest
  <2>4. Moved(a, "open") \in [Attempts -> Row]
    BY <2>1, MovedTyped DEF IInv, States
  <2>5. \A b \in Attempts \ {a} : attempt'[b] = attempt[b]
    BY <2>2, <2>4 DEF IInv, TypeOK, Moved
  <2>6. attempt'[a].state = "open" /\ attempt'[a].ref /\ attempt'[a].url
    <3>1. Moved(a, "open")[a].state = "open"
      BY <2>1 DEF IInv, TypeOK, Moved, Moves, Row
    <3> QED BY <2>1, <2>2, <2>4, <3>1 DEF Row
  <2>7. /\ \A b \in Attempts \ {a} : page'[b] = page[b]
        /\ page'[a].shown /\ page'[a].state = page[a].state
    BY <2>1, <2>2 DEF IInv, TypeOK, Page
  <2>8. Kept
    <3>1. \A b \in Attempts \ {a} : PageFits(b)' /\ Onward(b)
      BY <1>2, <1>3, <2>5, <2>7 DEF PageFits, Onward
    <3>2. PageFits(a)'
      BY <1>2, <1>3, <2>1, <2>6, <2>7 DEF PageFits, TakenStates, Recording
    <3>3. Onward(a)
      BY <1>2, <1>3, <2>1, <2>6, <2>7 DEF PageFits, Onward, Recording
    <3> QED BY <3>1, <3>2, <3>3 DEF Kept
  <2>9. \A d \in Customers : RequestFits(d)'
    BY <1>3, <2>1, <2>3, <2>5, <2>8, RequestSteps DEF Making
  <2> QED BY <1>3, <2>8, <2>9, AsksStand, RunsStand DEF Fits, Kept
<1>13. CASE FailCreate(c)
  <2>1. req[c].step = "failing" /\ req[c].held \in Attempts
    BY <1>2, <1>13 DEF FailCreate, RequestFits
  <2>2. attempt' = Moved(req[c].held, "failed") /\ UNCHANGED page
    BY <1>13 DEF FailCreate
  <2>3. Kept
    BY <1>3, <2>1, <2>2, MovedFits DEF States
  <2>4. \A b \in Attempts \ {req[c].held} : attempt'[b] = attempt[b]
    BY <2>1, <2>2, MovedRow DEF IInv, States
  <2>5. req'[c].step = "idle"
    BY <1>1, <1>13 DEF FailCreate, Answered, NoRequest
  <2>6. \A d \in Customers : RequestFits(d)'
    BY <1>3, <2>1, <2>3, <2>4, <2>5, RequestSteps DEF Making
  <2> QED BY <1>3, <2>3, <2>6, AsksStand, RunsStand DEF Fits, Kept
<1>14. CASE RequestDies(c)
  <2>1. req'[c].step = "idle"
    BY <1>1, <1>14 DEF RequestDies, Answered, NoRequest
  <2> QED BY <1>3, <1>14, <2>1, NothingKept, RequestElsewhere DEF RequestDies
<1>15. CASE RefuseRedirect(c)
  <2>1. PICK a \in Attempts : a = req[c].held /\ req[c].step = "refusing" /\ attempt[a].state = "creating" /\ page[a].state # "none"
    BY <1>2, <1>15 DEF RefuseRedirect, RequestFits
  <2>2. attempt' = [Moved(a, "failed") EXCEPT ![a] = [Moved(a, "failed")[a] EXCEPT !.ref = TRUE]] /\ UNCHANGED page
    BY <1>15, <2>1 DEF RefuseRedirect, Moves
  <2>3. req'[c].step = "idle"
    BY <1>1, <1>15 DEF RefuseRedirect, Answered, NoRequest
  <2>4. Moved(a, "failed") \in [Attempts -> Row]
    BY <2>1, MovedTyped DEF IInv, States
  <2>5. \A b \in Attempts \ {a} : attempt'[b] = attempt[b]
    BY <2>2, <2>4 DEF IInv, TypeOK, Moved
  <2>6. attempt'[a].state = "failed" /\ attempt'[a].ref
    <3>1. Moved(a, "failed")[a].state = "failed"
      BY <2>1 DEF IInv, TypeOK, Moved, Moves, Row
    <3> QED BY <2>1, <2>2, <2>4, <3>1 DEF Row
  <2>7. Kept
    <3>1. \A b \in Attempts \ {a} : PageFits(b)' /\ Onward(b)
      BY <1>2, <1>3, <2>2, <2>5 DEF PageFits, Onward
    <3>2. PageFits(a)'
      BY <1>2, <1>3, <2>1, <2>2, <2>6 DEF PageFits, TakenStates, Recording
    <3>3. Onward(a)
      BY <1>2, <1>3, <2>1, <2>2, <2>6 DEF PageFits, Onward, Recording
    <3> QED BY <3>1, <3>2, <3>3 DEF Kept
  <2>8. \A d \in Customers : RequestFits(d)'
    BY <1>3, <2>1, <2>3, <2>5, <2>7, RequestSteps DEF Making
  <2> QED BY <1>3, <2>7, <2>8, AsksStand, RunsStand DEF Fits, Kept
<1> QED BY <1>4, <1>5, <1>6, <1>7, <1>8, <1>9, <1>10, <1>11, <1>12, <1>13, <1>14, <1>15 DEF Request

\* A settle's step leaves the other settles, the requests and the runs alone.
LEMMA OwnAsk ==
  ASSUME IInv, NEW s \in Settlers, (\E a \in Attempts : Ask(s, a)) \/ Settle(s) \/ SettleDies(s)
  PROVE  /\ \A t \in Settlers \ {s} : ask'[t] = ask[t]
         /\ UNCHANGED <<rows, req, rec>>
<1>1. ask \in [Settlers -> Asked]
  BY DEF IInv, TypeOK
<1>2. CASE \E a \in Attempts : Ask(s, a)
  BY <1>1, <1>2 DEF Ask
<1>3. CASE CallSettle(s)
  BY <1>1, <1>3 DEF CallSettle, AskEnds
<1>4. CASE NextTry(s)
  BY <1>1, <1>4 DEF NextTry, AskGoes
<1>5. CASE ApplyAnswer(s)
  BY <1>1, <1>5 DEF ApplyAnswer, AskEnds
<1>6. CASE LockLink(s)
  BY <1>1, <1>6 DEF LockLink
<1>7. CASE ApplySuccess(s)
  BY <1>1, <1>7 DEF ApplySuccess, AskGoes, AskEnds
<1>8. CASE Take(s)
  BY <1>1, <1>8 DEF Take, AskGoes, AskEnds
<1>9. CASE TakeBack(s)
  BY <1>1, <1>9 DEF TakeBack, AskGoes, AskEnds
<1>10. CASE Queue(s)
  BY <1>1, <1>10 DEF Queue, AskEnds
<1>11. CASE SettleDies(s)
  BY <1>1, <1>11 DEF SettleDies, AskEnds
<1>12. CASE FlagTwo(s)
  BY <1>1, <1>12 DEF FlagTwo, AskGoes, AskEnds
<1> QED BY <1>2, <1>3, <1>4, <1>5, <1>6, <1>7, <1>8, <1>9, <1>10, <1>11, <1>12 DEF Settle

\* A settle goes on with the same attempt and answer, or is over.
LEMMA SettleGoesOn ==
  ASSUME IInv, NEW s \in Settlers, Kept, Creating,
         \A t \in Settlers \ {s} : ask'[t] = ask[t],
         UNCHANGED <<req, rec>>,
         \/ ask'[s].step = "idle"
         \/ /\ ask[s].step # "idle" /\ ask'[s].a = ask[s].a /\ ask'[s].answer = ask[s].answer
            /\ ask'[s].step \in {"take", "takeback", "flag", "queue"} => ask[s].answer = "succeeded"
  PROVE  Fits'
<1>1. AskFits(s)
  BY DEF IInv
<1>2. AskFits(s)'
  <2>1. CASE ask'[s].step = "idle"
    BY <2>1 DEF AskFits
  <2>2. CASE ask'[s].step # "idle"
    <3>1. ask[s].a \in Attempts /\ Onward(ask[s].a)
      BY <1>1, <2>2 DEF AskFits, Kept
    <3> QED BY <1>1, <2>2, <3>1 DEF AskFits, Onward
  <2> QED BY <2>1, <2>2
<1>3. \A t \in Settlers : AskFits(t)'
  BY <1>2, AsksStand
<1> QED BY <1>3, MakersStand, RunsStand DEF Fits, Kept

\* Where a settle goes or ends, of its own steps.
LEMMA AskStep ==
  ASSUME IInv, NEW s \in Settlers
  PROVE  /\ AskEnds(s) => ask'[s].step = "idle"
         /\ \A step : AskGoes(s, step) => ask'[s].step = step /\ ask'[s].a = ask[s].a /\ ask'[s].answer = ask[s].answer
<1>1. ask \in [Settlers -> Asked] /\ ask[s] \in Asked
  BY DEF IInv, TypeOK
<1>2. ASSUME AskEnds(s) PROVE ask'[s].step = "idle"
  BY <1>1, <1>2 DEF AskEnds, NoAsk
<1>3. ASSUME NEW step, AskGoes(s, step)
      PROVE  ask'[s].step = step /\ ask'[s].a = ask[s].a /\ ask'[s].answer = ask[s].answer
  BY <1>1, <1>3 DEF AskGoes, Asked
<1> QED BY <1>2, <1>3

\* A success is written on a row whose page took the money.
LEMMA SucceedFits ==
  ASSUME IInv, NEW a \in Attempts, page[a].state = "paid", attempt[a].ref, UNCHANGED <<page, rows>>,
         \/ attempt' = attempt
         \/ /\ attempt[a].state \in Moves("succeeded")
            /\ \A b \in Attempts \ {a} : attempt'[b] = attempt[b]
            /\ attempt'[a].state = "succeeded" /\ attempt'[a].ref /\ attempt'[a].url = attempt[a].url
  PROVE  Kept /\ Creating
<1>1. CASE attempt' = attempt
  BY <1>1, NothingKept
<1>2. CASE attempt' # attempt
  <2>1. \A b \in Attempts : PageFits(b)
    BY DEF IInv
  <2>2. \A b \in Attempts \ {a} : PageFits(b)' /\ Onward(b)
    BY <1>2, <2>1 DEF PageFits, Onward
  <2>3. attempt[a].state \in {"open", "processing", "expired", "failed"}
    BY <1>2 DEF Moves
  <2>4. PageFits(a)' /\ Onward(a)
    BY <1>2, <2>1, <2>3 DEF PageFits, Onward, TakenStates, Recording
  <2> QED BY <1>2, <2>2, <2>3, <2>4 DEF Kept, Creating
<1> QED BY <1>1, <1>2

LEMMA SettleKeeps ==
  ASSUME IInv, NEW s \in Settlers, (\E a \in Attempts : Ask(s, a)) \/ Settle(s) \/ SettleDies(s)
  PROVE  Fits'
<1>1. ask \in [Settlers -> Asked] /\ ask[s] \in Asked
  BY DEF IInv, TypeOK
<1>2. AskFits(s) /\ \A a \in Attempts : PageFits(a)
  BY DEF IInv
<1>3. (\A t \in Settlers \ {s} : ask'[t] = ask[t]) /\ UNCHANGED <<rows, req, rec>>
  BY OwnAsk
<1>4. CASE \E a \in Attempts : Ask(s, a)
  <2>1. PICK a \in Attempts : Ask(s, a)
    BY <1>4
  <2>2. Kept /\ Creating
    BY <2>1, NothingKept DEF Ask
  <2>3. ask'[s].step = "call" /\ ask'[s].a = a /\ ask'[s].answer = "none" /\ attempt'[a].ref
    BY <1>1, <2>1 DEF Ask, NoAsk
  <2>4. AskFits(s)'
    BY <2>3 DEF AskFits
  <2> QED BY <1>3, <2>2, <2>4, MakersStand, AsksStand, RunsStand DEF Fits, Kept
<1>5. CASE CallSettle(s)
  <2>1. PICK a \in Attempts : a = ask[s].a /\ attempt[a].ref
    BY <1>2, <1>5 DEF CallSettle, AskFits
  <2>2. PICK answer \in {"pending", "processing", "succeeded", "failed", "expired"} :
          /\ IF ask[s].owes /\ page[a].state = "approved" THEN Capture(a, ask[s].try, answer)
             ELSE answer = Status(a) /\ UNCHANGED page
          /\ \/ ask' = [ask EXCEPT ![s] =
                  [@ EXCEPT !.step = IF ask[s].owes /\ answer = "failed" THEN "retry" ELSE "apply", !.answer = answer]]
             \/ AskEnds(s)
    BY <1>5, <2>1 DEF CallSettle
  <2>3. attempt' = attempt
    BY <1>5 DEF CallSettle
  <2>4. page[a] \in Page /\ page \in [Attempts -> Page]
    BY DEF IInv, TypeOK
  <2>5. /\ Kept /\ Creating
        /\ answer = "succeeded" => page'[a].state = "paid"
        /\ answer = "expired" => page'[a].state = "ended"
    <3>1. CASE answer = "succeeded" /\ page[a].state = "approved" /\ page' = [page EXCEPT ![a].state = "paid"]
      <4>1. page[a].shown
        BY <1>2, <3>1 DEF PageFits
      <4>2. Kept /\ Creating
        BY <1>3, <2>3, <3>1, <4>1, PageGoesOn DEF PageStates
      <4> QED BY <2>4, <3>1, <4>2 DEF Page
    <3>2. CASE answer = "failed" /\ page' = [page EXCEPT ![a].declined = @ \cup {ask[s].try}]
      <4>1. \A b \in Attempts : page'[b].state = page[b].state /\ page'[b].shown = page[b].shown
        BY <2>4, <3>2 DEF Page
      <4>2. \A b \in Attempts : PageFits(b)' /\ Onward(b)
        BY <1>2, <1>3, <2>3, <4>1 DEF PageFits, Onward
      <4> QED BY <2>3, <3>2, <4>2 DEF Kept, Creating
    <3>3. CASE page' = page /\ (answer = "failed" \/ answer = Status(a))
      <4>1. Kept /\ Creating
        BY <1>3, <2>3, <3>3, NothingKept
      <4>2. page[a].state # "none"
        BY <1>2, <2>1 DEF PageFits
      <4>3. Status(a) = "succeeded" => page[a].state = "paid"
        BY <2>4 DEF Status, Page, PageStates
      <4>4. Status(a) = "expired" => page[a].state = "ended"
        BY <2>4, <4>2 DEF Status, Page, PageStates
      <4> QED BY <3>3, <4>1, <4>3, <4>4
    <3> QED BY <2>2, <3>1, <3>2, <3>3 DEF Capture
  <2>6. AskFits(s)'
    <3>1. CASE AskEnds(s)
      <4>1. ask'[s].step = "idle"
        BY <3>1, AskStep
      <4> QED BY <4>1 DEF AskFits
    <3>2. CASE ~AskEnds(s)
      <4> DEFINE step == IF ask[s].owes /\ answer = "failed" THEN "retry" ELSE "apply"
      <4>1. ask' = [ask EXCEPT ![s] = [ask[s] EXCEPT !.step = step, !.answer = answer]]
        BY <2>2, <3>2
      <4>2. step \in {"retry", "apply"}
        OBVIOUS
      <4> HIDE DEF step
      <4>3. ask'[s].step = step /\ ask'[s].answer = answer /\ ask'[s].a = a
        BY <1>1, <2>1, <4>1 DEF Asked
      <4> QED BY <2>1, <2>3, <2>5, <4>2, <4>3 DEF AskFits
    <3> QED BY <3>1, <3>2
  <2>7. \A t \in Settlers : AskFits(t)'
    BY <1>3, <2>5, <2>6, AsksStand
  <2> QED BY <1>3, <2>5, <2>7, MakersStand, RunsStand DEF Fits, Kept
<1>6. CASE NextTry(s)
  <2>1. PICK a \in Attempts : a = ask[s].a
    BY <1>2, <1>6 DEF NextTry, AskFits
  <2>2. attempt' = attempt \/ attempt' = [attempt EXCEPT ![a].try = @ + 1]
    BY <1>6, <2>1 DEF NextTry
  <2>3. attempt[a] \in Row /\ attempt \in [Attempts -> Row]
    BY DEF IInv, TypeOK
  <2>4. \A b \in Attempts : /\ attempt'[b].state = attempt[b].state /\ attempt'[b].ref = attempt[b].ref
                            /\ attempt'[b].url = attempt[b].url
    BY <2>2, <2>3 DEF Row
  <2>5. \A b \in Attempts : PageFits(b)' /\ Onward(b)
    BY <1>2, <1>3, <1>6, <2>4 DEF NextTry, PageFits, Onward
  <2>6. ask[s].step # "idle" /\ ask'[s].step = "apply" /\ ask'[s].a = ask[s].a /\ ask'[s].answer = ask[s].answer
    BY <1>6, AskStep DEF NextTry
  <2> QED BY <1>3, <2>4, <2>5, <2>6, SettleGoesOn DEF Kept, Creating
<1>7. CASE ApplyAnswer(s)
  <2>1. PICK a \in Attempts : a = ask[s].a /\ attempt[a].ref /\ (ask[s].answer = "expired" => page[a].state = "ended")
    BY <1>2, <1>7 DEF ApplyAnswer, AskFits
  <2>2. UNCHANGED page
    BY <1>7 DEF ApplyAnswer
  <2>3. Kept /\ Creating
    <3>1. CASE attempt' = attempt
      BY <1>3, <2>2, <3>1, NothingKept
    <3>2. CASE attempt' # attempt
      <4>1. PICK to \in {"processing", "failed", "expired"} : to = ask[s].answer /\ attempt' = Moved(a, to)
        BY <1>7, <2>1, <3>2 DEF ApplyAnswer
      <4>2. Kept
        BY <1>3, <2>1, <2>2, <4>1, MovedFits DEF States
      <4>3. attempt[a].state # "creating"
        BY <1>2, <2>1 DEF PageFits
      <4>4. \A b \in Attempts \ {a} : attempt'[b] = attempt[b]
        BY <4>1, MovedRow DEF IInv, States
      <4> QED BY <4>2, <4>3, <4>4 DEF Creating
    <3> QED BY <3>1, <3>2
  <2>4. \/ ask'[s].step = "idle"
        \/ ask'[s].step = "lock" /\ ask'[s].a = ask[s].a /\ ask'[s].answer = ask[s].answer
    <3>1. CASE AskEnds(s)
      BY <3>1, AskStep
    <3>2. CASE ask' = [ask EXCEPT ![s] = [@ EXCEPT !.step = "lock", !.left = Made]]
      BY <1>1, <3>2 DEF Asked
    <3> QED BY <1>7, <3>1, <3>2 DEF ApplyAnswer
  <2>5. ask[s].step # "idle"
    BY <1>7 DEF ApplyAnswer
  <2> QED BY <1>3, <2>3, <2>4, <2>5, SettleGoesOn
<1>8. CASE LockLink(s)
  <2>1. PICK a \in ask[s].left :
       /\ IF Swept(a) /\ attempt[a].state # "processing"
          THEN \E answer \in {"ended", "completed", "unknown"} :
                 /\ Expire(a, answer)
                 /\ attempt' = IF answer # "ended" THEN attempt
                               ELSE IF attempt[a].state = "open" THEN Moved(a, "expired")
                               ELSE [attempt EXCEPT ![a].url = FALSE]
          ELSE UNCHANGED <<attempt, page, faults>>
       /\ ask' = [ask EXCEPT ![s] = IF @.left = {a} THEN NoAsk ELSE [@ EXCEPT !.left = ask[s].left \ {a}]]
    BY <1>8 DEF LockLink
  <2>2. a \in Attempts
    BY <1>1 DEF Asked
  <2>3. Kept /\ Creating
    <3>1. CASE Swept(a) /\ attempt[a].state # "processing"
      <4>1. PICK answer \in {"ended", "completed", "unknown"} :
                 /\ Expire(a, answer)
                 /\ attempt' = IF answer # "ended" THEN attempt
                               ELSE IF attempt[a].state = "open" THEN Moved(a, "expired")
                               ELSE [attempt EXCEPT ![a].url = FALSE]
        BY <2>1, <3>1
      <4>2. \/ attempt' = attempt
            \/ answer = "ended" /\ attempt[a].state = "failed" /\ attempt' = [attempt EXCEPT ![a].url = FALSE]
            \/ answer = "ended" /\ attempt[a].state = "open" /\ attempt' = Moved(a, "expired")
        BY <3>1, <4>1 DEF Swept
      <4> QED BY <1>3, <2>2, <4>1, <4>2, ExpireFits
    <3>2. CASE ~(Swept(a) /\ attempt[a].state # "processing")
      <4>1. UNCHANGED <<attempt, page>>
        BY <2>1, <3>2
      <4> QED BY <1>3, <4>1, NothingKept
    <3> QED BY <3>1, <3>2
  <2>4. \/ ask'[s].step = "idle"
        \/ ask'[s].step = "lock" /\ ask'[s].a = ask[s].a /\ ask'[s].answer = ask[s].answer
    <3>1. CASE ask[s].left = {a}
      BY <1>1, <2>1, <3>1 DEF NoAsk
    <3>2. CASE ask[s].left # {a}
      <4>1. ask' = [ask EXCEPT ![s] = [ask[s] EXCEPT !.left = ask[s].left \ {a}]]
        BY <1>1, <2>1, <3>2
      <4> QED BY <1>1, <1>8, <4>1 DEF LockLink, Asked
    <3> QED BY <3>1, <3>2
  <2>5. ask[s].step # "idle"
    BY <1>8 DEF LockLink
  <2> QED BY <1>3, <2>3, <2>4, <2>5, SettleGoesOn
<1>9. CASE ApplySuccess(s)
  <2>1. Kept /\ Creating
    BY <1>9, NothingKept DEF ApplySuccess
  <2>2. \/ ask'[s].step = "idle"
        \/ ask'[s].a = ask[s].a /\ ask'[s].answer = ask[s].answer
    BY <1>9, AskStep DEF ApplySuccess
  <2>3. ask[s].step # "idle" /\ ask[s].answer = "succeeded"
    BY <1>9 DEF ApplySuccess
  <2> QED BY <1>3, <2>1, <2>2, <2>3, SettleGoesOn
<1>10. CASE Take(s) \/ TakeBack(s) \/ FlagTwo(s)
  <2>1. PICK a \in Attempts : a = ask[s].a /\ attempt[a].ref /\ page[a].state = "paid"
    BY <1>2, <1>10 DEF Take, TakeBack, FlagTwo, AskFits
  <2>2. UNCHANGED page
    BY <1>10 DEF Take, TakeBack, FlagTwo
  <2>3. attempt[a] \in Row /\ attempt \in [Attempts -> Row]
    BY DEF IInv, TypeOK
  <2>4. \/ attempt' = attempt
        \/ /\ attempt[a].state \in Moves("succeeded")
           /\ \A b \in Attempts \ {a} : attempt'[b] = attempt[b]
           /\ attempt'[a].state = "succeeded" /\ attempt'[a].ref /\ attempt'[a].url = attempt[a].url
    <3>1. CASE Take(s)
      <4>1. \/ attempt' = attempt
            \/ /\ attempt[a].state \in Moves("succeeded")
               /\ attempt' = [attempt EXCEPT ![a] = [attempt[a] EXCEPT !.state = "succeeded"]]
        BY <2>1, <3>1 DEF Take
      <4> QED BY <2>1, <2>3, <4>1 DEF Row
    <3>2. CASE TakeBack(s)
      <4> DEFINE row == [attempt[a] EXCEPT !.state = "succeeded", !.slot = TRUE]
      <4>1. \/ attempt' = attempt
            \/ /\ attempt[a].state \in Moves("succeeded")
               /\ attempt' = [attempt EXCEPT ![a] = row]
        BY <2>1, <3>2 DEF TakeBack
      <4>2. row.state = "succeeded" /\ row.ref = attempt[a].ref /\ row.url = attempt[a].url
        BY <2>3 DEF Row
      <4> HIDE DEF row
      <4> QED BY <2>1, <2>3, <4>1, <4>2
    <3>3. CASE FlagTwo(s)
      <4> DEFINE row == [attempt[a] EXCEPT !.state = "succeeded", !.flag = TRUE]
      <4>1. \/ attempt' = attempt
            \/ /\ attempt[a].state \in Moves("succeeded")
               /\ attempt' = [attempt EXCEPT ![a] = row]
        BY <2>1, <3>3 DEF FlagTwo
      <4>2. row.state = "succeeded" /\ row.ref = attempt[a].ref /\ row.url = attempt[a].url
        BY <2>3 DEF Row
      <4> HIDE DEF row
      <4> QED BY <2>1, <2>3, <4>1, <4>2
    <3> QED BY <1>10, <3>1, <3>2, <3>3
  <2>5. Kept /\ Creating
    BY <1>3, <2>1, <2>2, <2>4, SucceedFits
  <2>6. \/ ask'[s].step = "idle"
        \/ ask'[s].a = ask[s].a /\ ask'[s].answer = ask[s].answer
    BY <1>10, AskStep DEF Take, TakeBack, FlagTwo
  <2>7. ask[s].step # "idle" /\ ask[s].answer = "succeeded"
    BY <1>2, <1>10 DEF Take, TakeBack, FlagTwo, AskFits
  <2> QED BY <1>3, <2>5, <2>6, <2>7, SettleGoesOn
<1>11. CASE Queue(s) \/ SettleDies(s)
  <2>1. Kept /\ Creating
    BY <1>11, NothingKept DEF Queue, SettleDies
  <2>2. ask'[s].step = "idle"
    BY <1>11, AskStep DEF Queue, SettleDies
  <2> QED BY <1>3, <2>1, <2>2, SettleGoesOn
<1> QED BY <1>4, <1>5, <1>6, <1>7, <1>8, <1>9, <1>10, <1>11 DEF Settle

\* A run's step leaves the other runs, the requests and the settles alone.
LEMMA OwnRun ==
  ASSUME IInv, NEW r \in Recorders, (\E a \in Attempts : Claim(r, a)) \/ Record(r) \/ RunDies(r)
  PROVE  /\ \A q \in Recorders \ {r} : rec'[q] = rec[q]
         /\ UNCHANGED <<page, req, ask>>
<1>1. rec \in [Recorders -> Run]
  BY DEF IInv, TypeOK
<1>2. CASE \E a \in Attempts : Claim(r, a)
  BY <1>1, <1>2 DEF Claim
<1>3. CASE ReadDue(r)
  BY <1>1, <1>3 DEF ReadDue
<1>4. CASE LookWritten(r)
  BY <1>1, <1>4 DEF LookWritten, RunGoes
<1>5. CASE WriteRow(r)
  BY <1>1, <1>5 DEF WriteRow, RunGoes, RunTriesAgain
<1>6. CASE RefuseRecord(r)
  BY <1>1, <1>6 DEF RefuseRecord, RunEnds
<1>7. CASE Finish(r)
  BY <1>1, <1>7 DEF Finish, RunEnds
<1>8. CASE RunDies(r)
  BY <1>1, <1>8 DEF RunDies, RunTriesAgain
<1> QED BY <1>2, <1>3, <1>4, <1>5, <1>6, <1>7, <1>8 DEF Record

\* A run goes on with its attempt, or is over.
LEMMA RecordGoesOn ==
  ASSUME IInv, NEW r \in Recorders, Kept, Creating,
         \A q \in Recorders \ {r} : rec'[q] = rec[q],
         UNCHANGED <<req, ask>>,
         RunFits(r)'
  PROVE  Fits'
<1>1. \A q \in Recorders : RunFits(q)'
  BY RunsStand
<1> QED BY <1>1, MakersStand, AsksStand DEF Fits, Kept

\* Where a run goes or ends, of its own steps.
LEMMA RunStep ==
  ASSUME IInv, NEW r \in Recorders
  PROVE  /\ rec' = [rec EXCEPT ![r] = NoRun] => rec'[r].step = "idle"
         /\ \A step : RunGoes(r, step) => rec'[r].step = step /\ rec'[r].a = rec[r].a
<1>1. rec \in [Recorders -> Run] /\ rec[r] \in Run
  BY DEF IInv, TypeOK
<1>2. ASSUME rec' = [rec EXCEPT ![r] = NoRun] PROVE rec'[r].step = "idle"
  BY <1>1, <1>2 DEF NoRun
<1>3. ASSUME NEW step, RunGoes(r, step)
      PROVE  rec'[r].step = step /\ rec'[r].a = rec[r].a
  BY <1>1, <1>3 DEF RunGoes, Run
<1> QED BY <1>2, <1>3

\* A move of the record job's: no attempt in the making is touched.
LEMMA RecordMoves ==
  ASSUME IInv, NEW a \in Attempts, NEW to \in {"recording", "recorded", "record_refused"},
         attempt' = Moved(a, to), UNCHANGED <<page, rows>>, to = "recorded" => a \in rows
  PROVE  Kept /\ Creating
<1>1. Kept
  BY MovedFits DEF States
<1>2. Creating
  BY MovedRow DEF IInv, Creating, States, Moves
<1> QED BY <1>1, <1>2

LEMMA RecordKeeps ==
  ASSUME IInv, NEW r \in Recorders, (\E a \in Attempts : Claim(r, a)) \/ Record(r) \/ RunDies(r)
  PROVE  Fits'
<1>1. rec \in [Recorders -> Run] /\ rec[r] \in Run
  BY DEF IInv, TypeOK
<1>2. RunFits(r) /\ \A a \in Attempts : PageFits(a)
  BY DEF IInv
<1>3. (\A q \in Recorders \ {r} : rec'[q] = rec[q]) /\ UNCHANGED <<page, req, ask>>
  BY OwnRun
<1>4. CASE \E a \in Attempts : Claim(r, a)
  <2>1. PICK a \in Attempts : Claim(r, a)
    BY <1>4
  <2>2. CASE attempt[a].state \in {"succeeded", "recording"}
    <3>1. attempt' = Moved(a, "recording") /\ UNCHANGED rows
      BY <2>1, <2>2 DEF Claim
    <3>2. Kept /\ Creating
      BY <1>3, <3>1, RecordMoves
    <3>3. attempt'[a].state = "recording"
      BY <2>2, <3>1, MovedRow DEF IInv, States, Moves
    <3>4. rec'[r].step = "resolve" /\ rec'[r].a = a
      BY <1>1, <2>1, <2>2 DEF Claim, NoRun
    <3>5. RunFits(r)'
      BY <3>3, <3>4 DEF RunFits, Recording
    <3> QED BY <1>3, <3>2, <3>5, RecordGoesOn
  <2>3. CASE attempt[a].state \notin {"succeeded", "recording"}
    <3>1. UNCHANGED <<attempt, rows, rec>>
      BY <2>1, <2>3 DEF Claim
    <3>2. Kept /\ Creating
      BY <1>3, <3>1, NothingKept
    <3>3. RunFits(r)'
      BY <3>1, <3>2, RunsStand
    <3> QED BY <1>3, <3>2, <3>3, RecordGoesOn
  <2> QED BY <2>2, <2>3
<1>5. CASE ReadDue(r)
  <2>1. Kept /\ Creating
    BY <1>5, NothingKept DEF ReadDue
  <2>2. rec'[r].step = "look" /\ rec'[r].a = rec[r].a
    BY <1>1, <1>5 DEF ReadDue, Run
  <2>3. RunFits(r)'
    BY <1>2, <1>5, <2>2 DEF ReadDue, RunFits
  <2> QED BY <1>3, <2>1, <2>3, RecordGoesOn
<1>6. CASE LookWritten(r)
  <2>1. Kept /\ Creating
    BY <1>6, NothingKept DEF LookWritten
  <2>2. /\ rec'[r].a = rec[r].a
        /\ rec'[r].step \in {"write", "refuse"} \/ rec[r].a \in rows
    BY <1>6, RunStep DEF LookWritten
  <2>3. RunFits(r)'
    BY <1>2, <1>6, <2>2 DEF LookWritten, RunFits
  <2> QED BY <1>3, <2>1, <2>3, RecordGoesOn
<1>7. CASE WriteRow(r)
  <2>1. rec[r].a \in Attempts /\ attempt[rec[r].a].state \in Recording
    BY <1>2, <1>7 DEF WriteRow, RunFits
  <2>2. attempt' = attempt /\ (rows' = rows \/ rows' = rows \cup {rec[r].a})
    BY <1>7 DEF WriteRow
  <2>3. \A b \in Attempts : PageFits(b)' /\ Onward(b)
    BY <1>2, <1>3, <2>1, <2>2 DEF PageFits, Onward
  <2>4. Kept /\ Creating
    BY <2>2, <2>3 DEF Kept, Creating
  <2>5. \/ rec'[r].step = "idle"
        \/ rec'[r].a = rec[r].a /\ (rec'[r].step = "finish" => rec[r].a \in rows')
    BY <1>7, RunStep DEF WriteRow, RunTriesAgain
  <2>6. RunFits(r)'
    BY <2>1, <2>2, <2>5 DEF RunFits
  <2> QED BY <1>3, <2>4, <2>6, RecordGoesOn
<1>8. CASE RefuseRecord(r) \/ Finish(r)
  <2>1. PICK a \in Attempts : a = rec[r].a /\ (Finish(r) => a \in rows)
    BY <1>2, <1>8 DEF RefuseRecord, Finish, RunFits
  <2>2. PICK to \in {"recorded", "record_refused"} : attempt' = Moved(a, to) /\ (to = "recorded" => a \in rows)
    BY <1>8, <2>1 DEF RefuseRecord, Finish
  <2>3. UNCHANGED rows
    BY <1>8 DEF RefuseRecord, Finish
  <2>4. Kept /\ Creating
    BY <1>3, <2>2, <2>3, RecordMoves
  <2>5. rec'[r].step = "idle"
    BY <1>8, RunStep DEF RefuseRecord, Finish, RunEnds
  <2>6. RunFits(r)'
    BY <2>5 DEF RunFits
  <2> QED BY <1>3, <2>4, <2>6, RecordGoesOn
<1>9. CASE RunDies(r)
  <2>1. Kept /\ Creating
    BY <1>9, NothingKept DEF RunDies
  <2>2. rec'[r].step = "idle"
    BY <1>9, RunStep DEF RunDies, RunTriesAgain
  <2>3. RunFits(r)'
    BY <2>2 DEF RunFits
  <2> QED BY <1>3, <2>1, <2>3, RecordGoesOn
<1> QED BY <1>4, <1>5, <1>6, <1>7, <1>8, <1>9 DEF Record

LEMMA OthersKeep ==
  ASSUME IInv, NEW a \in Attempts, Abandon(a) \/ Dropped(a) \/ PickUp(a) \/ Check(a)
  PROVE  Fits'
<1>1. attempt[a] \in Row /\ attempt \in [Attempts -> Row]
  BY DEF IInv, TypeOK
<1>2. UNCHANGED <<page, rows, req, ask, rec>>
  BY DEF Abandon, Dropped, PickUp, Check
<1>3. \A b \in Attempts : PageFits(b)
  BY DEF IInv
<1>4. CASE Abandon(a)
  <2>1. /\ \A b \in Attempts \ {a} : attempt'[b] = attempt[b]
        /\ attempt[a].state = "creating" /\ ~attempt[a].ref
        /\ attempt'[a].state = "abandoned" /\ attempt'[a].ref = attempt[a].ref
    BY <1>1, <1>4 DEF Abandon, Row
  <2>2. \A b \in Attempts \ {a} : PageFits(b)' /\ Onward(b)
    BY <1>2, <1>3, <2>1 DEF PageFits, Onward
  <2>3. PageFits(a)' /\ Onward(a)
    BY <1>2, <1>3, <2>1 DEF PageFits, Onward, TakenStates, Recording
  <2>4. Kept
    BY <2>2, <2>3 DEF Kept
  <2>5. \A c \in Customers : req[c].step \in Making => attempt'[req[c].held].state = "creating"
    BY <1>4, <2>1 DEF Abandon, IInv, RequestFits, Making
  <2> QED BY <1>2, <2>4, <2>5, RequestsStand, AsksStand, RunsStand DEF Fits, Kept
<1>5. CASE Dropped(a) \/ PickUp(a)
  <2>1. UNCHANGED attempt
    BY <1>5 DEF Dropped, PickUp
  <2> QED BY <1>2, <2>1, NothingKept, MakersStand, AsksStand, RunsStand DEF Fits, Kept
<1>6. CASE Check(a)
  <2>1. \A b \in Attempts : /\ attempt'[b].state = attempt[b].state /\ attempt'[b].ref = attempt[b].ref
                            /\ attempt'[b].url = attempt[b].url
    BY <1>1, <1>6 DEF Check, Row
  <2>2. \A b \in Attempts : PageFits(b)' /\ Onward(b)
    BY <1>2, <1>3, <2>1 DEF PageFits, Onward
  <2>3. Kept /\ Creating
    BY <2>1, <2>2 DEF Kept, Creating
  <2> QED BY <1>2, <2>3, MakersStand, AsksStand, RunsStand DEF Fits, Kept
<1> QED BY <1>4, <1>5, <1>6

LEMMA InitHolds == Init => IInv
<1> SUFFICES ASSUME Init
             PROVE  IInv
  OBVIOUS
<1>1. TypeOK
  BY RestTyped, CheckoutAssumption DEF Init, TypeOK
<1>2. \A a \in Attempts : PageFits(a)
  BY DEF Init, PageFits, NoRow, NoPage, TakenStates
<1>3. \A c \in Customers : RequestFits(c)
  BY DEF Init, RequestFits, NoRequest
<1>4. \A s \in Settlers : AskFits(s)
  BY DEF Init, AskFits, NoAsk
<1>5. \A r \in Recorders : RunFits(r)
  BY DEF Init, RunFits, NoRun
<1> QED BY <1>1, <1>2, <1>3, <1>4, <1>5 DEF IInv

LEMMA StepHolds == IInv /\ [Next]_vars => IInv'
<1> SUFFICES ASSUME IInv, [Next]_vars
             PROVE  IInv'
  OBVIOUS
<1>1. TypeOK'
  BY NextTyped
<1>2. Fits'
  <2>1. CASE Provider
    BY <2>1, ProviderFits DEF Provider
  <2>2. CASE \E c \in Customers : Press(c) \/ Request(c) \/ RequestDies(c)
    BY <2>2, RequestKeeps
  <2>3. CASE \E s \in Settlers : (\E a \in Attempts : Ask(s, a)) \/ Settle(s) \/ SettleDies(s)
    BY <2>3, SettleKeeps
  <2>4. CASE \E r \in Recorders : (\E a \in Attempts : Claim(r, a)) \/ Record(r) \/ RunDies(r)
    BY <2>4, RecordKeeps
  <2>5. CASE \E a \in Attempts : Abandon(a) \/ Dropped(a) \/ PickUp(a) \/ Check(a)
    BY <2>5, OthersKeep
  <2>6. CASE RecordByHand \/ UNCHANGED vars
    <3>1. UNCHANGED <<attempt, page, rows, req, ask, rec>>
      BY <2>6 DEF RecordByHand, vars
    <3> QED BY <3>1, NothingKept, MakersStand, AsksStand, RunsStand DEF Fits, Kept
  <2> QED BY <2>1, <2>2, <2>3, <2>4, <2>5, <2>6 DEF Next
<1> QED BY <1>1, <1>2 DEF IInv, Fits

LEMMA Invariant == Spec => []IInv
BY InitHolds, StepHolds, PTL DEF Spec

\* Tables, pages and processes are what they are declared to be, whatever the
\* order of the steps and whatever fails.
THEOREM TypeCorrect == Spec => []TypeOK
<1>1. IInv => TypeOK
  BY DEF IInv
<1> QED BY <1>1, Invariant, PTL

\* Taken money is never left unrecorded: an attempt whose page took the money is
\* one the sweep still asks about, or its money is with the record job, for any
\* number of attempts, requests and settles and whatever answers are lost.
THEOREM TakenAlwaysFollowed == Spec => []TakenIsFollowed
<1>1. IInv => TakenIsFollowed
  <2> SUFFICES ASSUME IInv, NEW a \in Attempts, page[a].state = "paid"
               PROVE  Swept(a) \/ attempt[a].state \in TakenStates
    BY DEF TakenIsFollowed
  <2>1. PageFits(a) /\ attempt[a] \in Row
    BY DEF IInv, TypeOK
  <2>2. attempt[a].ref /\ attempt[a].state \notin {"none", "creating", "abandoned", "expired"}
    BY <2>1 DEF PageFits
  <2>3. attempt[a].state = "failed" => attempt[a].url
    BY <2>1, <2>2 DEF PageFits, Row
  <2> QED BY <2>1, <2>2, <2>3 DEF Swept, TakenStates, Row, States
<1> QED BY <1>1, Invariant, PTL

-----------------------------------------------------------------------------
(* Steps that neither take money nor record it *)

PagesQuiet == \A a \in Attempts : page'[a].state = "paid" <=> page[a].state = "paid"

RowsQuiet == \A a \in Attempts, state \in {"recording", "record_refused"} :
               attempt'[a].state = state <=> attempt[a].state = state

\* A move made by a request or a settle.
LEMMA MovedQuiet ==
  ASSUME IInv, NEW a \in Attempts, NEW to \in {"open", "processing", "succeeded", "failed", "expired"},
         attempt' = Moved(a, to)
  PROVE  RowsQuiet
<1>1. to \in States
  BY DEF States
<1>2. /\ \A b \in Attempts \ {a} : attempt'[b] = attempt[b]
      /\ attempt'[a].state = IF attempt[a].state \in Moves(to) THEN to ELSE attempt[a].state
  BY <1>1, MovedRow DEF IInv
<1>3. Moves(to) \subseteq {"creating", "open", "processing", "expired", "failed"}
  BY DEF Moves
<1> QED BY <1>2, <1>3 DEF RowsQuiet

LEMMA ExpireQuiet ==
  ASSUME IInv, NEW a \in Attempts, NEW answer, Expire(a, answer)
  PROVE  PagesQuiet
<1>1. page[a] \in Page /\ page \in [Attempts -> Page]
  BY DEF IInv, TypeOK
<1>2. page' = page \/ (Ending(a) = "ended" /\ page' = [page EXCEPT ![a].state = "ended"])
  BY DEF Expire
<1>3. Ending(a) = "ended" => page[a].state # "paid"
  BY <1>1 DEF Ending
<1> QED BY <1>1, <1>2, <1>3 DEF PagesQuiet, Page

LEMMA ClearedQuiet ==
  ASSUME IInv, NEW a \in Attempts, attempt' = [attempt EXCEPT ![a].url = FALSE]
  PROVE  RowsQuiet
BY DEF IInv, TypeOK, Row, RowsQuiet

LEMMA SameQuiet ==
  /\ UNCHANGED attempt => RowsQuiet
  /\ UNCHANGED page => PagesQuiet
BY DEF RowsQuiet, PagesQuiet

LEMMA RequestQuiet ==
  ASSUME IInv, NEW c \in Customers, Press(c) \/ Request(c) \/ RequestDies(c)
  PROVE  PagesQuiet /\ RowsQuiet
<1>1. RequestFits(c) /\ \A a \in Attempts : PageFits(a)
  BY DEF IInv
<1>2. CASE Press(c) \/ LookHeld(c) \/ LookRecent(c) \/ RequestDies(c)
  BY <1>2, SameQuiet DEF Press, LookHeld, LookRecent, RequestDies
<1>3. CASE EndHeld(c)
  <2>1. req[c].held \in Attempts
    BY <1>1, <1>3 DEF EndHeld, RequestFits
  <2> QED BY <1>3, <2>1, ExpireQuiet, SameQuiet DEF EndHeld
<1>4. CASE ExpireHeld(c)
  <2>1. req[c].held \in Attempts
    BY <1>1, <1>4 DEF ExpireHeld, RequestFits
  <2> QED BY <1>4, <2>1, MovedQuiet, SameQuiet DEF ExpireHeld
<1>5. CASE EndDeclined(c)
  <2>1. PICK a \in req[c].left, answer \in {"ended", "completed", "unknown"} :
          /\ Expire(a, answer)
          /\ attempt' = [attempt EXCEPT ![a].url = FALSE] \/ attempt' = attempt
    BY <1>5 DEF EndDeclined
  <2>2. a \in Attempts
    BY DEF IInv, TypeOK, Pressed
  <2> QED BY <2>1, <2>2, ExpireQuiet, ClearedQuiet, SameQuiet
<1>6. CASE Create(c)
  <2>1. UNCHANGED page
    BY <1>6 DEF Create
  <2>2. CASE UNCHANGED attempt
    BY <2>1, <2>2, SameQuiet
  <2>3. CASE ~UNCHANGED attempt
    <3> DEFINE row == [NoRow EXCEPT !.state = "creating", !.slot = TRUE, !.amount = req[c].due]
    <3>1. PICK a \in Attempts : attempt[a].state = "none" /\ attempt' = [attempt EXCEPT ![a] = row]
      BY <1>6, <2>3 DEF Create, Made
    <3>2. row.state = "creating"
      BY DEF NoRow
    <3> HIDE DEF row
    <3> QED BY <2>1, <3>1, <3>2, SameQuiet DEF RowsQuiet, IInv, TypeOK
  <2> QED BY <2>2, <2>3
<1>7. CASE CallProvider(c)
  <2>1. PICK a \in Attempts : a = req[c].held /\ attempt[a].state = "creating"
    BY <1>1, <1>7 DEF CallProvider, RequestFits
  <2>2. page[a].state # "paid"
    BY <1>1, <2>1 DEF PageFits
  <2>3. page' = page \/ page' = [page EXCEPT ![a].state = "open"]
    BY <1>7, <2>1 DEF CallProvider
  <2>4. PagesQuiet
    BY <2>2, <2>3 DEF PagesQuiet, IInv, TypeOK, Page
  <2> QED BY <1>7, <2>4, SameQuiet DEF CallProvider
<1>8. CASE Opened(c)
  <2>1. PICK a \in Attempts : a = req[c].held /\ attempt[a].state = "creating"
    BY <1>1, <1>8 DEF Opened, RequestFits
  <2>2. /\ attempt' = [Moved(a, "open") EXCEPT ![a] = [Moved(a, "open")[a] EXCEPT !.ref = TRUE, !.url = TRUE]]
        /\ page' = [page EXCEPT ![a].shown = TRUE]
    BY <1>8, <2>1 DEF Opened, Moves
  <2>3. Moved(a, "open") \in [Attempts -> Row] /\ Moved(a, "open")[a].state = "open"
    <3>1. Moved(a, "open") \in [Attempts -> Row]
      BY MovedTyped DEF IInv, States
    <3>2. Moved(a, "open")[a].state = "open"
      BY <2>1 DEF IInv, TypeOK, Moved, Moves, Row
    <3> QED BY <3>1, <3>2
  <2>4. \A b \in Attempts \ {a} : attempt'[b] = attempt[b]
    BY <2>2, <2>3 DEF IInv, TypeOK, Moved
  <2>5. attempt'[a].state = "open"
    BY <2>2, <2>3 DEF Row
  <2>6. PagesQuiet
    BY <2>2 DEF IInv, TypeOK, Page, PagesQuiet
  <2> QED BY <2>1, <2>4, <2>5, <2>6 DEF RowsQuiet
<1>9. CASE FailCreate(c)
  <2>1. req[c].held \in Attempts
    BY <1>1, <1>9 DEF FailCreate, RequestFits
  <2> QED BY <1>9, <2>1, MovedQuiet, SameQuiet DEF FailCreate
<1>10. CASE RefuseRedirect(c)
  <2>1. PICK a \in Attempts : a = req[c].held /\ attempt[a].state = "creating"
    BY <1>1, <1>10 DEF RefuseRedirect, RequestFits
  <2>2. attempt' = [Moved(a, "failed") EXCEPT ![a] = [Moved(a, "failed")[a] EXCEPT !.ref = TRUE]]
    BY <1>10, <2>1 DEF RefuseRedirect, Moves
  <2>3. Moved(a, "failed") \in [Attempts -> Row] /\ Moved(a, "failed")[a].state = "failed"
    <3>1. Moved(a, "failed") \in [Attempts -> Row]
      BY MovedTyped DEF IInv, States
    <3>2. Moved(a, "failed")[a].state = "failed"
      BY <2>1 DEF IInv, TypeOK, Moved, Moves, Row
    <3> QED BY <3>1, <3>2
  <2>4. \A b \in Attempts \ {a} : attempt'[b] = attempt[b]
    BY <2>2, <2>3 DEF IInv, TypeOK, Moved
  <2>5. attempt'[a].state = "failed"
    BY <2>2, <2>3 DEF Row
  <2>6. PagesQuiet
    BY <1>10, SameQuiet DEF RefuseRedirect
  <2> QED BY <2>1, <2>4, <2>5, <2>6 DEF RowsQuiet
<1> QED BY <1>2, <1>3, <1>4, <1>5, <1>6, <1>7, <1>8, <1>9, <1>10 DEF Request

LEMMA SettleQuiet ==
  ASSUME IInv, NEW s \in Settlers, (\E a \in Attempts : Ask(s, a)) \/ Settle(s) \/ SettleDies(s)
  PROVE  RowsQuiet /\ (~CallSettle(s) => PagesQuiet)
<1>1. AskFits(s)
  BY DEF IInv
<1>2. attempt \in [Attempts -> Row]
  BY DEF IInv, TypeOK
<1>3. CASE (\E a \in Attempts : Ask(s, a)) \/ ApplySuccess(s) \/ Queue(s) \/ SettleDies(s)
  BY <1>3, SameQuiet DEF Ask, ApplySuccess, Queue, SettleDies
<1>4. CASE CallSettle(s)
  BY <1>4, SameQuiet DEF CallSettle
<1>5. CASE NextTry(s)
  <2>1. attempt' = attempt \/ attempt' = [attempt EXCEPT ![ask[s].a].try = @ + 1]
    BY <1>5 DEF NextTry
  <2>2. RowsQuiet
    BY <1>2, <2>1 DEF RowsQuiet, Row
  <2> QED BY <1>5, <2>2, SameQuiet DEF NextTry
<1>6. CASE ApplyAnswer(s)
  <2>1. ask[s].a \in Attempts
    BY <1>1, <1>6 DEF ApplyAnswer, AskFits
  <2>2. \/ attempt' = attempt
        \/ \E to \in {"processing", "failed", "expired"} : attempt' = Moved(ask[s].a, to)
    BY <1>6 DEF ApplyAnswer
  <2> QED BY <1>6, <2>1, <2>2, MovedQuiet, SameQuiet DEF ApplyAnswer
<1>7. CASE LockLink(s)
  <2>1. PICK a \in ask[s].left :
          IF Swept(a) /\ attempt[a].state # "processing"
          THEN \E answer \in {"ended", "completed", "unknown"} :
                 /\ Expire(a, answer)
                 /\ attempt' = IF answer # "ended" THEN attempt
                               ELSE IF attempt[a].state = "open" THEN Moved(a, "expired")
                               ELSE [attempt EXCEPT ![a].url = FALSE]
          ELSE UNCHANGED <<attempt, page, faults>>
    BY <1>7 DEF LockLink
  <2>2. a \in Attempts
    BY DEF IInv, TypeOK, Asked
  <2>3. CASE Swept(a) /\ attempt[a].state # "processing"
    <3>1. PICK answer \in {"ended", "completed", "unknown"} :
                 /\ Expire(a, answer)
                 /\ attempt' = IF answer # "ended" THEN attempt
                               ELSE IF attempt[a].state = "open" THEN Moved(a, "expired")
                               ELSE [attempt EXCEPT ![a].url = FALSE]
      BY <2>1, <2>3
    <3>2. PagesQuiet
      BY <2>2, <3>1, ExpireQuiet
    <3>3. attempt' = attempt \/ attempt' = Moved(a, "expired") \/ attempt' = [attempt EXCEPT ![a].url = FALSE]
      BY <3>1
    <3> QED BY <2>2, <3>2, <3>3, MovedQuiet, ClearedQuiet, SameQuiet
  <2>4. CASE ~(Swept(a) /\ attempt[a].state # "processing")
    BY <2>1, <2>4, SameQuiet
  <2> QED BY <2>3, <2>4
<1>8. CASE Take(s) \/ TakeBack(s) \/ FlagTwo(s)
  <2>1. PICK a \in Attempts : a = ask[s].a
    BY <1>1, <1>8 DEF Take, TakeBack, FlagTwo, AskFits
  <2> DEFINE back == [attempt[a] EXCEPT !.state = "succeeded", !.slot = TRUE]
             told == [attempt[a] EXCEPT !.state = "succeeded", !.flag = TRUE]
             same == [attempt[a] EXCEPT !.state = "succeeded"]
  <2>2. \/ attempt' = attempt
        \/ /\ attempt[a].state \in Moves("succeeded")
           /\ \/ attempt' = [attempt EXCEPT ![a] = back] \/ attempt' = [attempt EXCEPT ![a] = told]
              \/ attempt' = [attempt EXCEPT ![a] = same]
    BY <1>8, <2>1 DEF Take, TakeBack, FlagTwo
  <2>3. back.state = "succeeded" /\ told.state = "succeeded" /\ same.state = "succeeded"
    BY <1>2 DEF Row
  <2> HIDE DEF back, told, same
  <2>4. attempt[a].state \in Moves("succeeded") => attempt[a].state \notin {"recording", "record_refused"}
    BY DEF Moves
  <2>5. RowsQuiet
    BY <1>2, <2>2, <2>3, <2>4 DEF RowsQuiet
  <2> QED BY <1>8, <2>5, SameQuiet DEF Take, TakeBack, FlagTwo
<1> QED BY <1>3, <1>4, <1>5, <1>6, <1>7, <1>8 DEF Settle

LEMMA OthersQuiet ==
  ASSUME IInv, NEW a \in Attempts, Abandon(a) \/ Dropped(a) \/ PickUp(a) \/ Check(a)
  PROVE  PagesQuiet /\ RowsQuiet
<1>1. attempt \in [Attempts -> Row]
  BY DEF IInv, TypeOK
<1>2. CASE Abandon(a)
  BY <1>1, <1>2, SameQuiet DEF Abandon, Row, RowsQuiet
<1>3. CASE Check(a)
  BY <1>1, <1>3, SameQuiet DEF Check, Row, RowsQuiet
<1>4. CASE Dropped(a) \/ PickUp(a)
  BY <1>4, SameQuiet DEF Dropped, PickUp
<1> QED BY <1>2, <1>3, <1>4

-----------------------------------------------------------------------------
(* The refinement *)

\* A step that says nothing of money or of books.
LEMMA QuietStutters ==
  ASSUME PagesQuiet, RowsQuiet, UNCHANGED rows
  PROVE  UNCHANGED Promise!vars
<1>1. \A a \in Attempts : Money(a)' = Money(a) /\ Books(a)' = Books(a)
  BY DEF PagesQuiet, RowsQuiet, Money, Books
<1> QED BY <1>1 DEF Promise!vars

\* A page takes the money, and nothing else happens.
LEMMA PageTakes ==
  ASSUME IInv, NEW a \in Attempts, NEW to, page' = [page EXCEPT ![a].state = to],
         page[a].state # "paid", UNCHANGED <<attempt, rows>>
  PROVE  Promise!Next \/ UNCHANGED Promise!vars
<1>1. page[a] \in Page /\ page \in [Attempts -> Page]
  BY DEF IInv, TypeOK
<1>2. page'[a].state = to /\ \A b \in Attempts \ {a} : page'[b] = page[b]
  BY <1>1 DEF Page
<1>3. \A b \in Attempts : Books(b)' = Books(b)
  BY DEF Books
<1>4. \A b \in Attempts \ {a} : Money(b)' = Money(b)
  BY <1>2 DEF Money
<1>5. Money(a) = "none"
  BY DEF Money
<1>6. CASE to = "paid"
  <2>1. Money(a)' = "taken"
    BY <1>2, <1>6 DEF Money
  <2>2. Promise!Take(a)
    BY <1>3, <1>4, <1>5, <2>1 DEF Promise!Take
  <2> QED BY <2>2 DEF Promise!Next
<1>7. CASE to # "paid"
  <2>1. Money(a)' = "none"
    BY <1>2, <1>7 DEF Money
  <2> QED BY <1>3, <1>4, <1>5, <2>1 DEF Promise!vars
<1> QED BY <1>6, <1>7

LEMMA SettlePromises ==
  ASSUME IInv, NEW s \in Settlers, (\E a \in Attempts : Ask(s, a)) \/ Settle(s) \/ SettleDies(s)
  PROVE  Promise!Next \/ UNCHANGED Promise!vars
<1>1. UNCHANGED rows
  BY OwnAsk
<1>2. CASE ~CallSettle(s)
  BY <1>1, <1>2, SettleQuiet, QuietStutters
<1>3. CASE CallSettle(s)
  <2>1. PICK a \in Attempts : a = ask[s].a
    BY <1>3 DEF CallSettle, IInv, AskFits
  <2>2. attempt' = attempt
    BY <1>3 DEF CallSettle
  <2>3. \/ page' = page
        \/ page[a].state = "approved" /\ page' = [page EXCEPT ![a].state = "paid"]
        \/ page' = [page EXCEPT ![a].declined = @ \cup {ask[s].try}]
    BY <1>3, <2>1 DEF CallSettle, Capture
  <2>4. CASE page[a].state = "approved" /\ page' = [page EXCEPT ![a].state = "paid"]
    BY <1>1, <2>2, <2>4, PageTakes
  <2>5. CASE page' = page \/ page' = [page EXCEPT ![a].declined = @ \cup {ask[s].try}]
    <3>1. PagesQuiet
      BY <2>5 DEF PagesQuiet, IInv, TypeOK, Page
    <3> QED BY <1>1, <2>2, <3>1, SameQuiet, QuietStutters
  <2> QED BY <2>3, <2>4, <2>5
<1> QED BY <1>2, <1>3

LEMMA RecordPromises ==
  ASSUME IInv, NEW r \in Recorders, (\E a \in Attempts : Claim(r, a)) \/ Record(r) \/ RunDies(r)
  PROVE  Promise!Next \/ UNCHANGED Promise!vars
<1>1. RunFits(r) /\ \A a \in Attempts : PageFits(a)
  BY DEF IInv
<1>2. UNCHANGED page
  BY OwnRun
<1>3. \A b \in Attempts : Money(b)' = Money(b)
  BY <1>2 DEF Money
<1>4. CASE \E a \in Attempts : Claim(r, a)
  <2>1. PICK a \in Attempts : Claim(r, a)
    BY <1>4
  <2>2. attempt' = attempt \/ attempt' = Moved(a, "recording")
    BY <2>1 DEF Claim
  <2>3. \A b \in Attempts : attempt'[b].state = "record_refused" <=> attempt[b].state = "record_refused"
    BY <2>2, MovedRow DEF IInv, States, Moves
  <2>4. UNCHANGED rows
    BY <2>1 DEF Claim
  <2>5. \A b \in Attempts : Books(b)' = Books(b)
    BY <2>3, <2>4 DEF Books
  <2> QED BY <1>3, <2>5 DEF Promise!vars
<1>5. CASE ReadDue(r) \/ LookWritten(r) \/ RunDies(r)
  <2>1. UNCHANGED <<attempt, rows>>
    BY <1>5 DEF ReadDue, LookWritten, RunDies
  <2> QED BY <1>2, <2>1, SameQuiet, QuietStutters
<1>6. CASE WriteRow(r)
  <2>1. PICK a \in Attempts : a = rec[r].a /\ attempt[a].state \in Recording
    BY <1>1, <1>6 DEF WriteRow, RunFits
  <2>2. UNCHANGED attempt
    BY <1>6 DEF WriteRow
  <2>3. CASE rows' = rows
    BY <1>2, <2>2, <2>3, SameQuiet, QuietStutters
  <2>4. CASE rows' # rows
    <3>1. rows' = rows \cup {a} /\ a \notin rows
      BY <1>6, <2>1, <2>4 DEF WriteRow
    <3>2. Money(a) = "taken"
      BY <1>1, <2>1 DEF PageFits, Recording, TakenStates, Money
    <3>3. Books(a) # "written" /\ Books(a)' = "written"
      BY <3>1 DEF Books
    <3>4. \A b \in Attempts \ {a} : Books(b)' = Books(b)
      BY <2>2, <3>1 DEF Books
    <3>5. Promise!Write(a)
      BY <1>3, <3>2, <3>3, <3>4 DEF Promise!Write
    <3> QED BY <3>5 DEF Promise!Next
  <2> QED BY <2>3, <2>4
<1>7. CASE RefuseRecord(r)
  <2>1. PICK a \in Attempts : a = rec[r].a /\ attempt[a].state \in Recording
    BY <1>1, <1>7 DEF RefuseRecord, RunFits
  <2>2. attempt' = Moved(a, "record_refused") /\ UNCHANGED rows
    BY <1>7, <2>1 DEF RefuseRecord
  <2>3. /\ \A b \in Attempts \ {a} : attempt'[b] = attempt[b]
        /\ attempt'[a].state = IF attempt[a].state = "recording" THEN "record_refused" ELSE attempt[a].state
    BY <2>2, MovedRow DEF IInv, States, Moves
  <2>4. \A b \in Attempts \ {a} : Books(b)' = Books(b)
    BY <2>2, <2>3 DEF Books
  <2>5. CASE a \notin rows /\ attempt[a].state = "recording"
    <3>1. Money(a) = "taken"
      BY <1>1, <2>5 DEF PageFits, TakenStates, Money
    <3>2. Books(a) = "silent" /\ Books(a)' = "refused"
      BY <2>2, <2>3, <2>5 DEF Books
    <3>3. Promise!Refuse(a)
      BY <1>3, <2>4, <3>1, <3>2 DEF Promise!Refuse
    <3> QED BY <3>3 DEF Promise!Next
  <2>6. CASE ~(a \notin rows /\ attempt[a].state = "recording")
    <3>1. Books(a)' = Books(a)
      BY <2>2, <2>3, <2>6 DEF Books
    <3> QED BY <1>3, <2>4, <3>1 DEF Promise!vars
  <2> QED BY <2>5, <2>6
<1>8. CASE Finish(r)
  <2>1. PICK a \in Attempts : a = rec[r].a /\ a \in rows
    BY <1>1, <1>8 DEF Finish, RunFits
  <2>2. attempt' = Moved(a, "recorded") /\ UNCHANGED rows
    BY <1>8, <2>1 DEF Finish
  <2>3. \A b \in Attempts \ {a} : attempt'[b] = attempt[b]
    BY <2>2, MovedRow DEF IInv, States
  <2>4. \A b \in Attempts : Books(b)' = Books(b)
    BY <2>1, <2>2, <2>3 DEF Books
  <2> QED BY <1>3, <2>4 DEF Promise!vars
<1> QED BY <1>4, <1>5, <1>6, <1>7, <1>8 DEF Record

\* Exactly once, across two databases: every step of checkouts, settles and record
\* runs, in every order, with every fault, takes an attempt's money, writes it
\* once, refuses it, or changes nothing the promise speaks of.
THEOREM CheckoutImplementsPromise == Spec => ImplementsPromise
<1>1. Init => Promise!Init
  BY DEF Init, Promise!Init, Money, Books, NoPage, NoRow
<1>2. IInv /\ [Next]_vars => [Promise!Next]_Promise!vars
  <2> SUFFICES ASSUME IInv, [Next]_vars
               PROVE  Promise!Next \/ UNCHANGED Promise!vars
    OBVIOUS
  <2>1. CASE Provider
    <3>1. PICK a \in Attempts : Pay(a) \/ BankSays(a) \/ Lapse(a)
      BY <2>1 DEF Provider
    <3>2. PICK to : page' = [page EXCEPT ![a].state = to]
      BY <3>1 DEF Pay, BankSays, Lapse
    <3>3. page[a].state # "paid" /\ UNCHANGED <<attempt, rows>>
      BY <3>1 DEF Pay, BankSays, Lapse, Live
    <3> QED BY <3>2, <3>3, PageTakes
  <2>2. CASE \E c \in Customers : Press(c) \/ Request(c) \/ RequestDies(c)
    BY <2>2, OwnRequest, RequestQuiet, QuietStutters
  <2>3. CASE \E s \in Settlers : (\E a \in Attempts : Ask(s, a)) \/ Settle(s) \/ SettleDies(s)
    BY <2>3, SettlePromises
  <2>4. CASE \E r \in Recorders : (\E a \in Attempts : Claim(r, a)) \/ Record(r) \/ RunDies(r)
    BY <2>4, RecordPromises
  <2>5. CASE \E a \in Attempts : Abandon(a) \/ Dropped(a) \/ PickUp(a) \/ Check(a)
    <3>1. UNCHANGED rows
      BY <2>5 DEF Abandon, Dropped, PickUp, Check
    <3> QED BY <2>5, <3>1, OthersQuiet, QuietStutters
  <2>6. CASE RecordByHand \/ UNCHANGED vars
    <3>1. UNCHANGED <<attempt, page, rows>>
      BY <2>6 DEF RecordByHand, vars
    <3> QED BY <3>1, SameQuiet, QuietStutters
  <2> QED BY <2>1, <2>2, <2>3, <2>4, <2>5, <2>6 DEF Next
<1> QED BY <1>1, <1>2, Invariant, PTL DEF Spec, ImplementsPromise, Promise!Spec

-----------------------------------------------------------------------------
(* What Adminium says of a payment *)

LEMMA OneRunStands ==
  ASSUME OneRun, RowsQuiet, UNCHANGED <<rows, rec>>, IInv
  PROVE  OneRun'
<1>1. \A r \in Recorders : rec[r].step # "idle" => rec[r].a \in Attempts
  BY DEF IInv, RunFits
<1> QED BY <1>1 DEF OneRun, RowsQuiet

\* One run's step: the others have other attempts, before and after.
LEMMA OneRunSteps ==
  ASSUME IInv, OneRun, NEW r \in Recorders, NEW a \in Attempts,
         \A q \in Recorders \ {r} : rec'[q] = rec[q],
         \A q \in Recorders \ {r} : rec[q].step # "idle" => rec[q].a # a,
         \A b \in Attempts \ {a} : attempt'[b] = attempt[b] /\ (b \in rows' <=> b \in rows),
         rec'[r].step # "idle" => rec'[r].a = a /\ attempt'[a].state = "recording",
         rec'[r].step = "refuse" => a \notin rows',
         attempt'[a].state = "record_refused" => a \notin rows'
  PROVE  OneRun'
<1>1. \A q \in Recorders \ {r} : rec[q].step # "idle" => rec[q].a \in Attempts \ {a}
  BY DEF IInv, RunFits
<1> QED BY <1>1 DEF OneRun

LEMMA RecordOneRun ==
  ASSUME IInv, OneRun, "twice" \notin Faults,
         NEW r \in Recorders, (\E a \in Attempts : Claim(r, a)) \/ Record(r) \/ RunDies(r)
  PROVE  OneRun'
<1>1. rec \in [Recorders -> Run] /\ rec[r] \in Run
  BY DEF IInv, TypeOK
<1>2. \A q \in Recorders \ {r} : rec'[q] = rec[q]
  BY OwnRun
<1>3. rec[r].step # "idle" =>
        /\ rec[r].a \in Attempts /\ attempt[rec[r].a].state = "recording"
        /\ \A q \in Recorders \ {r} : rec[q].step # "idle" => rec[q].a # rec[r].a
  BY DEF IInv, RunFits, OneRun
<1>4. CASE \E a \in Attempts : Claim(r, a)
  <2>1. PICK a \in Attempts : Claim(r, a)
    BY <1>4
  <2>2. UNCHANGED rows
    BY <2>1 DEF Claim
  <2>3. CASE attempt[a].state \in {"succeeded", "recording"}
    <3>1. \A q \in Recorders : rec[q].a # a
      BY <2>1 DEF Claim, At, Fault
    <3>2. attempt' = Moved(a, "recording")
      BY <2>1, <2>3 DEF Claim
    <3>3. (\A b \in Attempts \ {a} : attempt'[b] = attempt[b]) /\ attempt'[a].state = "recording"
      BY <2>3, <3>2, MovedRow DEF IInv, States, Moves
    <3>4. rec'[r].step = "resolve" /\ rec'[r].a = a
      BY <1>1, <2>1, <2>3 DEF Claim, NoRun
    <3> QED BY <1>2, <2>2, <3>1, <3>3, <3>4, OneRunSteps
  <2>4. CASE attempt[a].state \notin {"succeeded", "recording"}
    <3>1. UNCHANGED <<attempt, rec>>
      BY <2>1, <2>4 DEF Claim
    <3> QED BY <2>2, <3>1, SameQuiet, OneRunStands
  <2> QED BY <2>3, <2>4
<1>5. CASE Record(r) \/ RunDies(r)
  <2>1. PICK a \in Attempts : /\ a = rec[r].a /\ attempt[a].state = "recording"
                              /\ \A q \in Recorders \ {r} : rec[q].step # "idle" => rec[q].a # a
    BY <1>3, <1>5 DEF Record, ReadDue, LookWritten, WriteRow, RefuseRecord, Finish, RunDies
  <2>2. CASE ReadDue(r)
    <3>1. rec'[r].step = "look" /\ rec'[r].a = a
      BY <1>1, <2>1, <2>2 DEF ReadDue, Run
    <3> QED BY <1>2, <2>1, <2>2, <3>1, OneRunSteps DEF ReadDue
  <2>3. CASE LookWritten(r)
    <3>1. rec'[r].a = a /\ (rec'[r].step = "refuse" => a \notin rows)
      BY <2>1, <2>3, RunStep DEF LookWritten
    <3> QED BY <1>2, <2>1, <2>3, <3>1, OneRunSteps DEF LookWritten
  <2>4. CASE WriteRow(r)
    <3>1. \/ rec'[r].step = "idle" /\ rows' = rows
          \/ rec'[r].step = "finish" /\ rec'[r].a = a /\ rows' = rows \cup {a}
          \/ rec'[r].step = "refuse" /\ rec'[r].a = a /\ a \notin rows /\ rows' = rows
      BY <2>1, <2>4, RunStep DEF WriteRow, RunTriesAgain
    <3>2. UNCHANGED attempt
      BY <2>4 DEF WriteRow
    <3> QED BY <1>2, <2>1, <3>1, <3>2, OneRunSteps
  <2>5. CASE RefuseRecord(r)
    <3>1. attempt' = Moved(a, "record_refused") /\ UNCHANGED rows /\ a \notin rows
      BY <2>1, <2>5 DEF RefuseRecord, OneRun
    <3>2. \A b \in Attempts \ {a} : attempt'[b] = attempt[b]
      BY <3>1, MovedRow DEF IInv, States
    <3>3. rec'[r].step = "idle"
      BY <2>5, RunStep DEF RefuseRecord, RunEnds
    <3> QED BY <1>2, <2>1, <3>1, <3>2, <3>3, OneRunSteps
  <2>6. CASE Finish(r)
    <3>1. attempt' = Moved(a, "recorded") /\ UNCHANGED rows
      BY <2>1, <2>6 DEF Finish
    <3>2. (\A b \in Attempts \ {a} : attempt'[b] = attempt[b]) /\ attempt'[a].state = "recorded"
      BY <2>1, <3>1, MovedRow DEF IInv, States, Moves
    <3>3. rec'[r].step = "idle"
      BY <2>6, RunStep DEF Finish, RunEnds
    <3> QED BY <1>2, <2>1, <3>1, <3>2, <3>3, OneRunSteps
  <2>7. CASE RunDies(r)
    <3>1. rec'[r].step = "idle"
      BY <2>7, RunStep DEF RunDies, RunTriesAgain
    <3> QED BY <1>2, <2>1, <2>7, <3>1, OneRunSteps DEF RunDies
  <2> QED BY <1>5, <2>2, <2>3, <2>4, <2>5, <2>6, <2>7 DEF Record
<1> QED BY <1>4, <1>5

LEMMA NextOneRun ==
  ASSUME IInv, OneRun, "twice" \notin Faults, [Next]_vars
  PROVE  OneRun'
<1>1. CASE Provider
  BY <1>1, SameQuiet, OneRunStands DEF Provider, Pay, BankSays, Lapse
<1>2. CASE \E c \in Customers : Press(c) \/ Request(c) \/ RequestDies(c)
  BY <1>2, OwnRequest, RequestQuiet, OneRunStands
<1>3. CASE \E s \in Settlers : (\E a \in Attempts : Ask(s, a)) \/ Settle(s) \/ SettleDies(s)
  BY <1>3, OwnAsk, SettleQuiet, OneRunStands
<1>4. CASE \E r \in Recorders : (\E a \in Attempts : Claim(r, a)) \/ Record(r) \/ RunDies(r)
  BY <1>4, RecordOneRun
<1>5. CASE \E a \in Attempts : Abandon(a) \/ Dropped(a) \/ PickUp(a) \/ Check(a)
  <2>1. UNCHANGED <<rows, rec>>
    BY <1>5 DEF Abandon, Dropped, PickUp, Check
  <2> QED BY <1>5, <2>1, OthersQuiet, OneRunStands
<1>6. CASE RecordByHand \/ UNCHANGED vars
  BY <1>6, SameQuiet, OneRunStands DEF RecordByHand, vars
<1> QED BY <1>1, <1>2, <1>3, <1>4, <1>5, <1>6 DEF Next

\* What Adminium calls recorded is written in the shop's database and what it
\* calls refused is not, unless a record job is reclaimed while its first run goes
\* on: for any number of runs, crashes, lost jobs and refusals.
THEOREM StateAlwaysTells == Spec => []("twice" \notin Faults => StateTellsRow)
<1> DEFINE Inv == "twice" \notin Faults => OneRun
<1>1. Init => Inv
  BY DEF Init, OneRun, NoRun, NoRow
<1>2. IInv /\ Inv /\ [Next]_vars => Inv'
  BY NextOneRun
<1>3. IInv /\ Inv => ("twice" \notin Faults => StateTellsRow)
  BY DEF IInv, PageFits, OneRun, StateTellsRow
<1> HIDE DEF Inv
<1> QED BY <1>1, <1>2, <1>3, Invariant, PTL DEF Spec

-----------------------------------------------------------------------------
(* Two payments of one debt *)

\* No attempt is settled twice at a time: one process sees to it (checkout.ts,
\* `settling`) for all settles but those an event asked for.
OneSettleEach ==
  \A s, t \in Settlers : ask[s].step # "idle" /\ ask[t].step # "idle" /\ ask[s].a = ask[t].a => s = t

\* Money is being recorded, or about to be.
Arriving == { "succeeded", "recording" }

\* The unique index on the slot.
SlotsApart == \A a, b \in Attempts : attempt[a].slot /\ attempt[b].slot => a = b

\* Money arrives at the payable one payment after the other, or before a person.
HeldOrFlagged(a) == attempt[a].state \in Arriving => attempt[a].slot \/ attempt[a].flag

\* A settle that takes a row as the holder of its slot is right about it.
TakesHeld(s) ==
  ask[s].step = "take" /\ attempt[ask[s].a].state \in Moves("succeeded") => attempt[ask[s].a].slot

Told(a, b) == attempt[a].flag \/ attempt[b].flag
Affords(a, b) == attempt[a].amount + attempt[b].amount <= Owed

\* What a run read as due leaves room for every payment written, and so does
\* what it is about to write.
LooksRight(r) ==
  \A a \in rows \ {rec[r].a} :
    /\ rec[r].step = "look" => attempt[a].amount + rec[r].due <= Owed \/ Told(a, rec[r].a)
    /\ rec[r].step = "write" => Affords(a, rec[r].a) \/ Told(a, rec[r].a)

RowsTold == \A a, b \in rows : a # b => Affords(a, b) \/ Told(a, b)

SlotInv ==
  /\ SlotsApart
  /\ \A a \in Attempts : HeldOrFlagged(a)
  /\ \A s \in Settlers : TakesHeld(s)
  /\ \A r \in Recorders : LooksRight(r)
  /\ RowsTold
  /\ IsFiniteSet(rows)

\* What most steps do with an attempt: it costs what it did, a flag stays, a slot
\* is not given, and no money arrives.
RowKeeps(a) ==
  /\ attempt[a].state # "none" =>
       attempt'[a].amount = attempt[a].amount /\ (attempt[a].flag => attempt'[a].flag)
  /\ attempt'[a].slot => attempt[a].slot
  /\ attempt'[a].state \in Arriving =>
       attempt[a].state \in Arriving /\ attempt'[a].slot = attempt[a].slot
  /\ attempt[a].state \in TakenStates => attempt'[a].state \in TakenStates

\* The slot of a paid attempt is not let go before its money arrives.
PaidKeeps(a) ==
  page[a].state = "paid" /\ attempt[a].slot /\ attempt'[a].state \in Moves("succeeded")
    => attempt'[a].slot

LEMMA SuccessMoves == Moves("succeeded") = { "open", "processing", "expired", "failed" }
BY DEF Moves

LEMMA SameKeeps ==
  ASSUME NEW a \in Attempts, attempt'[a].state = attempt[a].state, attempt'[a].slot = attempt[a].slot,
         attempt'[a].flag = attempt[a].flag, attempt'[a].amount = attempt[a].amount
  PROVE  RowKeeps(a) /\ PaidKeeps(a)
BY DEF RowKeeps, PaidKeeps

\* The compare-and-set of `move`.
LEMMA MovedKeeps ==
  ASSUME IInv, NEW a \in Attempts, NEW to \in States \ {"none", "succeeded"}, attempt' = Moved(a, to),
         to \in { "processing", "failed", "expired", "recording", "recorded", "record_refused", "open" }
  PROVE  /\ \A b \in Attempts : RowKeeps(b)
         /\ \A b \in Attempts \ {a} : PaidKeeps(b)
         /\ page[a].state # "paid" \/ attempt[a].state \notin Moves(to) \/ to \in { "recording", "recorded", "record_refused" }
              => PaidKeeps(a)
<1>1. attempt[a] \in Row /\ attempt \in [Attempts -> Row]
  BY DEF IInv, TypeOK
<1>2. \A b \in Attempts \ {a} : RowKeeps(b) /\ PaidKeeps(b)
  <2>1. \A b \in Attempts \ {a} : attempt'[b] = attempt[b]
    BY MovedRow DEF IInv
  <2> QED BY <2>1, SameKeeps
<1>3. CASE attempt[a].state \notin Moves(to)
  <2>1. attempt' = attempt
    BY <1>3 DEF Moved
  <2> QED BY <1>2, <2>1, SameKeeps
<1>4. CASE attempt[a].state \in Moves(to)
  <2>1. attempt'[a] = [attempt[a] EXCEPT !.state = to, !.slot = attempt[a].slot /\ to \in OpenStates]
    BY <1>1, <1>4 DEF Moved
  <2>2. attempt'[a].state = to /\ attempt'[a].amount = attempt[a].amount /\ attempt'[a].flag = attempt[a].flag
    BY <1>1, <2>1 DEF Row
  <2>3. attempt'[a].slot <=> attempt[a].slot /\ to \in OpenStates
    BY <1>1, <2>1 DEF Row
  <2>4. attempt'[a].slot \in BOOLEAN /\ attempt[a].slot \in BOOLEAN
    <3>1. (attempt[a].slot /\ to \in OpenStates) \in BOOLEAN
      OBVIOUS
    <3> QED BY <1>1, <2>1, <3>1 DEF Row
  <2>5. to = "recording" => attempt[a].state = "succeeded" /\ attempt'[a].slot = attempt[a].slot
    BY <1>4, <2>3, <2>4 DEF Moves, OpenStates
  <2>6. attempt[a].state \in TakenStates => to \in TakenStates
    BY <1>4 DEF Moves, TakenStates
  <2>7. RowKeeps(a)
    BY <2>2, <2>3, <2>5, <2>6 DEF RowKeeps, Arriving, OpenStates
  <2>8. to \in { "recording", "recorded", "record_refused" } => to \notin Moves("succeeded")
    BY SuccessMoves
  <2>9. page[a].state # "paid" \/ to \in { "recording", "recorded", "record_refused" } => PaidKeeps(a)
    BY <2>2, <2>8 DEF PaidKeeps
  <2> QED BY <1>2, <1>4, <2>7, <2>9
<1> QED BY <1>3, <1>4

\* A request lets go of attempts whose page took no money; an attempt it makes
\* is the only one with the slot.
NewHolder ==
  \E a \in Attempts : /\ Holders = {} /\ attempt[a].state = "none" /\ attempt'[a].state = "creating"
                      /\ \A b \in Attempts \ {a} : attempt'[b] = attempt[b]

LEMMA RequestRows ==
  ASSUME IInv, NEW c \in Customers, Press(c) \/ Request(c) \/ RequestDies(c)
  PROVE  (\A a \in Attempts : RowKeeps(a) /\ PaidKeeps(a)) \/ NewHolder
<1>1. RequestFits(c) /\ \A a \in Attempts : PageFits(a)
  BY DEF IInv
<1>2. attempt \in [Attempts -> Row]
  BY DEF IInv, TypeOK
<1>3. CASE UNCHANGED attempt
  BY <1>3, SameKeeps
<1>4. CASE ExpireHeld(c)
  <2>1. PICK a \in Attempts : a = req[c].held /\ page[a].state = "ended"
    BY <1>1, <1>4 DEF ExpireHeld, RequestFits
  <2>2. attempt' = Moved(a, "expired")
    BY <1>4, <2>1 DEF ExpireHeld
  <2> QED BY <2>1, <2>2, MovedKeeps DEF States
<1>5. CASE EndDeclined(c)
  <2>1. PICK a \in req[c].left : attempt' = [attempt EXCEPT ![a].url = FALSE] \/ attempt' = attempt
    BY <1>5 DEF EndDeclined
  <2>2. ASSUME NEW b \in Attempts
        PROVE  /\ attempt'[b].state = attempt[b].state /\ attempt'[b].slot = attempt[b].slot
               /\ attempt'[b].flag = attempt[b].flag /\ attempt'[b].amount = attempt[b].amount
    BY <1>2, <2>1 DEF Row
  <2> QED BY <2>2, SameKeeps
<1>6. CASE Create(c) /\ attempt' # attempt
  <2> DEFINE row == [NoRow EXCEPT !.state = "creating", !.slot = TRUE, !.amount = req[c].due]
  <2>1. PICK a \in Attempts : attempt[a].state = "none" /\ attempt' = [attempt EXCEPT ![a] = row]
    BY <1>6 DEF Create, Made
  <2>2. row.state = "creating"
    BY DEF NoRow
  <2> HIDE DEF row
  <2>3. Holders = {}
    BY <1>6 DEF Create
  <2> QED BY <1>2, <2>1, <2>2, <2>3 DEF NewHolder
<1>7. CASE Opened(c)
  <2>1. PICK a \in Attempts : a = req[c].held /\ attempt[a].state = "creating"
    BY <1>1, <1>7 DEF Opened, RequestFits
  <2>2. attempt' = [Moved(a, "open") EXCEPT ![a] = [Moved(a, "open")[a] EXCEPT !.ref = TRUE, !.url = TRUE]]
    BY <1>7, <2>1 DEF Opened, Moves
  <2>3. Moved(a, "open") \in [Attempts -> Row]
    BY MovedTyped DEF IInv, States
  <2>4. Moved(a, "open")[a] = [attempt[a] EXCEPT !.state = "open", !.slot = attempt[a].slot /\ "open" \in OpenStates]
    BY <1>2, <2>1 DEF Moved, Moves
  <2>5. \A b \in Attempts \ {a} : attempt'[b] = attempt[b]
    <3>1. \A b \in Attempts \ {a} : Moved(a, "open")[b] = attempt[b]
      BY <1>2 DEF Moved
    <3>2. \A b \in Attempts \ {a} : attempt'[b] = Moved(a, "open")[b]
      BY <2>2, <2>3
    <3> QED BY <3>1, <3>2
  <2>6. PICK row \in Row : /\ row = Moved(a, "open")[a]
                            /\ attempt'[a] = [row EXCEPT !.ref = TRUE, !.url = TRUE]
    BY <2>2, <2>3
  <2>7. row.state = "open" /\ row.amount = attempt[a].amount /\ row.flag = attempt[a].flag
        /\ (row.slot <=> attempt[a].slot)
    BY <1>2, <2>4, <2>6 DEF Row, OpenStates
  <2>8. attempt'[a].state = row.state /\ attempt'[a].amount = row.amount /\ attempt'[a].flag = row.flag
        /\ attempt'[a].slot = row.slot
    BY <2>6 DEF Row
  <2>9. RowKeeps(a) /\ PaidKeeps(a)
    BY <2>1, <2>7, <2>8 DEF RowKeeps, PaidKeeps, Arriving, TakenStates
  <2> QED BY <2>5, <2>9, SameKeeps
<1>8. CASE FailCreate(c)
  <2>1. PICK a \in Attempts : a = req[c].held /\ attempt[a].state = "creating"
    BY <1>1, <1>8 DEF FailCreate, RequestFits
  <2>2. page[a].state # "paid"
    BY <1>1, <2>1 DEF PageFits
  <2>3. attempt' = Moved(a, "failed")
    BY <1>8, <2>1 DEF FailCreate
  <2> QED BY <2>2, <2>3, MovedKeeps DEF States
<1>9. CASE RefuseRedirect(c)
  <2>1. PICK a \in Attempts : a = req[c].held /\ attempt[a].state = "creating"
    BY <1>1, <1>9 DEF RefuseRedirect, RequestFits
  <2>2. attempt' = [Moved(a, "failed") EXCEPT ![a] = [Moved(a, "failed")[a] EXCEPT !.ref = TRUE]]
    BY <1>9, <2>1 DEF RefuseRedirect, Moves
  <2>3. Moved(a, "failed") \in [Attempts -> Row]
    BY MovedTyped DEF IInv, States
  <2>4. Moved(a, "failed")[a] = [attempt[a] EXCEPT !.state = "failed", !.slot = attempt[a].slot /\ "failed" \in OpenStates]
    BY <1>2, <2>1 DEF Moved, Moves
  <2>5. \A b \in Attempts \ {a} : attempt'[b] = attempt[b]
    <3>1. \A b \in Attempts \ {a} : Moved(a, "failed")[b] = attempt[b]
      BY <1>2 DEF Moved
    <3>2. \A b \in Attempts \ {a} : attempt'[b] = Moved(a, "failed")[b]
      BY <2>2, <2>3
    <3> QED BY <3>1, <3>2
  <2>6. PICK row \in Row : row = Moved(a, "failed")[a] /\ attempt'[a] = [row EXCEPT !.ref = TRUE]
    BY <2>2, <2>3
  <2>7. row.state = "failed" /\ row.amount = attempt[a].amount /\ row.flag = attempt[a].flag /\ ~row.slot
    BY <1>2, <2>4, <2>6 DEF Row, OpenStates
  <2>8. attempt'[a].state = row.state /\ attempt'[a].amount = row.amount /\ attempt'[a].flag = row.flag
        /\ attempt'[a].slot = row.slot
    BY <2>6 DEF Row
  <2>9. page[a].state # "paid"
    BY <1>1, <2>1 DEF PageFits
  <2>10. RowKeeps(a) /\ PaidKeeps(a)
    BY <2>1, <2>7, <2>8, <2>9 DEF RowKeeps, PaidKeeps, Arriving, TakenStates
  <2> QED BY <2>5, <2>10, SameKeeps
<1> QED BY <1>3, <1>4, <1>5, <1>6, <1>7, <1>8, <1>9
        DEF Request, Press, LookHeld, EndHeld, LookRecent, CallProvider, RequestDies

\* Money arrives for an attempt, which has the slot or takes it, or is flagged.
Arrives(a) ==
  /\ a \in Attempts /\ attempt[a].state \in Moves("succeeded")
  /\ \A b \in Attempts \ {a} : attempt'[b] = attempt[b]
  /\ attempt'[a].state = "succeeded" /\ attempt'[a].amount = attempt[a].amount
  /\ attempt[a].flag => attempt'[a].flag
  /\ attempt'[a].slot => attempt[a].slot \/ Holders \subseteq {a}
  /\ attempt'[a].slot \/ attempt'[a].flag

\* A settle's step: it lets go of its own attempt alone, and takes back only what
\* nobody else has.
LEMMA SettleRows ==
  ASSUME IInv, SlotInv, NEW s \in Settlers,
         (\E a \in Attempts : Ask(s, a)) \/ Settle(s) \/ SettleDies(s)
  PROVE  \/ \A a \in Attempts : RowKeeps(a) /\ (PaidKeeps(a) \/ (ApplyAnswer(s) /\ a = ask[s].a))
         \/ (Take(s) \/ TakeBack(s) \/ FlagTwo(s)) /\ Arrives(ask[s].a)
<1>1. AskFits(s) /\ TakesHeld(s)
  BY DEF IInv, SlotInv
<1>2. attempt \in [Attempts -> Row]
  BY DEF IInv, TypeOK
<1>3. CASE UNCHANGED attempt
  BY <1>3, SameKeeps
<1>4. CASE NextTry(s)
  <2>1. attempt' = attempt \/ attempt' = [attempt EXCEPT ![ask[s].a].try = @ + 1]
    BY <1>4 DEF NextTry
  <2>2. ASSUME NEW b \in Attempts
        PROVE  /\ attempt'[b].state = attempt[b].state /\ attempt'[b].slot = attempt[b].slot
               /\ attempt'[b].flag = attempt[b].flag /\ attempt'[b].amount = attempt[b].amount
    BY <1>2, <2>1 DEF Row
  <2> QED BY <2>2, SameKeeps
<1>5. CASE ApplyAnswer(s) /\ ~UNCHANGED attempt
  <2>1. ask[s].a \in Attempts
    BY <1>1, <1>5 DEF ApplyAnswer, AskFits
  <2>2. PICK to \in {"processing", "failed", "expired"} : attempt' = Moved(ask[s].a, to)
    BY <1>5 DEF ApplyAnswer
  <2>3. to \in States \ {"none", "succeeded"}
    BY DEF States
  <2> QED BY <1>5, <2>1, <2>2, <2>3, MovedKeeps
<1>6. CASE LockLink(s) /\ ~UNCHANGED attempt
  <2>1. PICK a \in ask[s].left, answer \in {"ended", "completed", "unknown"} :
          /\ Expire(a, answer)
          /\ attempt' = IF answer # "ended" THEN attempt
                        ELSE IF attempt[a].state = "open" THEN Moved(a, "expired")
                        ELSE [attempt EXCEPT ![a].url = FALSE]
    BY <1>6 DEF LockLink
  <2>2. a \in Attempts
    BY DEF IInv, TypeOK, Asked
  <2>3. CASE attempt' = Moved(a, "expired") /\ answer = "ended"
    <3>1. page[a].state # "paid"
      BY <2>1, <2>3 DEF Expire, Ending
    <3>2. "expired" \in States \ {"none", "succeeded"}
      BY DEF States
    <3> QED BY <2>2, <2>3, <3>1, <3>2, MovedKeeps
  <2>4. CASE attempt' = [attempt EXCEPT ![a].url = FALSE]
    <3>1. ASSUME NEW b \in Attempts
          PROVE  /\ attempt'[b].state = attempt[b].state /\ attempt'[b].slot = attempt[b].slot
                 /\ attempt'[b].flag = attempt[b].flag /\ attempt'[b].amount = attempt[b].amount
      BY <1>2, <2>4 DEF Row
    <3> QED BY <3>1, SameKeeps
  <2> QED BY <1>6, <2>1, <2>3, <2>4
<1>7. CASE Take(s) /\ ~UNCHANGED attempt
  <2>1. PICK a \in Attempts : a = ask[s].a
    BY <1>1, <1>7 DEF Take, AskFits
  <2>2. attempt[a].state \in Moves("succeeded") /\ attempt' = [attempt EXCEPT ![a].state = "succeeded"]
    BY <1>7, <2>1 DEF Take
  <2>3. attempt[a].slot
    BY <1>1, <1>7, <2>1, <2>2 DEF Take, TakesHeld
  <2>4. attempt'[a].state = "succeeded" /\ attempt'[a].amount = attempt[a].amount
        /\ attempt'[a].flag = attempt[a].flag /\ attempt'[a].slot = attempt[a].slot
    BY <1>2, <2>2 DEF Row
  <2>5. \A b \in Attempts \ {a} : attempt'[b] = attempt[b]
    BY <1>2, <2>2
  <2> QED BY <1>7, <2>1, <2>2, <2>3, <2>4, <2>5 DEF Arrives
<1>8. CASE TakeBack(s) /\ ~UNCHANGED attempt
  <2>1. PICK a \in Attempts : a = ask[s].a
    BY <1>1, <1>8 DEF TakeBack, AskFits
  <2> DEFINE row == [attempt[a] EXCEPT !.state = "succeeded", !.slot = TRUE]
  <2>2. /\ attempt[a].state \in Moves("succeeded") /\ attempt' = [attempt EXCEPT ![a] = row]
        /\ Holders \subseteq {a}
    BY <1>8, <2>1 DEF TakeBack
  <2>3. row.state = "succeeded" /\ row.amount = attempt[a].amount /\ row.slot /\ row.flag = attempt[a].flag
    BY <1>2 DEF Row
  <2> HIDE DEF row
  <2>4. attempt'[a] = row /\ \A b \in Attempts \ {a} : attempt'[b] = attempt[b]
    BY <1>2, <2>2
  <2> QED BY <1>8, <2>1, <2>2, <2>3, <2>4 DEF Arrives
<1>9. CASE FlagTwo(s) /\ ~UNCHANGED attempt
  <2>1. PICK a \in Attempts : a = ask[s].a
    BY <1>1, <1>9 DEF FlagTwo, AskFits
  <2> DEFINE row == [attempt[a] EXCEPT !.state = "succeeded", !.flag = TRUE]
  <2>2. /\ attempt[a].state \in Moves("succeeded") /\ attempt' = [attempt EXCEPT ![a] = row]
    BY <1>9, <2>1 DEF FlagTwo
  <2>3. row.state = "succeeded" /\ row.amount = attempt[a].amount /\ row.slot = attempt[a].slot /\ row.flag
    BY <1>2 DEF Row
  <2> HIDE DEF row
  <2>4. attempt'[a] = row /\ \A b \in Attempts \ {a} : attempt'[b] = attempt[b]
    BY <1>2, <2>2
  <2> QED BY <1>9, <2>1, <2>2, <2>3, <2>4 DEF Arrives
<1> QED BY <1>3, <1>4, <1>5, <1>6, <1>7, <1>8, <1>9 DEF Settle, Ask, CallSettle, ApplySuccess, Queue, SettleDies

\* The record job and the others leave slots where they are until the money is
\* written or refused.
LEMMA RecordRows ==
  ASSUME IInv, NEW r \in Recorders, (\E a \in Attempts : Claim(r, a)) \/ Record(r) \/ RunDies(r)
  PROVE  \A a \in Attempts : RowKeeps(a) /\ PaidKeeps(a)
<1>1. RunFits(r)
  BY DEF IInv
<1>2. CASE UNCHANGED attempt
  BY <1>2, SameKeeps
<1>3. ASSUME NEW a \in Attempts, NEW to \in {"recording", "recorded", "record_refused"}, attempt' = Moved(a, to)
      PROVE  \A b \in Attempts : RowKeeps(b) /\ PaidKeeps(b)
  <2>1. to \in States \ {"none", "succeeded"}
    BY DEF States
  <2> QED BY <1>3, <2>1, MovedKeeps
<1>4. ASSUME NEW a \in Attempts, Claim(r, a), ~UNCHANGED attempt PROVE attempt' = Moved(a, "recording")
  BY <1>4 DEF Claim
<1>5. ASSUME RefuseRecord(r) PROVE rec[r].a \in Attempts /\ attempt' = Moved(rec[r].a, "record_refused")
  BY <1>1, <1>5 DEF RefuseRecord, RunFits
<1>6. ASSUME Finish(r) PROVE rec[r].a \in Attempts /\ attempt' = Moved(rec[r].a, "recorded")
  BY <1>1, <1>6 DEF Finish, RunFits
<1> QED BY <1>2, <1>3, <1>4, <1>5, <1>6 DEF Record, ReadDue, LookWritten, WriteRow, RunDies

LEMMA OtherRows ==
  ASSUME IInv, NEW a \in Attempts, Abandon(a) \/ Dropped(a) \/ PickUp(a) \/ Check(a)
  PROVE  \A b \in Attempts : RowKeeps(b) /\ PaidKeeps(b)
<1>1. attempt \in [Attempts -> Row] /\ PageFits(a)
  BY DEF IInv, TypeOK
<1>2. CASE Abandon(a)
  <2>1. attempt' = [attempt EXCEPT ![a] = [attempt[a] EXCEPT !.state = "abandoned", !.slot = FALSE]]
    BY <1>2 DEF Abandon
  <2>2. \A b \in Attempts \ {a} : attempt'[b] = attempt[b]
    BY <1>1, <2>1
  <2>3. attempt'[a].state = "abandoned" /\ ~attempt'[a].slot /\ attempt'[a].amount = attempt[a].amount
        /\ attempt'[a].flag = attempt[a].flag /\ attempt[a].state = "creating"
    BY <1>1, <1>2, <2>1 DEF Row, Abandon
  <2>4. RowKeeps(a) /\ PaidKeeps(a)
    BY <2>3, SuccessMoves DEF RowKeeps, PaidKeeps, Arriving, TakenStates
  <2> QED BY <2>2, <2>4, SameKeeps
<1>3. CASE Check(a)
  <2>1. ASSUME NEW b \in Attempts
        PROVE  /\ attempt'[b].state = attempt[b].state /\ attempt'[b].slot = attempt[b].slot
               /\ attempt'[b].flag = attempt[b].flag /\ attempt'[b].amount = attempt[b].amount
    BY <1>1, <1>3 DEF Row, Check
  <2> QED BY <2>1, SameKeeps
<1>4. CASE Dropped(a) \/ PickUp(a)
  BY <1>4, SameKeeps DEF Dropped, PickUp
<1> QED BY <1>2, <1>3, <1>4

\* Amounts and flags of attempts once made.
Steady ==
  \A a \in Attempts : attempt[a].state # "none" =>
    attempt'[a].amount = attempt[a].amount /\ (attempt[a].flag => attempt'[a].flag)

\* The slot stays one attempt's, and money that arrives has it or is flagged.
LEMMA SlotsGo ==
  ASSUME IInv, SlotInv,
         (\A a \in Attempts : RowKeeps(a)) \/ NewHolder \/ (\E a \in Attempts : Arrives(a))
  PROVE  SlotsApart' /\ (\A a \in Attempts : HeldOrFlagged(a)') /\ Steady
<1>1. SlotsApart /\ \A a \in Attempts : HeldOrFlagged(a)
  BY DEF SlotInv
<1>2. CASE \A a \in Attempts : RowKeeps(a)
  BY <1>1, <1>2 DEF RowKeeps, SlotsApart, HeldOrFlagged, Steady, Arriving
<1>3. CASE NewHolder
  <2>1. PICK a \in Attempts : /\ Holders = {} /\ attempt[a].state = "none" /\ attempt'[a].state = "creating"
                              /\ \A b \in Attempts \ {a} : attempt'[b] = attempt[b]
    BY <1>3 DEF NewHolder
  <2>2. \A b \in Attempts : attempt'[b].slot => b = a
    BY <2>1 DEF Holders
  <2> QED BY <1>1, <2>1, <2>2 DEF SlotsApart, HeldOrFlagged, Steady, Arriving
<1>4. ASSUME NEW a \in Attempts, Arrives(a)
      PROVE  SlotsApart' /\ (\A b \in Attempts : HeldOrFlagged(b)') /\ Steady
  <2>1. attempt'[a].slot => \A b \in Attempts : attempt[b].slot => b = a
    BY <1>1, <1>4 DEF Arrives, SlotsApart, Holders
  <2>2. SlotsApart'
    BY <1>1, <1>4, <2>1 DEF Arrives, SlotsApart
  <2> QED BY <1>1, <1>4, <2>2 DEF Arrives, HeldOrFlagged, Steady
<1> QED BY <1>2, <1>3, <1>4

\* A settle that goes on to take its row's money finds the slot still there.
LEMMA TakeStands ==
  ASSUME IInv, SlotInv, NEW t \in Settlers, ask'[t] = ask[t],
         ask[t].step = "take" =>
           \/ RowKeeps(ask[t].a) /\ PaidKeeps(ask[t].a)
           \/ attempt'[ask[t].a] = attempt[ask[t].a]
           \/ attempt'[ask[t].a].state \in TakenStates
  PROVE  TakesHeld(t)'
<1> SUFFICES ASSUME ask[t].step = "take", attempt'[ask[t].a].state \in Moves("succeeded")
             PROVE  attempt'[ask[t].a].slot
  BY SuccessMoves DEF TakesHeld
<1>1. PICK a \in Attempts : a = ask[t].a /\ attempt[a].ref /\ page[a].state = "paid"
  BY DEF IInv, AskFits
<1>2. attempt[a].state \in States \ {"none", "creating", "abandoned"}
  BY <1>1 DEF IInv, PageFits, TypeOK, Row
<1>3. attempt'[a].state \notin TakenStates
  BY <1>1, SuccessMoves DEF TakenStates
<1>4. TakesHeld(t)
  BY DEF SlotInv
<1>5. CASE attempt'[a] = attempt[a]
  BY <1>1, <1>4, <1>5 DEF TakesHeld
<1>6. CASE RowKeeps(a) /\ PaidKeeps(a)
  <2>1. attempt[a].state \notin TakenStates
    BY <1>3, <1>6 DEF RowKeeps
  <2>2. attempt[a].state \in Moves("succeeded")
    BY <1>2, <2>1, SuccessMoves DEF States, TakenStates
  <2> QED BY <1>1, <1>4, <1>6, <2>2 DEF TakesHeld, PaidKeeps
<1> QED BY <1>1, <1>3, <1>5, <1>6

\* What runs read goes on leaving room, while no row is written.
LEMMA RoomStays ==
  ASSUME IInv, SlotInv, Steady, UNCHANGED rows, NEW r \in Recorders,
         rec'[r] = rec[r] \/ rec'[r].step \notin {"look", "write"}
  PROVE  LooksRight(r)'
<1>1. LooksRight(r) /\ RunFits(r)
  BY DEF SlotInv, IInv
<1>2. CASE rec'[r].step \notin {"look", "write"}
  BY <1>2 DEF LooksRight
<1>3. CASE rec'[r] = rec[r] /\ rec[r].step \in {"look", "write"}
  <2>1. rec[r].a \in Attempts /\ attempt[rec[r].a].state # "none"
    BY <1>1, <1>3 DEF RunFits, Recording
  <2>2. \A a \in rows : a \in Attempts /\ attempt[a].state # "none"
    BY DEF IInv, TypeOK, PageFits, Recording
  <2>3. \A a \in rows \cup {rec[r].a} :
          attempt'[a].amount = attempt[a].amount /\ (attempt[a].flag => attempt'[a].flag)
    BY <2>1, <2>2 DEF Steady
  <2> QED BY <1>1, <1>3, <2>3 DEF LooksRight, Affords, Told
<1> QED BY <1>2, <1>3

LEMMA RowsStayTold ==
  ASSUME IInv, SlotInv, Steady, UNCHANGED rows
  PROVE  RowsTold' /\ IsFiniteSet(rows)'
<1>1. \A a \in rows : a \in Attempts /\ attempt[a].state # "none"
  BY DEF IInv, TypeOK, PageFits, Recording
<1>2. \A a \in rows : attempt'[a].amount = attempt[a].amount /\ (attempt[a].flag => attempt'[a].flag)
  BY <1>1 DEF Steady
<1> QED BY <1>2 DEF SlotInv, RowsTold, Affords, Told

\* What is due leaves room for each payment written.
Costs == [a \in Attempts |-> attempt[a].amount]

LEMMA PaidIsSum ==
  ASSUME TypeOK, IsFiniteSet(rows)
  PROVE  Paid = Sum(Costs, rows) + byHand
<1> DEFINE OfRows(g) == g = [s \in SUBSET rows |-> IF s = {} THEN 0 ELSE attempt[Pick(s)].amount + g[s \ {Pick(s)}]]
<1>1. Paid = (CHOOSE g : OfRows(g))[rows] + byHand
  BY DEF Paid, Pick, MapThenSumSet, MapThenFoldSet
<1>2. Folds(Costs, Fold(Costs, rows), rows)
  BY FoldExists
<1>3. ASSUME NEW s \in SUBSET rows, s # {} PROVE attempt[Pick(s)].amount = Costs[Pick(s)]
  BY <1>3, Picked DEF Costs, TypeOK
<1>4. ASSUME NEW g PROVE OfRows(g) <=> Folds(Costs, g, rows)
  BY <1>3 DEF Folds
<1> HIDE DEF OfRows
<1>5. Folds(Costs, CHOOSE g : OfRows(g), rows)
  BY <1>2, <1>4
<1>6. (CHOOSE g : OfRows(g))[rows] = Fold(Costs, rows)[rows]
  <2>1. rows \in SUBSET rows
    OBVIOUS
  <2> QED BY <2>1, <1>2, <1>5, FoldsAgree
<1> QED BY <1>1, <1>6, SumIsFold

LEMMA DueFits ==
  ASSUME TypeOK, IsFiniteSet(rows), NEW a \in rows
  PROVE  attempt[a].amount + Due <= Owed
<1>1. \A x \in rows : Costs[x] = attempt[x].amount /\ Costs[x] \in Nat /\ Costs[x] <= Owed
  BY CheckoutAssumption DEF Costs, TypeOK, Row
<1>2. Costs[a] <= Sum(Costs, rows) /\ Sum(Costs, rows) \in Nat
  BY <1>1, SumHasEach, SumNatural
<1>3. Paid = Sum(Costs, rows) + byHand /\ byHand \in Nat /\ Owed \in Nat
  BY PaidIsSum, CheckoutAssumption DEF TypeOK
<1>4. CASE Paid \in 0 .. Owed
  BY <1>1, <1>2, <1>3, <1>4 DEF Due
<1>5. CASE Paid \notin 0 .. Owed
  BY <1>1, <1>3, <1>5 DEF Due
<1> QED BY <1>4, <1>5

\* A run that is about to write read that there is room; what two runs record at
\* the same time is one payment that has the slot and one that is flagged.
LEMMA RecordLooks ==
  ASSUME IInv, SlotInv, OneRun,
         NEW r \in Recorders, (\E a \in Attempts : Claim(r, a)) \/ Record(r) \/ RunDies(r)
  PROVE  (\A q \in Recorders : LooksRight(q)') /\ RowsTold' /\ IsFiniteSet(rows)'
<1>1. rec \in [Recorders -> Run] /\ rec[r] \in Run /\ attempt \in [Attempts -> Row] /\ rows \subseteq Attempts
  BY DEF IInv, TypeOK
<1>2. \A q \in Recorders \ {r} : rec'[q] = rec[q]
  BY OwnRun
<1>3. Steady
  BY RecordRows, SlotsGo
<1>4. LooksRight(r) /\ RowsTold /\ IsFiniteSet(rows) /\ \A q \in Recorders : LooksRight(q)
  BY DEF SlotInv
<1>5. ASSUME UNCHANGED rows, rec'[r] = rec[r] \/ rec'[r].step \notin {"look", "write"}
      PROVE  (\A q \in Recorders : LooksRight(q)') /\ RowsTold' /\ IsFiniteSet(rows)'
  BY <1>2, <1>3, <1>5, RoomStays, RowsStayTold
<1>6. ASSUME UNCHANGED rows, LooksRight(r)'
      PROVE  (\A q \in Recorders : LooksRight(q)') /\ RowsTold' /\ IsFiniteSet(rows)'
  <2>1. \A q \in Recorders \ {r} : LooksRight(q)'
    BY <1>2, <1>3, <1>6, RoomStays
  <2> QED BY <1>3, <1>6, <2>1, RowsStayTold
<1>7. CASE \E a \in Attempts : Claim(r, a)
  <2>1. PICK a \in Attempts : Claim(r, a)
    BY <1>7
  <2>2. rec'[r] = rec[r] \/ rec'[r].step \notin {"look", "write"}
    BY <1>1, <2>1 DEF Claim, NoRun
  <2> QED BY <1>5, <2>1, <2>2 DEF Claim
<1>8. CASE ReadDue(r)
  <2>1. rec'[r].step = "look" /\ rec'[r].due = Due /\ UNCHANGED <<attempt, rows>>
    BY <1>1, <1>8 DEF ReadDue, Run
  <2>2. \A b \in rows : attempt[b].amount + Due <= Owed
    BY <1>4, DueFits DEF IInv
  <2>3. LooksRight(r)'
    BY <2>1, <2>2 DEF LooksRight
  <2> QED BY <1>6, <2>1, <2>3
<1>9. CASE LookWritten(r)
  <2>1. rec'[r].a = rec[r].a /\ UNCHANGED <<attempt, rows>> /\ rec[r].step = "look"
    BY <1>9, RunStep DEF LookWritten
  <2>2. rec'[r].step = "write" => attempt[rec[r].a].amount <= rec[r].due
    <3>1. rec[r].a \in Attempts
      BY <2>1 DEF IInv, RunFits
    <3>2. attempt[rec[r].a].amount \in Nat /\ rec[r].due \in Nat
      BY <1>1, <3>1, CheckoutAssumption DEF Row, Run
    <3> QED BY <1>9, <3>2, RunStep DEF LookWritten
  <2>3. rec'[r].step \in {"finish", "refuse", "write"}
    BY <1>9, RunStep DEF LookWritten
  <2>4. ASSUME rec'[r].step = "write", NEW b \in rows \ {rec[r].a}
        PROVE  Affords(b, rec[r].a) \/ Told(b, rec[r].a)
    <3>1. attempt[b].amount + rec[r].due <= Owed \/ Told(b, rec[r].a)
      BY <1>4, <2>1, <2>4 DEF LooksRight
    <3>2. rec[r].a \in Attempts
      BY <2>1 DEF IInv, RunFits
    <3>3. attempt[b].amount \in Nat /\ attempt[rec[r].a].amount \in Nat /\ rec[r].due \in Nat /\ Owed \in Nat
      BY <1>1, <3>2, CheckoutAssumption DEF Row, Run
    <3> QED BY <2>2, <2>4, <3>1, <3>3 DEF Affords
  <2>5. LooksRight(r)'
    BY <2>1, <2>3, <2>4 DEF LooksRight, Affords, Told
  <2> QED BY <1>6, <2>1, <2>5
<1>10. CASE WriteRow(r)
  <2>1. CASE rows' = rows
    <3>1. rec'[r].step \notin {"look", "write"}
      BY <1>10, RunStep DEF WriteRow, RunTriesAgain
    <3> QED BY <1>5, <2>1, <3>1
  <2>2. CASE rows' # rows
    <3>1. PICK a \in Attempts : a = rec[r].a /\ attempt[a].state = "recording"
      BY <1>10 DEF WriteRow, IInv, RunFits, OneRun
    <3>2. rows' = rows \cup {a} /\ rec'[r].step = "finish" /\ UNCHANGED attempt
      BY <1>10, <2>2, <3>1, RunStep DEF WriteRow
    <3>3. \A b \in rows \ {a} : Affords(b, a) \/ Told(b, a)
      BY <1>4, <1>10, <3>1 DEF LooksRight, WriteRow
    <3>4. \A b \in rows \ {a} : Affords(a, b) \/ Told(a, b)
      <4>1. \A b \in rows : attempt[a].amount + attempt[b].amount = attempt[b].amount + attempt[a].amount
        BY <1>1 DEF Row
      <4> QED BY <3>3, <4>1 DEF Affords, Told
    <3>5. RowsTold'
      BY <1>4, <3>2, <3>3, <3>4 DEF RowsTold, Affords, Told
    <3>6. ASSUME NEW q \in Recorders \ {r}, rec[q].step \in {"look", "write"}, rec[q].a # a
          PROVE  Told(a, rec[q].a)
      <4>1. rec[q].a \in Attempts /\ attempt[rec[q].a].state = "recording"
        BY <3>6 DEF IInv, RunFits, OneRun
      <4>2. HeldOrFlagged(a) /\ HeldOrFlagged(rec[q].a) /\ SlotsApart
        BY <4>1 DEF SlotInv
      <4> QED BY <3>1, <3>6, <4>1, <4>2 DEF HeldOrFlagged, SlotsApart, Told, Arriving
    <3>7. \A q \in Recorders \ {r} : LooksRight(q)'
      BY <1>2, <1>4, <3>2, <3>6 DEF LooksRight, Affords, Told
    <3>8. LooksRight(r)'
      BY <3>2 DEF LooksRight
    <3>9. IsFiniteSet(rows)'
      BY <1>4, <3>2, FS_AddElement
    <3> QED BY <3>5, <3>7, <3>8, <3>9
  <2> QED BY <2>1, <2>2
<1>11. CASE RefuseRecord(r) \/ Finish(r) \/ RunDies(r)
  <2>1. rec'[r].step = "idle" /\ UNCHANGED rows
    BY <1>11, RunStep DEF RefuseRecord, Finish, RunDies, RunEnds, RunTriesAgain
  <2> QED BY <1>5, <2>1
<1> QED BY <1>7, <1>8, <1>9, <1>10, <1>11 DEF Record

\* A step of the requests', the settles' or the others': no row is written, and
\* no run goes on.
LEMMA RowsRest ==
  ASSUME IInv, SlotInv, UNCHANGED <<rows, rec>>,
         (\A a \in Attempts : RowKeeps(a)) \/ NewHolder \/ (\E a \in Attempts : Arrives(a)),
         \A t \in Settlers : TakesHeld(t)'
  PROVE  SlotInv'
<1>1. SlotsApart' /\ (\A a \in Attempts : HeldOrFlagged(a)') /\ Steady
  BY SlotsGo
<1>2. \A r \in Recorders : LooksRight(r)'
  BY <1>1, RoomStays
<1>3. RowsTold' /\ IsFiniteSet(rows)'
  BY <1>1, RowsStayTold
<1> QED BY <1>1, <1>2, <1>3 DEF SlotInv

\* A settle goes to take its row's money only where it just read that the row may
\* move and has the slot.
LEMMA GoesToTake ==
  ASSUME IInv, NEW s \in Settlers, (\E a \in Attempts : Ask(s, a)) \/ Settle(s) \/ SettleDies(s),
         ask'[s].step = "take"
  PROVE  UNCHANGED attempt /\ ask'[s].a = ask[s].a /\ attempt[ask[s].a].slot
<1>1. ask \in [Settlers -> Asked] /\ ask[s] \in Asked
  BY DEF IInv, TypeOK
<1>2. ASSUME NEW a \in Attempts, Ask(s, a) PROVE FALSE
  <2>1. PICK seen, try, owes :
          ask' = [ask EXCEPT ![s] = [NoAsk EXCEPT !.step = "call", !.a = a, !.seen = seen, !.try = try, !.owes = owes]]
    BY <1>2 DEF Ask
  <2>2. ask'[s].step = "call"
    BY <1>1, <2>1 DEF NoAsk
  <2> QED BY <2>2
<1>3. CASE CallSettle(s)
  <2>1. PICK answer \in {"pending", "processing", "succeeded", "failed", "expired"} :
          \/ ask' = [ask EXCEPT ![s] = [ask[s] EXCEPT
                 !.step = IF ask[s].owes /\ answer = "failed" THEN "retry" ELSE "apply", !.answer = answer]]
          \/ AskEnds(s)
    BY <1>3 DEF CallSettle
  <2>2. CASE AskEnds(s)
    BY <2>2, AskStep
  <2>3. CASE ~AskEnds(s)
    <3> DEFINE step == IF ask[s].owes /\ answer = "failed" THEN "retry" ELSE "apply"
    <3>1. step # "take"
      OBVIOUS
    <3>2. ask' = [ask EXCEPT ![s] = [ask[s] EXCEPT !.step = step, !.answer = answer]]
      BY <2>1, <2>3
    <3> HIDE DEF step
    <3>3. ask'[s].step = step
      BY <1>1, <3>2 DEF Asked
    <3> QED BY <3>1, <3>3
  <2> QED BY <2>2, <2>3
<1>4. CASE ApplyAnswer(s)
  <2>1. AskEnds(s) \/ ask' = [ask EXCEPT ![s] = [ask[s] EXCEPT !.step = "lock", !.left = Made]]
    BY <1>4 DEF ApplyAnswer
  <2> QED BY <1>1, <2>1, AskStep DEF Asked
<1>5. CASE LockLink(s)
  <2>1. PICK a \in ask[s].left : ask' = [ask EXCEPT ![s] = IF ask[s].left = {a} THEN NoAsk
                                                          ELSE [ask[s] EXCEPT !.left = ask[s].left \ {a}]]
    BY <1>5 DEF LockLink
  <2>2. ask[s].step = "lock"
    BY <1>5 DEF LockLink
  <2>3. ask'[s] = NoAsk \/ ask'[s] = [ask[s] EXCEPT !.left = ask[s].left \ {a}]
    BY <1>1, <2>1
  <2>4. ask'[s].step \in {"idle", "lock"}
    BY <1>1, <2>2, <2>3 DEF Asked, NoAsk
  <2> QED BY <2>4
<1>6. CASE ApplySuccess(s)
  BY <1>6, AskStep DEF ApplySuccess
<1>7. CASE NextTry(s) \/ Take(s) \/ TakeBack(s) \/ FlagTwo(s) \/ Queue(s) \/ SettleDies(s)
  BY <1>7, AskStep DEF NextTry, Take, TakeBack, FlagTwo, Queue, SettleDies
<1> QED BY <1>2, <1>3, <1>4, <1>5, <1>6, <1>7 DEF Settle

LEMMA SettleSlots ==
  ASSUME IInv, SlotInv, OneSettleEach,
         NEW s \in Settlers, (\E a \in Attempts : Ask(s, a)) \/ Settle(s) \/ SettleDies(s)
  PROVE  SlotInv'
<1>1. (\A t \in Settlers \ {s} : ask'[t] = ask[t]) /\ UNCHANGED <<rows, rec>>
  BY OwnAsk
<1>2. TakesHeld(s)'
  BY GoesToTake DEF TakesHeld
<1>3. \A t \in Settlers : ask[t].step # "idle" => ask[t].a \in Attempts
  BY DEF IInv, AskFits
<1>4. CASE \A a \in Attempts : RowKeeps(a) /\ (PaidKeeps(a) \/ (ApplyAnswer(s) /\ a = ask[s].a))
  <2>1. ASSUME NEW t \in Settlers \ {s} PROVE TakesHeld(t)'
    <3>1. ask[t].step = "take" => ~(ApplyAnswer(s) /\ ask[t].a = ask[s].a)
      BY DEF OneSettleEach, ApplyAnswer
    <3>2. ask[t].step = "take" => RowKeeps(ask[t].a) /\ PaidKeeps(ask[t].a)
      BY <1>3, <1>4, <3>1
    <3> QED BY <1>1, <3>2, TakeStands
  <2> QED BY <1>1, <1>2, <1>4, <2>1, RowsRest
<1>5. CASE (Take(s) \/ TakeBack(s) \/ FlagTwo(s)) /\ Arrives(ask[s].a)
  <2>1. PICK a \in Attempts : a = ask[s].a /\ Arrives(a)
    BY <1>5 DEF Arrives
  <2>2. ASSUME NEW t \in Settlers \ {s} PROVE TakesHeld(t)'
    <3>1. ask[t].step = "take" => \/ attempt'[ask[t].a] = attempt[ask[t].a]
                                  \/ attempt'[ask[t].a].state \in TakenStates
      BY <1>3, <2>1 DEF Arrives, TakenStates
    <3> QED BY <1>1, <3>1, TakeStands
  <2> QED BY <1>1, <1>2, <2>1, <2>2, RowsRest
<1> QED BY <1>4, <1>5, SettleRows

LEMMA NextSlots ==
  ASSUME IInv, OneRun, SlotInv, OneSettleEach, [Next]_vars
  PROVE  SlotInv'
<1>1. ASSUME UNCHANGED <<ask, rows, rec>>, \A a \in Attempts : RowKeeps(a) /\ PaidKeeps(a)
      PROVE  SlotInv'
  <2>1. \A t \in Settlers : ask[t].step = "take" => ask[t].a \in Attempts
    BY DEF IInv, AskFits
  <2>2. \A t \in Settlers : TakesHeld(t)'
    BY <1>1, <2>1, TakeStands
  <2> QED BY <1>1, <2>2, RowsRest
<1>2. ASSUME UNCHANGED <<attempt, ask, rows, rec>> PROVE SlotInv'
  BY <1>1, <1>2, SameKeeps
<1>3. CASE Provider
  BY <1>2, <1>3 DEF Provider, Pay, BankSays, Lapse
<1>4. ASSUME NEW c \in Customers, Press(c) \/ Request(c) \/ RequestDies(c) PROVE SlotInv'
  <2>1. UNCHANGED <<rows, ask, rec>>
    BY <1>4, OwnRequest
  <2>2. CASE NewHolder
    <3>1. ASSUME NEW t \in Settlers PROVE TakesHeld(t)'
      <4>1. ask[t].step = "take" => ask[t].a \in Attempts /\ attempt[ask[t].a].state # "none"
        BY DEF IInv, AskFits, PageFits
      <4>2. ask[t].step = "take" => attempt'[ask[t].a] = attempt[ask[t].a]
        BY <2>2, <4>1 DEF NewHolder
      <4> QED BY <2>1, <4>2, TakeStands
    <3> QED BY <2>1, <2>2, <3>1, RowsRest
  <2> QED BY <1>1, <1>4, <2>1, <2>2, RequestRows
<1>5. ASSUME NEW s \in Settlers, (\E a \in Attempts : Ask(s, a)) \/ Settle(s) \/ SettleDies(s) PROVE SlotInv'
  BY <1>5, SettleSlots
<1>6. ASSUME NEW r \in Recorders, (\E a \in Attempts : Claim(r, a)) \/ Record(r) \/ RunDies(r) PROVE SlotInv'
  <2>1. UNCHANGED ask /\ \A a \in Attempts : RowKeeps(a) /\ PaidKeeps(a)
    BY <1>6, OwnRun, RecordRows
  <2>2. \A t \in Settlers : ask[t].step = "take" => ask[t].a \in Attempts
    BY DEF IInv, AskFits
  <2>3. \A t \in Settlers : TakesHeld(t)'
    BY <2>1, <2>2, TakeStands
  <2>4. SlotsApart' /\ \A a \in Attempts : HeldOrFlagged(a)'
    BY <2>1, SlotsGo
  <2>5. (\A q \in Recorders : LooksRight(q)') /\ RowsTold' /\ IsFiniteSet(rows)'
    BY <1>6, RecordLooks
  <2> QED BY <2>3, <2>4, <2>5 DEF SlotInv
<1>7. ASSUME NEW a \in Attempts, Abandon(a) \/ Dropped(a) \/ PickUp(a) \/ Check(a) PROVE SlotInv'
  <2>1. UNCHANGED <<ask, rows, rec>>
    BY <1>7 DEF Abandon, Dropped, PickUp, Check
  <2> QED BY <1>1, <1>7, <2>1, OtherRows
<1>8. CASE RecordByHand \/ UNCHANGED vars
  BY <1>2, <1>8 DEF RecordByHand, vars
<1> QED BY <1>3, <1>4, <1>5, <1>6, <1>7, <1>8 DEF Next

\* Two attempts that took more than the payable ever owed are never both recorded
\* without a person being told: for any number of attempts, requests and runs,
\* what people record by hand meanwhile, crashes, lost answers and refusals.  It
\* takes that an attempt is settled once at a time, and that no record job is
\* reclaimed while its first run goes on.
THEOREM PaymentsAreNoticed ==
  ASSUME "twice" \notin Faults
  PROVE  Spec /\ []OneSettleEach => []TwoAreNoticed
<1>1. Init => OneRun /\ SlotInv
  <2> SUFFICES ASSUME Init PROVE OneRun /\ SlotInv
    OBVIOUS
  <2>1. OneRun
    BY DEF Init, OneRun, NoRun, NoRow
  <2>2. SlotsApart /\ \A a \in Attempts : HeldOrFlagged(a)
    BY DEF Init, SlotsApart, HeldOrFlagged, Arriving, NoRow
  <2>3. (\A s \in Settlers : TakesHeld(s)) /\ \A r \in Recorders : LooksRight(r)
    BY DEF Init, TakesHeld, LooksRight, NoAsk, NoRun
  <2>4. RowsTold /\ IsFiniteSet(rows)
    BY FS_EmptySet DEF Init, RowsTold
  <2> QED BY <2>1, <2>2, <2>3, <2>4 DEF SlotInv
<1>2. IInv /\ OneRun /\ SlotInv /\ OneSettleEach /\ [Next]_vars => OneRun' /\ SlotInv'
  BY NextOneRun, NextSlots
<1>3. IInv /\ SlotInv => TwoAreNoticed
  <2> SUFFICES ASSUME IInv, SlotInv, NEW a \in Attempts, NEW b \in Attempts, a # b,
                      attempt[a].amount + attempt[b].amount > Owed,
                      attempt[a].state = "recorded", attempt[b].state = "recorded"
               PROVE  attempt[a].flag \/ attempt[b].flag
    BY DEF TwoAreNoticed
  <2>1. a \in rows /\ b \in rows
    BY DEF IInv, PageFits
  <2>2. attempt[a].amount \in Nat /\ attempt[b].amount \in Nat /\ Owed \in Nat
    BY CheckoutAssumption DEF IInv, TypeOK, Row
  <2>3. Affords(a, b) \/ Told(a, b)
    BY <2>1 DEF SlotInv, RowsTold
  <2> QED BY <2>2, <2>3 DEF Affords, Told
<1> QED BY <1>1, <1>2, <1>3, Invariant, PTL DEF Spec
=============================================================================

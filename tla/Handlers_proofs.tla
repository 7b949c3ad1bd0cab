--------------------------- MODULE Handlers_proofs ---------------------------
(***************************************************************************)
(* Proofs about one request, for any users, grants, thumbnails and images: *)
(* who may upload, what is left when the request is over, and which        *)
(* commands are run for thumbnails.                                        *)
(***************************************************************************)
EXTENDS Handlers, TLAPS

-----------------------------------------------------------------------------
(* Users' endpoints.                                                       *)

(* The grant is one of the very user whose endpoint it is.                 *)
Granted ==
  /\ scheme = "hmac" /\ grant.present /\ grant.signed
  /\ grant.user = path /\ user = path

Authenticated == {"extract", "parse", "get", "copy", "open", "process", "save",
                  "thumbs", "metadata", "serve"}

OwnInv ==
  /\ path \in Users \cup {NoUser}
  /\ route \in UserRoutes => path \in Users
  /\ at = "auth" => ~tmp /\ stored = 0
  /\ route \in UserRoutes /\ (at \in Authenticated \/ tmp \/ stored > 0) => Granted

(* The endpoints of users begin with authentication.                       *)
LEMMA InitOwn == ASSUME Init PROVE OwnInv
<1>1. path \in Users \cup {NoUser} /\ (route \in UserRoutes => path \in Users)
  BY DEF Init
<1>2. ~tmp /\ stored = 0
  BY DEF Init
<1>3. at \in Authenticated => route \notin UserRoutes
  BY DEF Init, Begin, Authenticated, Routes, UploadRoutes, UserRoutes
<1> QED BY <1>1, <1>2, <1>3 DEF OwnInv

(* No step leads back to authentication.                                   *)
LEMMA GoesOn ==
  ASSUME [Next]_vars
  PROVE  at' # "auth" \/ UNCHANGED vars
<1>0. CASE Accept
  BY <1>0 DEF Accept, GoOn
<1>1. CASE Unauthorized \/ OtherUser
  BY <1>1 DEF Unauthorized, OtherUser
<1>2. CASE Extract \/ ExtractFails
  BY <1>2 DEF Extract, ExtractFails, Write
<1>3. CASE Parse \/ ParseFails
  BY <1>3 DEF Parse, ParseFails, Answer, Write, GoOn
<1>4. CASE Get \/ GetFails
  BY <1>4 DEF Get, GetFails, Answer, GoOn
<1>5. CASE Copy \/ CopyFails
  BY <1>5 DEF Copy, CopyFails, Error, Respond, Answer, GoOn
<1>6. CASE Open \/ OpenFails
  BY <1>6 DEF Open, OpenFails, Error, Respond, Answer, GoOn
<1>7. CASE Process \/ ProcessFails
  BY <1>7 DEF Process, ProcessFails, Error, Respond, Answer, GoOn, Routes, UploadRoutes
<1>8. CASE Save \/ SaveThumb \/ SaveFails
  BY <1>8 DEF Save, SaveThumb, SaveFails, Error, Respond, Answer, GoOn
<1>9. CASE AllSaved \/ Metadata \/ Serve
  BY <1>9 DEF AllSaved, Metadata, Serve, Respond, GoOn
<1>10. CASE Deferred \/ Returned \/ Out
  BY <1>10 DEF Deferred, Returned, Out
<1>11. CASE UNCHANGED vars
  BY <1>11 DEF vars
<1> QED BY <1>0, <1>1, <1>2, <1>3, <1>4, <1>5, <1>6, <1>7, <1>8, <1>9, <1>10, <1>11 DEF Next, Step

(* Only places behind authentication lead to others, to a file or to an    *)
(* object saved.                                                           *)
LEMMA BehindAuthentication ==
  ASSUME [Next]_vars, ~Accept
  PROVE  (at' \in Authenticated \/ tmp' \/ stored' > 0)
           => (at \in Authenticated \/ tmp \/ stored > 0)
<1>1. CASE Unauthorized \/ OtherUser
  BY <1>1 DEF Unauthorized, OtherUser, Authenticated, files, images
<1>2. CASE Extract \/ ExtractFails
  BY <1>2 DEF Extract, ExtractFails, Write, Authenticated, files, images
<1>3. CASE Parse \/ ParseFails
  BY <1>3 DEF Parse, ParseFails, Answer, Write, GoOn, Authenticated, files, images
<1>4. CASE Get \/ GetFails
  BY <1>4 DEF Get, GetFails, Answer, GoOn, Authenticated, files, images
<1>5. CASE Copy \/ CopyFails
  BY <1>5 DEF Copy, CopyFails, Error, Respond, Answer, GoOn, Authenticated, files, images
<1>6. CASE Open \/ OpenFails
  BY <1>6 DEF Open, OpenFails, Error, Respond, Answer, GoOn, Authenticated, files, images
<1>7. CASE Process \/ ProcessFails
  BY <1>7 DEF Process, ProcessFails, Error, Respond, Answer, GoOn, Routes, UploadRoutes, Authenticated, files, images
<1>8. CASE Save \/ SaveThumb \/ SaveFails
  BY <1>8 DEF Save, SaveThumb, SaveFails, Error, Respond, Answer, GoOn, Authenticated, files, images
<1>9. CASE AllSaved \/ Metadata \/ Serve
  BY <1>9 DEF AllSaved, Metadata, Serve, Respond, GoOn, Authenticated, files, images
<1>10. CASE Deferred \/ Returned \/ Out
  BY <1>10 DEF Deferred, Returned, Out, Authenticated, files, images
<1>11. CASE UNCHANGED vars
  BY <1>11 DEF vars, Authenticated, files, images
<1> QED BY <1>1, <1>2, <1>3, <1>4, <1>5, <1>6, <1>7, <1>8, <1>9, <1>10, <1>11 DEF Next, Step

(* The checks of GetUser and of the endpoint together are those of Granted. *)
LEMMA AcceptGrants ==
  ASSUME OwnInv, Accept, route \in UserRoutes
  PROVE  Granted'
<1>1. path \in Users /\ path # NoUser
  BY HandlersAssumption DEF OwnInv, HandlersAssumption
<1>2. GetUser(grant) = path /\ user' = path /\ UNCHANGED inputs
  BY DEF Accept
<1>3. scheme = "hmac" /\ grant.present /\ grant.signed /\ grant.user = path
  BY <1>1, <1>2 DEF GetUser
<1> QED BY <1>2, <1>3 DEF Granted, inputs

(* What else may disturb the invariant: a step that creates the file or    *)
(* saves is one behind authentication.                                     *)
LEMMA StepOwn ==
  ASSUME OwnInv, [Next]_vars
  PROVE  OwnInv'
<1>1. CASE Accept
  <2>1. at' = "extract" /\ UNCHANGED <<inputs, tmp, stored>>
    BY <1>1 DEF Accept, GoOn, files, images
  <2> QED BY <1>1, <2>1, AcceptGrants DEF OwnInv, inputs, Granted
<1>2. CASE ~Accept
  <2>1. UNCHANGED <<inputs, user>>
    BY <1>2 DEF Next, Step, vars, Unauthorized, OtherUser, Extract, ExtractFails, Parse,
       ParseFails, Get, GetFails, Copy, CopyFails, Open, OpenFails, Process, ProcessFails,
       Save, SaveThumb, SaveFails, AllSaved, Metadata, Serve, Deferred, Returned, Out
  <2>2. at' # "auth" \/ UNCHANGED vars
    BY <1>2, GoesOn
  <2>3. (at' \in Authenticated \/ tmp' \/ stored' > 0)
          => (at \in Authenticated \/ tmp \/ stored > 0)
    BY <1>2, BehindAuthentication
  <2> QED BY <2>1, <2>2, <2>3 DEF OwnInv, Granted, inputs, vars, files, images
<1> QED BY <1>1, <1>2

(* Nobody saves at the endpoint of a user without a signed grant of that   *)
(* user, whatever the requests and grants.                                 *)
THEOREM OnlyOwnUploads == Spec => []OwnUpload
<1>1. OwnInv => OwnUpload
  BY DEF OwnInv, OwnUpload, Granted
<1> QED BY InitOwn, StepOwn, <1>1, PTL DEF Spec

-----------------------------------------------------------------------------
(* What is left at the end.                                                *)

Calls == {"Close", "Remove", "Clean"}

Has(s, call) == \E i \in 1..Len(s) : s[i] = call

(* Deferring and running a call, as the sets of calls pending.              *)
LEMMA AppendHas ==
  ASSUME NEW s \in Seq(Calls), NEW x \in Calls
  PROVE  /\ Append(s, x) \in Seq(Calls)
         /\ Has(Append(s, x), x)
         /\ \A y : Has(s, y) => Has(Append(s, x), y)
         /\ \A y : Has(Append(s, x), y) => y = x \/ Has(s, y)
<1> DEFINE t == Append(s, x)
<1>1. t \in Seq(Calls) /\ Len(t) = Len(s) + 1 /\ Len(s) \in Nat
  OBVIOUS
<1>2. t[Len(t)] = x /\ \A i \in 1..Len(s) : t[i] = s[i]
  OBVIOUS
<1>3. Len(t) \in 1..Len(t) /\ 1..Len(t) = 1..Len(s) \cup {Len(t)}
  <2> HIDE DEF t
  <2> QED BY <1>1
<1> HIDE DEF t
<1> QED BY <1>1, <1>2, <1>3 DEF Has, t

(* The last call is the one that runs.                                     *)
LEMMA PopHas ==
  ASSUME NEW s \in Seq(Calls), s # <<>>
  PROVE  /\ SubSeq(s, 1, Len(s) - 1) \in Seq(Calls)
         /\ \A y : Has(s, y) => y = s[Len(s)] \/ Has(SubSeq(s, 1, Len(s) - 1), y)
         /\ \A y : Has(SubSeq(s, 1, Len(s) - 1), y) => Has(s, y)
         /\ s[Len(s)] \in Calls /\ Has(s, s[Len(s)])
BY DEF Has

(* Nothing is pending when nothing was deferred.                           *)
LEMMA EmptyHas == \A y : ~Has(<<>>, y)
BY DEF Has
(* Which places belong to which routes.                                    *)
RoutePlaces ==
  /\ at \in {"auth", "extract", "save", "metadata"} => route \in UploadRoutes
  /\ at \in {"get", "serve"} => route \notin UploadRoutes
  /\ at \in {"parse", "thumbs"} => route \in UploadRoutes \cup {"thumbnail"}

(* What has been deferred, and when there is an UploadedFile.              *)
DefersKnown ==
  /\ defers \in Seq(Calls)
  /\ at \in {"auth", "extract", "parse", "get", "out", "end"} => defers = <<>>
  /\ at \in {"auth", "extract", "parse", "get", "copy", "open"} => upload = "none"
  /\ at \in {"auth", "extract", "parse", "get", "copy"} => ~tmp
  /\ at \in {"copy", "open"} => ~Has(defers, "Clean")
  /\ upload = "nil" /\ Has(defers, "Clean") => route \in UploadRoutes

ReaderKnown == reader = "open" => Has(defers, "Close")

(* A temporary file has somebody to remove it, or is one of those left.    *)
FileKnown ==
  tmp =>
    \/ Has(defers, "Remove")
    \/ upload \in {"file", "nil"} /\ Has(defers, "Clean")
    \/ at = "open" /\ route \in UploadRoutes
    \/ at = "return" /\ upload = "none"
         /\ (IF route \in UploadRoutes THEN resp = 500 ELSE status \in {400, 500})
    \/ at \in {"out", "end"} /\ upload = "none" /\ status \in {400, 500}
    \/ panicked

BodyKnown ==
  /\ body = "open" => route \in UploadRoutes /\ at \notin {"auth", "extract"}
  /\ at \in {"out", "end"} /\ body = "open" => panicked \/ status = 400

(* A handler that returns has its answer.                                  *)
AnswerKnown ==
  /\ at = "return" =>
       IF route \in UploadRoutes THEN resp \in {200, 500}
                                 ELSE ~panicked /\ status # 0
  /\ panicked =>
       /\ at \in {"return", "out", "end"}
       /\ \/ route \in UploadRoutes /\ upload = "nil"
          \/ GetUser(grant) \notin {path, NoUser}
  /\ at \in {"out", "end"} => panicked \/ status # 0
  /\ route \notin UploadRoutes => resp = 0

EndInv ==
  /\ RoutePlaces
  /\ DefersKnown
  /\ ReaderKnown
  /\ FileKnown
  /\ BodyKnown
  /\ AnswerKnown

(* Nothing is open when a request comes in.                                *)
LEMMA InitEnd == ASSUME Init PROVE EndInv
<1>1. RoutePlaces
  BY DEF Init, Begin, RoutePlaces, Routes, UploadRoutes, UserRoutes
<1>2. at \notin {"return", "out", "end"} /\ ~panicked
  BY DEF Init, Begin, Routes, UploadRoutes, UserRoutes
<1>3. ~tmp /\ body = "none" /\ reader = "none" /\ upload = "none" /\ defers = <<>> /\ resp = 0
  BY DEF Init
<1>4. defers \in Seq(Calls)
  BY <1>3
<1>5. ~Has(defers, "Clean")
  BY <1>3, EmptyHas
<1> QED
  BY <1>1, <1>2, <1>3, <1>4, <1>5 DEF EndInv, DefersKnown, ReaderKnown, FileKnown,
     BodyKnown, AnswerKnown

(* Running the last deferred call leaves nothing without one.              *)
LEMMA DeferredEnd == ASSUME EndInv, Deferred PROVE EndInv'
<1> DEFINE call == defers[Len(defers)]
<1>1. /\ at = "return" /\ defers # <<>> /\ defers \in Seq(Calls)
      /\ UNCHANGED <<inputs, at, user, body, upload, images, resp, stats>>
  BY DEF Deferred, EndInv, DefersKnown
<1>2. /\ defers' \in Seq(Calls)
      /\ \A y : Has(defers, y) => y = call \/ Has(defers', y)
      /\ \A y : Has(defers', y) => Has(defers, y)
      /\ call \in Calls /\ Has(defers, call)
  BY <1>1, PopHas DEF Deferred
<1>3. reader' = IF call = "Close" THEN "closed" ELSE reader
  BY DEF Deferred
<1>4. panicked' <=> panicked \/ (call = "Clean" /\ upload = "nil")
  BY DEF Deferred
<1>5. tmp' <=> tmp /\ (call = "Close" \/ (call = "Clean" /\ upload = "nil"))
  BY DEF Deferred
<1>6. status' = IF panicked' THEN 0 ELSE status
  BY DEF Deferred
<1>7. RoutePlaces' /\ BodyKnown'
  BY <1>1 DEF EndInv, RoutePlaces, BodyKnown, inputs
<1>8. DefersKnown'
  BY <1>1, <1>2 DEF EndInv, DefersKnown, inputs
<1>9. ReaderKnown'
  BY <1>2, <1>3 DEF EndInv, ReaderKnown
<1>10. AnswerKnown'
  BY <1>1, <1>2, <1>4, <1>6 DEF EndInv, AnswerKnown, DefersKnown, inputs, GetUser
<1>11. FileKnown'
  <2>1. CASE ~tmp' \/ panicked'
    BY <2>1 DEF FileKnown
  <2>2. CASE tmp' /\ ~panicked'
    <3>1. tmp /\ ~panicked /\ call = "Close" /\ status' = status
      BY <1>4, <1>5, <1>6, <2>2
    <3> QED
      BY <1>1, <1>2, <3>1 DEF EndInv, FileKnown, inputs
  <2> QED BY <2>1, <2>2
<1> QED BY <1>7, <1>8, <1>9, <1>10, <1>11 DEF EndInv

(* The other steps.                                                        *)
LEMMA StepEnd == ASSUME EndInv, [Next]_vars PROVE EndInv'
<1> USE DEF EndInv
<1>0. CASE Deferred
  BY <1>0, DeferredEnd
<1>1. CASE Accept
  BY <1>1, EmptyHas DEF Accept, GoOn, inputs, files, images, GetUser, Calls,
     RoutePlaces, DefersKnown, ReaderKnown, FileKnown, BodyKnown, AnswerKnown
<1>2. CASE Unauthorized
  BY <1>2 DEF Unauthorized, inputs, files, images, GetUser, Calls,
     RoutePlaces, DefersKnown, ReaderKnown, FileKnown, BodyKnown, AnswerKnown
<1>3. CASE OtherUser
  BY <1>3 DEF OtherUser, inputs, files, images, GetUser, Calls,
     RoutePlaces, DefersKnown, ReaderKnown, FileKnown, BodyKnown, AnswerKnown
<1>4. CASE Extract
  BY <1>4 DEF Extract, inputs, files, images, GetUser, Calls,
     RoutePlaces, DefersKnown, ReaderKnown, FileKnown, BodyKnown, AnswerKnown
<1>5. CASE ExtractFails
  BY <1>5 DEF ExtractFails, Write, inputs, files, images, GetUser, Calls,
     RoutePlaces, DefersKnown, ReaderKnown, FileKnown, BodyKnown, AnswerKnown
<1>6. CASE Parse
  BY <1>6, EmptyHas DEF Parse, GoOn, Answer, Write, UploadRoutes, UserRoutes, inputs, files, images, GetUser, Calls,
     RoutePlaces, DefersKnown, ReaderKnown, FileKnown, BodyKnown, AnswerKnown
<1>7. CASE ParseFails
  BY <1>7 DEF ParseFails, Write, inputs, files, images, GetUser, Calls,
     RoutePlaces, DefersKnown, ReaderKnown, FileKnown, BodyKnown, AnswerKnown
<1>8. CASE Get
  BY <1>8, AppendHas, EmptyHas DEF Get, GoOn, inputs, files, images, GetUser, Calls,
     RoutePlaces, DefersKnown, ReaderKnown, FileKnown, BodyKnown, AnswerKnown
<1>9. CASE GetFails
  BY <1>9 DEF GetFails, Answer, Write, inputs, files, images, GetUser, Calls,
     RoutePlaces, DefersKnown, ReaderKnown, FileKnown, BodyKnown, AnswerKnown
<1>10. CASE Copy
  BY <1>10, AppendHas DEF Copy, GoOn, inputs, files, images, GetUser, Calls,
     RoutePlaces, DefersKnown, ReaderKnown, FileKnown, BodyKnown, AnswerKnown
<1>11. CASE CopyFails
  <2>1. CASE route \in UploadRoutes
    BY <1>11, <2>1 DEF CopyFails, Error, Respond, UploadRoutes, UserRoutes, inputs, files,
       images, GetUser, Calls,
       RoutePlaces, DefersKnown, ReaderKnown, FileKnown, BodyKnown, AnswerKnown
  <2>2. CASE route \notin UploadRoutes
    BY <1>11, <2>2 DEF CopyFails, Error, Answer, Write, inputs, files, images, GetUser, Calls,
       RoutePlaces, DefersKnown, ReaderKnown, FileKnown, BodyKnown, AnswerKnown
  <2> QED BY <2>1, <2>2
<1>12. CASE Open
  BY <1>12, AppendHas DEF Open, GoOn, inputs, files, images, GetUser, Calls,
     RoutePlaces, DefersKnown, ReaderKnown, FileKnown, BodyKnown, AnswerKnown
<1>13. CASE OpenFails
  <2>1. CASE route \in UploadRoutes
    BY <1>13, <2>1, AppendHas DEF OpenFails, Error, Respond, UploadRoutes, UserRoutes, inputs, files,
       images, GetUser, Calls,
       RoutePlaces, DefersKnown, ReaderKnown, FileKnown, BodyKnown, AnswerKnown
  <2>2. CASE route \notin UploadRoutes
    BY <1>13, <2>2, AppendHas DEF OpenFails, Error, Answer, Write, inputs, files, images, GetUser, Calls,
       RoutePlaces, DefersKnown, ReaderKnown, FileKnown, BodyKnown, AnswerKnown
  <2> QED BY <2>1, <2>2
<1>14. CASE Process
  BY <1>14 DEF Process, GoOn, inputs, files, images, GetUser, Calls,
     RoutePlaces, DefersKnown, ReaderKnown, FileKnown, BodyKnown, AnswerKnown
<1>15. CASE ProcessFails
  BY <1>15 DEF ProcessFails, Error, Respond, Answer, Write, inputs, files, images, GetUser, Calls,
     RoutePlaces, DefersKnown, ReaderKnown, FileKnown, BodyKnown, AnswerKnown
<1>16. CASE Save
  BY <1>16 DEF Save, GoOn, inputs, files, images, GetUser, Calls,
     RoutePlaces, DefersKnown, ReaderKnown, FileKnown, BodyKnown, AnswerKnown
<1>17. CASE SaveThumb
  BY <1>17 DEF SaveThumb, inputs, files, images, GetUser, Calls,
     RoutePlaces, DefersKnown, ReaderKnown, FileKnown, BodyKnown, AnswerKnown
<1>18. CASE SaveFails
  BY <1>18 DEF SaveFails, Error, Respond, Answer, Write, inputs, files, images, GetUser, Calls,
     RoutePlaces, DefersKnown, ReaderKnown, FileKnown, BodyKnown, AnswerKnown
<1>19. CASE AllSaved
  BY <1>19 DEF AllSaved, GoOn, UploadRoutes, UserRoutes, inputs, files, images, GetUser, Calls,
     RoutePlaces, DefersKnown, ReaderKnown, FileKnown, BodyKnown, AnswerKnown
<1>20. CASE Metadata
  BY <1>20 DEF Metadata, Respond, inputs, files, images, GetUser, Calls,
     RoutePlaces, DefersKnown, ReaderKnown, FileKnown, BodyKnown, AnswerKnown
<1>21. CASE Serve
  BY <1>21 DEF Serve, FileStatus, inputs, files, images, GetUser, Calls,
     RoutePlaces, DefersKnown, ReaderKnown, FileKnown, BodyKnown, AnswerKnown
<1>22. CASE Returned
  BY <1>22, EmptyHas DEF Returned, Write, inputs, files, images, GetUser, Calls,
     RoutePlaces, DefersKnown, ReaderKnown, FileKnown, BodyKnown, AnswerKnown
<1>23. CASE Out
  BY <1>23 DEF Out, inputs, files, images, GetUser, Calls,
     RoutePlaces, DefersKnown, ReaderKnown, FileKnown, BodyKnown, AnswerKnown
<1>24. CASE UNCHANGED vars
  BY <1>24 DEF vars, inputs, files, images, GetUser, RoutePlaces, DefersKnown, ReaderKnown, FileKnown, BodyKnown, AnswerKnown
<1> QED
  BY <1>0, <1>1, <1>2, <1>3, <1>4, <1>5, <1>6, <1>7, <1>8, <1>9, <1>10, <1>11, <1>12, <1>13, <1>14, <1>15, <1>16, <1>17, <1>18, <1>19, <1>20, <1>21, <1>22, <1>23, <1>24 DEF Next, Step

(* The invariant holds throughout.                                         *)
LEMMA EndAlways == Spec => []EndInv
BY InitEnd, StepEnd, PTL DEF Spec

(* On every path of every handler the readers are closed and the temporary *)
(* file is removed, but for the exceptions NothingHeld names.              *)
THEOREM NothingIsHeld == Spec => []NothingHeld
<1>1. EndInv => NothingHeld
  BY EmptyHas DEF EndInv, DefersKnown, ReaderKnown, FileKnown, BodyKnown, NothingHeld
<1> QED BY EndAlways, <1>1, PTL

(* Every path of every handler answers, but for the two that panic.        *)
THEOREM RequestsAreAnswered == Spec => []EveryRequestAnswered
<1>1. EndInv => EveryRequestAnswered
  BY DEF EndInv, AnswerKnown, EveryRequestAnswered
<1> QED BY EndAlways, <1>1, PTL

-----------------------------------------------------------------------------
(* Thumbnails.                                                             *)

(* A product with a natural number preserves the order.                    *)
LEMMA Monotone ==
  ASSUME NEW a \in Int, NEW b \in Int, NEW d \in Nat, a <= b
  PROVE  a * d <= b * d
<1>1. PICK e \in Nat : b = a + e
  BY b - a \in Nat
<1>2. b * d = a * d + e * d /\ e * d >= 0
  BY <1>1
<1> QED BY <1>2

(* RoundedUp is the least whole number that is not less than the quotient. *)
LEMMA RoundedUpClose ==
  ASSUME NEW u \in Int, NEW v \in Nat \ {0}
  PROVE  /\ RoundedUp(u, v) \in Int
         /\ u <= RoundedUp(u, v) * v /\ RoundedUp(u, v) * v < u + v
<1> DEFINE k == (-u) \div v
<1>1. k \in Int /\ k * v <= -u /\ -u < k * v + v
  <2>1. -u \in Int
    OBVIOUS
  <2> QED BY <2>1
<1>2. (-k) * v = -(k * v)
  <2> HIDE DEF k
  <2> QED BY <1>1
<1>3. RoundedUp(u, v) = -k
  BY DEF RoundedUp
<1> HIDE DEF k
<1> QED BY <1>1, <1>2, <1>3

(* A whole quotient, and so a whole product, is divided exactly.           *)
LEMMA ExactDivision ==
  ASSUME NEW s \in Int, NEW n \in Int, NEW d \in Nat \ {0}, n % d = 0
  PROVE  (s * n) \div d \in Int /\ ((s * n) \div d) * d = s * n
<1> DEFINE k == n \div d
           m == s * k
           x == s * n
           c == x \div d
<1>1. k \in Int /\ n = k * d
  BY DEF k
<1>2. m \in Int /\ x \in Int
  BY <1>1
<1>3. x = m * d
  <2> HIDE DEF k
  <2>1. x = s * (k * d)
    BY <1>1
  <2> QED BY <1>1, <2>1
<1>4. c \in Int /\ c * d <= x /\ x < c * d + d
  <2> HIDE DEF x
  <2> QED BY <1>2
<1>5. c = m
  <2> HIDE DEF c, m, x
  <2>1. CASE c <= m - 1
    <3>1. c * d <= (m - 1) * d
      BY <1>2, <1>4, <2>1, Monotone
    <3>2. (m - 1) * d = m * d - d
      BY <1>2
    <3> QED BY <1>2, <1>3, <1>4, <3>1, <3>2
  <2>2. CASE m + 1 <= c
    <3>1. (m + 1) * d <= c * d
      BY <1>2, <1>4, <2>2, Monotone
    <3>2. (m + 1) * d = m * d + d
      BY <1>2
    <3> QED BY <1>2, <1>3, <1>4, <3>1, <3>2
  <2> QED BY <1>2, <1>4, <2>1, <2>2
<1> HIDE DEF m, x
<1> QED BY <1>2, <1>3, <1>5 DEF x

(* What rounding up may make of a product that is off by its slack: it is  *)
(* an int, and off by no more than that.                                   *)
LEMMA RoundedWithin ==
  ASSUME NEW x \in Int, NEW d \in Nat \ {0}, Magnitude(x) <= Precision * d,
         NEW r \in RoundedUp(x * Precision - Slack(x, d), d * Precision)
                      ..RoundedUp(x * Precision + Slack(x, d), d * Precision)
  PROVE  /\ r \in Ints
         /\ Precision * (r * d - x) \in (-Slack(x, d))..(Precision * d + Slack(x, d) - 1)
<1> DEFINE P == Precision
           V == d * P
           X == x * P
           S == Slack(x, d)
           lo == RoundedUp(X - S, V)
           hi == RoundedUp(X + S, V)
<1>1. P \in Nat \ {0} /\ MaxInt \in Nat /\ P + 2 <= MaxInt
  BY GeometryAssumption DEF GeometryAssumption
<1>2. X \in Int /\ S \in Int /\ S >= d
  BY <1>1 DEF Slack, Magnitude
<1>3. V \in Nat \ {0} /\ d <= V /\ P * d = V
  <2>1. 1 * d <= P * d
    BY <1>1, Monotone
  <2> QED BY <1>1, <2>1
<1>4. X <= P * V /\ -(P * V) <= X /\ S <= V + V
  <2>1. x <= V /\ -V <= x
    BY <1>3 DEF Magnitude
  <2>2. x * P <= V * P /\ (-V) * P <= x * P
    <3>1. V \in Int /\ -V \in Int /\ P \in Nat
      BY <1>1, <1>3
    <3> HIDE DEF V
    <3> QED BY <2>1, <3>1, Monotone
  <2>3. V * P = P * V /\ (-V) * P = -(P * V)
    <3> HIDE DEF V
    <3> QED BY <1>1, <1>3
  <2>4. S <= V + V
    <3>1. Magnitude(x) <= V /\ Magnitude(x) \in Int
      BY <1>3 DEF Magnitude
    <3> HIDE DEF V
    <3> QED BY <1>3, <3>1 DEF Slack
  <2> HIDE DEF V
  <2> QED BY <2>2, <2>3, <2>4
<1>5. lo \in Int /\ X - S <= lo * V /\ hi \in Int /\ hi * V < X + S + V
  <2>1. X - S \in Int /\ X + S \in Int
    BY <1>2
  <2> HIDE DEF X, S, V
  <2> QED BY <1>3, <2>1, RoundedUpClose
<1>6. r \in Int /\ lo <= r /\ r <= hi
  <2>1. r \in lo..hi
    OBVIOUS
  <2> HIDE DEF lo, hi
  <2> QED BY <1>5, <2>1
<1>7. X - S <= r * V /\ r * V < X + S + V
  <2>1. lo * V <= r * V /\ r * V <= hi * V
    <3> HIDE DEF lo, hi, V
    <3> QED BY <1>3, <1>5, <1>6, Monotone
  <2>2. lo * V \in Int /\ r * V \in Int /\ hi * V \in Int
    <3> HIDE DEF lo, hi, V
    <3> QED BY <1>3, <1>5, <1>6
  <2> HIDE DEF lo, hi, V, X, S
  <2> QED BY <1>2, <1>3, <1>5, <2>1, <2>2
<1>8. r <= P + 2
  <2> SUFFICES ASSUME P + 3 <= r
               PROVE  FALSE
    BY <1>1, <1>6
  <2>1. (P + 3) * V <= r * V /\ (P + 3) * V = P * V + V + V + V
    <3> HIDE DEF V
    <3> QED BY <1>1, <1>3, <1>6, Monotone
  <2>2. P * V \in Int /\ r * V \in Int
    <3> HIDE DEF V
    <3> QED BY <1>1, <1>3, <1>6
  <2> HIDE DEF V, X, S
  <2> QED BY <1>2, <1>3, <1>4, <1>7, <2>1, <2>2
<1>9. -P - 2 <= r
  <2> SUFFICES ASSUME r <= -P - 3
               PROVE  FALSE
    BY <1>1, <1>6
  <2>1. r * V <= (-P - 3) * V /\ (-P - 3) * V = -(P * V) - V - V - V
    <3> HIDE DEF V
    <3> QED BY <1>1, <1>3, <1>6, Monotone
  <2>2. P * V \in Int /\ r * V \in Int
    <3> HIDE DEF V
    <3> QED BY <1>1, <1>3, <1>6
  <2> HIDE DEF V, X, S
  <2> QED BY <1>2, <1>3, <1>4, <1>7, <2>1, <2>2
<1>10. r \in Ints
  BY <1>1, <1>6, <1>8, <1>9 DEF Ints
<1>11. P * (r * d - x) = r * V - X
  <2>1. P * (r * d - x) = P * (r * d) - P * x
    BY <1>1, <1>6
  <2>2. P * (r * d) = r * (d * P) /\ P * x = x * P
    BY <1>1, <1>6
  <2> QED BY <2>1, <2>2
<1>12. P * (r * d - x) \in (-S)..(P * d + S - 1)
  <2>1. r * V \in Int
    <3> HIDE DEF V
    <3> QED BY <1>3, <1>6
  <2> HIDE DEF V, X, S
  <2> QED BY <1>2, <1>3, <1>7, <1>11, <2>1
<1> QED BY <1>10, <1>12

(* The quotient of two numbers, unless it is infinite or none, is a proper *)
(* fraction.                                                               *)
LEMMA QuotientProper ==
  ASSUME NEW a \in Numbers, NEW b \in Numbers
  PROVE  Quotient(a, b) \in Int \X Nat
<1>1. a[1] \in Int /\ a[2] \in Int /\ b[1] \in Int /\ b[2] \in Int
  BY DEF Numbers
<1> DEFINE n == a[1] * b[2]
           d == a[2] * b[1]
<1>2. n \in Int /\ d \in Int
  BY <1>1
<1>3. Quotient(a, b) = IF d < 0 THEN <<-n, -d>> ELSE <<n, d>>
  BY DEF Quotient
<1> HIDE DEF n, d
<1> QED BY <1>2, <1>3

(* The side that follows from another by a ratio has it, if neither is 0   *)
(* and the product is not too large.                                       *)
LEMMA CeilClose ==
  ASSUME NEW side \in Int, side # 0, NEW a \in Numbers, NEW b \in Numbers,
         NEW n \in Int, NEW d \in Nat \ {0}, Quotient(a, b) = <<n, d>>,
         Magnitude(side * n) <= Precision * d,
         NEW c \in Ceil(side, a, b)
  PROVE  HasRatio(c, side, n, d)
<1> DEFINE x == side * n
<1>1. x \in Int /\ Precision \in Nat \ {0} /\ MaxInt \in Nat /\ Precision * d >= 1
  <2>1. Precision \in Nat \ {0} /\ MaxInt \in Nat
    BY GeometryAssumption DEF GeometryAssumption
  <2>2. 1 * d <= Precision * d
    BY <2>1, Monotone
  <2> QED BY <2>1, <2>2
<1>2. CASE x = 0
  <2>1. n = 0
    BY <1>2
  <2>2. ~(Magnitude(n) > MaxInt * d)
    BY <1>1, <2>1 DEF Magnitude
  <2>3. c = 0
    BY <1>2, <2>2 DEF Ceil
  <2>4. Slack(x, d) = d
    BY <1>2 DEF Slack, Magnitude
  <2>5. c * d - x = 0
    BY <1>2, <2>3
  <2>6. Precision * (c * d - x) = 0
    BY <1>1, <2>5
  <2> QED BY <1>1, <2>4, <2>6 DEF HasRatio
<1>3. CASE x # 0 /\ a[2] = 1 /\ b[2] = 1 /\ n % d = 0
  <2>1. c = x \div d
    BY <1>3 DEF Ceil
  <2>2. c * d - x = 0
    <3>1. x \div d \in Int /\ (x \div d) * d = x
      BY <1>3, ExactDivision
    <3> HIDE DEF x
    <3> QED BY <1>1, <2>1, <3>1
  <2>3. Precision * (c * d - x) = 0
    BY <1>1, <2>2
  <2>4. Slack(x, d) \in Nat
    <3> HIDE DEF x
    <3> QED BY <1>1 DEF Slack, Magnitude
  <2> HIDE DEF x
  <2> QED BY <1>1, <2>3, <2>4 DEF HasRatio, x
<1>4. CASE x # 0 /\ ~(a[2] = 1 /\ b[2] = 1 /\ n % d = 0)
  <2> DEFINE R == RoundedUp(x * Precision - Slack(x, d), d * Precision)
                    ..RoundedUp(x * Precision + Slack(x, d), d * Precision)
  <2>1. c \in ToInt(R)
    BY <1>4 DEF Ceil
  <2>2. \A r \in R : /\ r \in Ints
                     /\ Precision * (r * d - x)
                          \in (-Slack(x, d))..(Precision * d + Slack(x, d) - 1)
    <3> HIDE DEF x
    <3> QED BY <1>1, RoundedWithin DEF x
  <2>3. R \subseteq Ints
    <3> HIDE DEF R
    <3> QED BY <2>2
  <2>4. c \in R
    <3> HIDE DEF R
    <3> QED BY <2>1, <2>3 DEF ToInt
  <2> HIDE DEF R
  <2> QED BY <2>2, <2>4 DEF HasRatio
<1> QED BY <1>2, <1>3, <1>4

(* A side that is kept is kept as it is.                                   *)
LEMMA KeptSide ==
  ASSUME NEW side \in Int, side # 0, Magnitude(side) <= Precision,
         NEW k \in Kept({0, side}), k # 0
  PROVE  k = side
<1>1. Quotient(One, One) = <<1, 1>> /\ One[2] = 1
  BY DEF Quotient, One
<1>2. MaxInt \in Nat /\ MaxInt >= 1 /\ Precision \in Nat
  BY GeometryAssumption DEF GeometryAssumption
<1>3. PICK s \in {0, side} : k \in Ceil(s, One, One)
  BY DEF Kept, Scaled
<1>4. ASSUME s = 0 PROVE FALSE
  BY <1>1, <1>2, <1>3, <1>4 DEF Ceil, Magnitude
<1>5. s = side
  BY <1>3, <1>4
<1>6. k \in {side \div 1}
  <2>1. side * 1 = side /\ 1 % 1 = 0 /\ Precision * 1 = Precision
    BY <1>2
  <2> QED BY <1>1, <1>3, <1>5, <2>1 DEF Ceil
<1> QED BY <1>6

(* The other side is computed from one that has been read.                 *)
LEMMA ScaledSide ==
  ASSUME NEW side \in Int, side # 0, NEW a \in Numbers, NEW b \in Numbers,
         NEW n \in Int, NEW d \in Nat \ {0}, Quotient(a, b) = <<n, d>>,
         Magnitude(side * n) <= Precision * d,
         NEW c \in Scaled({0, side}, a, b), c # 0
  PROVE  HasRatio(c, side, n, d)
<1>1. PICK s \in {0, side} : c \in Ceil(s, a, b)
  BY DEF Scaled
<1>2. ASSUME s = 0 PROVE FALSE
  <2>1. Magnitude(n) > MaxInt * d
    BY <1>1, <1>2 DEF Ceil
  <2>2. Magnitude(n) <= Magnitude(side * n)
    <3>1. CASE side >= 1 /\ n >= 0
      BY <3>1, 1 * n <= side * n, Monotone DEF Magnitude
    <3>2. CASE side >= 1 /\ n < 0
      <4>1. 1 * (-n) <= side * (-n) /\ side * (-n) = -(side * n)
        BY <3>2, -n \in Nat, Monotone
      <4> QED BY <3>2, <4>1 DEF Magnitude
    <3>3. CASE side <= -1 /\ n >= 0
      <4>1. side * n <= (-1) * n
        BY <3>3, Monotone
      <4> QED BY <3>3, <4>1 DEF Magnitude
    <3>4. CASE side <= -1 /\ n < 0
      <4>1. side * (-n) <= (-1) * (-n) /\ side * (-n) = -(side * n)
        BY <3>4, -n \in Nat, Monotone
      <4> QED BY <3>4, <4>1 DEF Magnitude
    <3> QED BY <3>1, <3>2, <3>3, <3>4
  <2>3. Precision * d <= MaxInt * d
    BY GeometryAssumption, Monotone DEF GeometryAssumption
  <2>4. /\ Magnitude(n) \in Int /\ Magnitude(side * n) \in Int
        /\ Precision * d \in Int /\ MaxInt * d \in Int
    BY GeometryAssumption DEF GeometryAssumption, Magnitude
  <2> QED BY <2>1, <2>2, <2>3, <2>4
<1>3. s = side
  BY <1>1, <1>2
<1> QED BY <1>1, <1>3, CeilClose

(* A reading of a side returns it or 0.                                    *)
LEMMA OneSide ==
  ASSUME NEW t \in Thumb, NEW d \in Dimensions
  PROVE  /\ \E w \in Int : ComputeWidth(t, d) = {0, w}
         /\ \E h \in Int : ComputeHeight(t, d) = {0, h}
<1>1. /\ t.width \in Int /\ t.maxWidth \in Int
      /\ t.height \in Int /\ t.maxHeight \in Int
  BY GeometryAssumption DEF Thumb, Ints, GeometryAssumption
<1>2. d[1] \in Int /\ d[2] \in Int
  BY HandlersAssumption DEF HandlersAssumption
<1> QED BY <1>1, <1>2 DEF ComputeWidth, ComputeHeight, Least

(* What a crop by ratio is, when a side is kept and the other follows.     *)
LEMMA CropFollows ==
  ASSUME NEW H \in Int, NEW a \in Numbers, NEW b \in Numbers,
         NEW computed \in Scaled({0, H}, a, b), NEW kept \in Kept({0, H}),
         NEW side \in {0, H}, 0 \notin {side, kept, computed}, Magnitude(side) <= Precision
  PROVE  LET q == Quotient(a, b)
         IN  /\ kept = side
             /\ q[2] # 0 /\ Magnitude(side * q[1]) <= Precision * q[2]
                  => HasRatio(computed, side, q[1], q[2])
<1>1. side = H /\ H # 0
  OBVIOUS
<1>2. kept = side
  BY <1>1, KeptSide
<1> DEFINE q == Quotient(a, b)
<1>3. q \in Int \X Nat /\ q = <<q[1], q[2]>> /\ q[1] \in Int /\ q[2] \in Nat
  <2>1. q \in Int \X Nat
    BY QuotientProper
  <2> HIDE DEF q
  <2> QED BY <2>1
<1>4. ASSUME q[2] # 0, Magnitude(side * q[1]) <= Precision * q[2]
      PROVE  HasRatio(computed, side, q[1], q[2])
  <2>1. Quotient(a, b) = <<q[1], q[2]>> /\ q[2] \in Nat \ {0}
    BY <1>3, <1>4
  <2> HIDE DEF q
  <2> QED BY <1>1, <1>3, <1>4, <2>1, ScaledSide
<1> QED BY <1>2, <1>4

(* A thumbnail's command is one that Commands allows.                      *)
MadeFrom(i) == \E d \in Dimensions : made[i] \in Commands(thumbs[i], d)

BeforeMade == {"auth", "extract", "parse", "get", "copy", "open", "process"}

MadeInv ==
  /\ thumbs \in Seq(Thumb)
  /\ at \in BeforeMade => made = <<>>
  /\ \A i \in DOMAIN made : i \in DOMAIN thumbs /\ MadeFrom(i)

(* No commands have been run when a request comes in.                      *)
LEMMA InitMade == ASSUME Init PROVE MadeInv
<1>1. thumbs = <<>> /\ made = <<>>
  BY DEF Init
<1> QED BY <1>1 DEF MadeInv

(* Thumbnails are read once, before there are commands, and the commands   *)
(* run once.                                                               *)
LEMMA StepMade == ASSUME MadeInv, [Next]_vars PROVE MadeInv'
<1>1. CASE Parse
  <2>1. made = <<>> /\ made' = made
    BY <1>1 DEF Parse, MadeInv, BeforeMade
  <2>2. thumbs' \in Seq(Thumb)
    BY <1>1, HandlersAssumption DEF Parse, HandlersAssumption
  <2> QED BY <2>1, <2>2 DEF MadeInv
<1>2. CASE Process
  <2>1. thumbs' = thumbs
    BY <1>2 DEF Process
  <2>2. at' \notin BeforeMade
    BY <1>2 DEF Process, GoOn, BeforeMade
  <2>3. PICK d \in Dimensions :
          /\ DOMAIN made' = DOMAIN thumbs
          /\ \A i \in DOMAIN thumbs : made'[i] \in Commands(thumbs[i], d)
    BY <1>2 DEF Process
  <2> QED BY <2>1, <2>2, <2>3 DEF MadeInv, MadeFrom
<1>3. CASE ~Parse /\ ~Process
  <2>1. UNCHANGED <<thumbs, made>>
    BY <1>3 DEF Next, Step, vars, images, Accept, Unauthorized, OtherUser, Extract,
       ExtractFails, ParseFails, Get, GetFails, Copy, CopyFails, Open, OpenFails,
       ProcessFails, Save, SaveThumb, SaveFails, AllSaved, Metadata, Serve, Deferred,
       Returned, Out
  <2>2. at' \in BeforeMade => at \in BeforeMade
    <3>1. CASE Accept \/ Unauthorized \/ OtherUser \/ Extract \/ ExtractFails
      BY <3>1 DEF Accept, Unauthorized, OtherUser, Extract, ExtractFails, GoOn, BeforeMade
    <3>2. CASE ParseFails \/ Get \/ GetFails \/ Copy
      BY <3>2 DEF ParseFails, Get, GetFails, Copy, GoOn, Answer, BeforeMade
    <3>3. CASE CopyFails \/ Open \/ OpenFails
      BY <3>3 DEF CopyFails, Open, OpenFails, Error, Answer, Respond, GoOn, BeforeMade
    <3>4. CASE ProcessFails \/ Save \/ SaveThumb \/ SaveFails
      BY <3>4 DEF ProcessFails, Save, SaveThumb, SaveFails, Error, Answer, Respond,
                  GoOn, BeforeMade
    <3>5. CASE AllSaved \/ Metadata \/ Serve
      BY <3>5 DEF AllSaved, Metadata, Serve, Respond, GoOn, BeforeMade
    <3>6. CASE Deferred \/ Returned \/ Out \/ UNCHANGED vars
      BY <3>6 DEF Deferred, Returned, Out, vars, BeforeMade
    <3> QED BY <1>3, <3>1, <3>2, <3>3, <3>4, <3>5, <3>6 DEF Next, Step
  <2> QED BY <2>1, <2>2 DEF MadeInv, MadeFrom
<1> QED BY <1>1, <1>2, <1>3

(* The invariant of thumbnails holds throughout.                           *)
LEMMA MadeAlways == Spec => []MadeInv
BY InitMade, StepMade, PTL DEF Spec

(* Whatever numbers a request has, and whatever the image, a crop by ratio *)
(* keeps the side it is computed from, and the other has the ratio to it.  *)
THEOREM CropsKeepRatio == Spec => []CropKeepsRatio
<1>1. ASSUME MadeInv PROVE CropKeepsRatio
  <2> SUFFICES ASSUME NEW i \in DOMAIN made
               PROVE  LET t    == thumbs[i]
                          c    == made[i]
                          wide == AtLeast(t.ratio[1], t.ratio[2])
                          side == IF wide THEN c.height ELSE c.width
                          kept == IF wide THEN c.crop[2] ELSE c.crop[1]
                          computed == IF wide THEN c.crop[1] ELSE c.crop[2]
                          q == IF wide THEN Quotient(t.ratio[1], t.ratio[2])
                                       ELSE Quotient(t.ratio[2], t.ratio[1])
                      IN t.shape = "custom" /\ t.gravity /\ Len(t.ratio) = 2
                           /\ 0 \notin {side, kept, computed} /\ Magnitude(side) <= Precision
                         => /\ kept = side
                            /\ q[2] # 0 /\ Magnitude(side * q[1]) <= Precision * q[2]
                                 => HasRatio(computed, side, q[1], q[2])
    BY DEF CropKeepsRatio
  <2> DEFINE t == thumbs[i]
             w == t.ratio[1]
             h == t.ratio[2]
  <2>1. t \in Thumb
    BY <1>1 DEF MadeInv
  <2> SUFFICES ASSUME t.shape = "custom", t.gravity, Len(t.ratio) = 2
               PROVE  LET c    == made[i]
                          wide == AtLeast(w, h)
                          side == IF wide THEN c.height ELSE c.width
                          kept == IF wide THEN c.crop[2] ELSE c.crop[1]
                          computed == IF wide THEN c.crop[1] ELSE c.crop[2]
                          q == IF wide THEN Quotient(w, h) ELSE Quotient(h, w)
                      IN 0 \notin {side, kept, computed} /\ Magnitude(side) <= Precision
                         => /\ kept = side
                            /\ q[2] # 0 /\ Magnitude(side * q[1]) <= Precision * q[2]
                                 => HasRatio(computed, side, q[1], q[2])
    OBVIOUS
  <2>2. w \in Numbers /\ h \in Numbers
    <3>1. t.ratio \in Seq(Numbers)
      BY <2>1 DEF Thumb
    <3> QED BY <3>1
  <2>3. PICK d \in Dimensions : made[i] \in CustomCommands(t, d)
    BY <1>1 DEF MadeInv, MadeFrom, Commands
  <2>4. PICK W \in Int, H \in Int : ComputeWidth(t, d) = {0, W} /\ ComputeHeight(t, d) = {0, H}
    BY <2>1, OneSide
  <2>5. PICK crop \in ComputeCrop(t, d) :
          made[i].width \in {0, W} /\ made[i].height \in {0, H} /\ made[i].crop = crop
    <3>1. Len(t.ratio) = 2 /\ Len(<<>>) = 0
      OBVIOUS
    <3>2. Crops(t, d) = ComputeCrop(t, d)
      <4> HIDE DEF t
      <4>1. t.ratio # <<>>
        BY <3>1
      <4> QED BY <3>1, <4>1 DEF Crops
    <3>3. PICK s \in ComputeWidth(t, d) \X ComputeHeight(t, d), crop \in ComputeCrop(t, d) :
            made[i] = Geometry(s[1], s[2], "fill", crop)
      BY <2>3, <3>2 DEF CustomCommands
    <3> QED BY <2>4, <3>3 DEF Geometry
  <2>6. CASE AtLeast(w, h)
    <3>1. crop \in Scaled({0, H}, w, h) \X Kept({0, H})
      BY <2>4, <2>5, <2>6 DEF ComputeCrop
    <3>2. crop[1] \in Scaled({0, H}, w, h) /\ crop[2] \in Kept({0, H})
      BY <3>1
    <3> DEFINE computed == made[i].crop[1]
               kept == made[i].crop[2]
               side == made[i].height
               q == Quotient(w, h)
    <3>3. computed \in Scaled({0, H}, w, h) /\ kept \in Kept({0, H}) /\ side \in {0, H}
      BY <2>5, <3>2
    <3>4. 0 \notin {side, kept, computed} /\ Magnitude(side) <= Precision
            => /\ kept = side
               /\ q[2] # 0 /\ Magnitude(side * q[1]) <= Precision * q[2]
                    => HasRatio(computed, side, q[1], q[2])
      <4> HIDE DEF computed, kept, side, w, h
      <4> QED BY <2>2, <3>3, CropFollows
    <3> HIDE DEF w, h
    <3> QED BY <2>6, <3>4
  <2>7. CASE ~AtLeast(w, h)
    <3>1. crop \in Kept({0, W}) \X Scaled({0, W}, h, w)
      BY <2>4, <2>5, <2>7 DEF ComputeCrop
    <3>2. crop[1] \in Kept({0, W}) /\ crop[2] \in Scaled({0, W}, h, w)
      BY <3>1
    <3> DEFINE computed == made[i].crop[2]
               kept == made[i].crop[1]
               side == made[i].width
               q == Quotient(h, w)
    <3>3. computed \in Scaled({0, W}, h, w) /\ kept \in Kept({0, W}) /\ side \in {0, W}
      BY <2>5, <3>2
    <3>4. 0 \notin {side, kept, computed} /\ Magnitude(side) <= Precision
            => /\ kept = side
               /\ q[2] # 0 /\ Magnitude(side * q[1]) <= Precision * q[2]
                    => HasRatio(computed, side, q[1], q[2])
      <4> HIDE DEF computed, kept, side, w, h
      <4> QED BY <2>2, <3>3, CropFollows
    <3> HIDE DEF w, h
    <3> QED BY <2>7, <3>4
  <2> QED BY <2>6, <2>7
<1> QED BY <1>1, MadeAlways, PTL

-----------------------------------------------------------------------------
(* Answers and what is stored.                                             *)

AllStored == stored = 1 + Len(thumbs) /\ Len(made) = Len(thumbs)

RenderStored == stored = (IF thumbs[1].nostore THEN 0 ELSE 1) /\ Len(made) = 1

(* How far saving has come, by place.                                      *)
SavedSoFar ==
  /\ stored \in Nat
  /\ at \in BeforeMade \cup {"save"} => stored = 0
  /\ at \in {"save", "thumbs"} => Len(made) = Len(thumbs)
  /\ at = "thumbs" /\ route \in UploadRoutes => stored \in 1..(1 + Len(thumbs))
  /\ at = "thumbs" /\ route = "thumbnail" =>
       stored \in {0, 1} /\ (thumbs[1].nostore => stored = 0)
  /\ at = "metadata" => AllStored
  /\ at = "serve" /\ route = "thumbnail" => RenderStored
  /\ at \in {"get", "copy", "open", "process", "thumbs"} /\ route = "thumbnail" =>
       Len(thumbs) = 1

(* What an answer that is on its way, or has been given, says of it.       *)
AnswerSays ==
  /\ upload = "nil" => stored = 0 /\ at \in {"return", "out", "end"}
  /\ at = "return" /\ panicked => upload = "nil"
  /\ route \in UploadRoutes /\ at \notin {"out", "end"} => status = 0
  /\ at = "return" /\ route \in UploadRoutes /\ resp = 200 => AllStored
  /\ at \in {"out", "end"} /\ route \in UploadRoutes /\ status = 200 => AllStored
  /\ at \in {"out", "end"} /\ route \in UploadRoutes /\ status \notin {200, 500} => stored = 0
  /\ stored > 0 => route \in UploadRoutes \cup {"thumbnail"}

StoredInv == SavedSoFar /\ AnswerSays

(* Nothing is stored when a request comes in.                              *)
LEMMA InitStored == ASSUME Init PROVE StoredInv
<1>1. stored = 0 /\ status = 0 /\ upload = "none" /\ ~panicked
  BY DEF Init
<1>2. at \in {"auth", "extract", "parse", "get"} \/ (at = "serve" /\ route = "root")
  BY DEF Init, Begin, Routes, UploadRoutes, UserRoutes
<1>3. at = "get" => route # "thumbnail"
  BY DEF Init, Begin, Routes, UploadRoutes, UserRoutes
<1> QED BY <1>1, <1>2, <1>3 DEF StoredInv, SavedSoFar, AnswerSays, BeforeMade

(* A command is made for every thumbnail.                                  *)
LEMMA MadeForAll ==
  ASSUME MadeInv, Process
  PROVE  thumbs' = thumbs /\ Len(made') = Len(thumbs)
<1>1. PICK d : made' \in [DOMAIN thumbs -> UNION {Commands(thumbs[i], d) : i \in DOMAIN thumbs}]
  BY DEF Process
<1> DEFINE S == UNION {Commands(thumbs[i], d) : i \in DOMAIN thumbs}
<1>2. DOMAIN thumbs = 1..Len(thumbs) /\ Len(thumbs) \in Nat
  BY DEF MadeInv
<1>3. made' \in Seq(S) /\ DOMAIN made' = 1..Len(thumbs)
  <2> HIDE DEF S
  <2> QED BY <1>1, <1>2 DEF S
<1>4. Len(made') = Len(thumbs)
  <2> HIDE DEF S
  <2> QED BY <1>2, <1>3
<1> QED BY <1>4 DEF Process

(* Every step keeps the count and what is said of it true.                 *)
LEMMA StepStored ==
  ASSUME EndInv, EndInv', MadeInv, StoredInv, [Next]_vars
  PROVE  StoredInv'
<1>0. Len(thumbs) \in Nat
  BY DEF MadeInv
<1> USE <1>0 DEF EndInv, StoredInv, RoutePlaces, AnswerKnown
<1>1. CASE Accept
  BY <1>1 DEF Accept, GoOn, inputs, files, images, SavedSoFar,
     AnswerSays, AllStored, RenderStored, BeforeMade
<1>2. CASE Unauthorized
  BY <1>2 DEF Unauthorized, inputs, files, images, SavedSoFar,
     AnswerSays, AllStored, RenderStored, BeforeMade
<1>3. CASE OtherUser
  BY <1>3 DEF OtherUser, inputs, files, images, SavedSoFar,
     AnswerSays, AllStored, RenderStored, BeforeMade
<1>4. CASE Extract
  BY <1>4 DEF Extract, inputs, files, images, SavedSoFar,
     AnswerSays, AllStored, RenderStored, BeforeMade
<1>5. CASE ExtractFails
  BY <1>5 DEF ExtractFails, Write, inputs, files, images, SavedSoFar,
     AnswerSays, AllStored, RenderStored, BeforeMade
<1>6. CASE Parse
  BY <1>6 DEF Parse, GoOn, Answer, Write, UploadRoutes, UserRoutes, inputs, files, images, SavedSoFar,
     AnswerSays, AllStored, RenderStored, BeforeMade
<1>7. CASE ParseFails
  BY <1>7 DEF ParseFails, Write, inputs, files, images, SavedSoFar,
     AnswerSays, AllStored, RenderStored, BeforeMade
<1>8. CASE Get
  BY <1>8 DEF Get, GoOn, inputs, files, images, SavedSoFar,
     AnswerSays, AllStored, RenderStored, BeforeMade
<1>9. CASE GetFails
  BY <1>9 DEF GetFails, Answer, Write, inputs, files, images, SavedSoFar,
     AnswerSays, AllStored, RenderStored, BeforeMade
<1>10. CASE Copy
  BY <1>10 DEF Copy, GoOn, inputs, files, images, SavedSoFar,
     AnswerSays, AllStored, RenderStored, BeforeMade
<1>11. CASE CopyFails
  BY <1>11 DEF CopyFails, Error, Respond, Answer, Write, UploadRoutes, UserRoutes, inputs, files, images, SavedSoFar,
     AnswerSays, AllStored, RenderStored, BeforeMade
<1>12. CASE Open
  BY <1>12 DEF Open, GoOn, inputs, files, images, SavedSoFar,
     AnswerSays, AllStored, RenderStored, BeforeMade
<1>13. CASE OpenFails
  BY <1>13 DEF OpenFails, Error, Respond, Answer, Write, inputs, files, images, SavedSoFar,
     AnswerSays, AllStored, RenderStored, BeforeMade
<1>14. CASE Process
  BY <1>14, MadeForAll DEF Process, GoOn, UploadRoutes, UserRoutes, inputs, files, images, SavedSoFar,
     AnswerSays, AllStored, RenderStored, BeforeMade
<1>15. CASE ProcessFails
  BY <1>15 DEF ProcessFails, Error, Respond, Answer, Write, inputs, files, images, SavedSoFar,
     AnswerSays, AllStored, RenderStored, BeforeMade
<1>16. CASE Save
  BY <1>16 DEF Save, GoOn, UploadRoutes, UserRoutes, inputs, files, images, SavedSoFar,
     AnswerSays, AllStored, RenderStored, BeforeMade
<1>17. CASE SaveThumb
  BY <1>17 DEF SaveThumb, ThumbLeft, savedThumbs, UploadRoutes, UserRoutes, inputs, files, images, SavedSoFar,
     AnswerSays, AllStored, RenderStored, BeforeMade
<1>18. CASE SaveFails
  BY <1>18 DEF SaveFails, Error, Respond, Answer, Write, inputs, files, images, SavedSoFar,
     AnswerSays, AllStored, RenderStored, BeforeMade
<1>19. CASE AllSaved
  <2>1. /\ at = "thumbs" /\ status' = status
        /\ UNCHANGED <<route, upload, thumbs, made, stored, resp, panicked>>
    BY <1>19 DEF AllSaved, GoOn, inputs, files, images
  <2>2. CASE route = "thumbnail"
    <3>1. at' = "serve" /\ ~(stored < 1 /\ ~thumbs[1].nostore)
      BY <1>19, <2>1, <2>2 DEF AllSaved, GoOn, ThumbLeft, savedThumbs, SavedSoFar,
         UploadRoutes, UserRoutes
    <3>2. RenderStored
      BY <2>1, <2>2, <3>1 DEF SavedSoFar, RenderStored
    <3> QED
      BY <2>1, <2>2, <3>1, <3>2 DEF SavedSoFar, AnswerSays, AllStored, RenderStored, BeforeMade
  <2>3. CASE route \in UploadRoutes
    <3>1. at' = "metadata" /\ ~(stored - 1 < Len(thumbs))
      BY <1>19, <2>1, <2>3 DEF AllSaved, GoOn, ThumbLeft, savedThumbs,
         UploadRoutes, UserRoutes
    <3>2. AllStored
      BY <2>1, <2>3, <3>1 DEF SavedSoFar, AllStored
    <3> QED
      BY <2>1, <2>3, <3>1, <3>2 DEF SavedSoFar, AnswerSays, AllStored, RenderStored, BeforeMade
  <2> QED BY <2>1, <2>2, <2>3
<1>20. CASE Metadata
  BY <1>20 DEF Metadata, Respond, inputs, files, images, SavedSoFar,
     AnswerSays, AllStored, RenderStored, BeforeMade
<1>21. CASE Serve
  BY <1>21 DEF Serve, UploadRoutes, UserRoutes, inputs, files, images, SavedSoFar,
     AnswerSays, AllStored, RenderStored, BeforeMade
<1>22. CASE Deferred
  <2>1. /\ at = "return" /\ at' = at
        /\ UNCHANGED <<route, upload, thumbs, made, stored, resp>>
    BY <1>22 DEF Deferred, inputs, images
  <2>2. status' = (IF panicked' THEN 0 ELSE status) /\ (panicked' => panicked \/ upload = "nil")
    BY <1>22 DEF Deferred
  <2>3. route \notin UploadRoutes => ~panicked'
    BY <2>1 DEF AnswerKnown
  <2> QED
    BY <2>1, <2>2, <2>3 DEF SavedSoFar, AnswerSays, AllStored, RenderStored, BeforeMade
<1>23. CASE Returned
  <2>1. /\ at = "return" /\ at' = "out"
        /\ UNCHANGED <<route, upload, thumbs, made, stored, resp, panicked>>
        /\ IF resp # 0 /\ ~panicked THEN status' = resp ELSE status' = status
    BY <1>23 DEF Returned, Write, inputs, images
  <2>2. SavedSoFar'
    BY <2>1 DEF SavedSoFar, BeforeMade
  <2>3. CASE route \in UploadRoutes
    BY <2>1, <2>2, <2>3 DEF AnswerSays, AllStored, RenderStored, UploadRoutes, UserRoutes
  <2>4. CASE route \notin UploadRoutes
    BY <2>1, <2>2, <2>4 DEF AnswerSays, AllStored, RenderStored
  <2> QED BY <2>3, <2>4
<1>24. CASE Out
  BY <1>24 DEF Out, inputs, files, images, SavedSoFar,
     AnswerSays, AllStored, RenderStored, BeforeMade
<1>25. CASE UNCHANGED vars
  BY <1>25 DEF vars, inputs, files, images, SavedSoFar,
     AnswerSays, AllStored, RenderStored, BeforeMade
<1> QED
  BY <1>1, <1>2, <1>3, <1>4, <1>5, <1>6, <1>7, <1>8, <1>9, <1>10, <1>11, <1>12, <1>13, <1>14, <1>15, <1>16, <1>17, <1>18, <1>19, <1>20, <1>21, <1>22, <1>23, <1>24, <1>25 DEF Next, Step

(* The invariant of what is stored holds throughout.                       *)
LEMMA StoredAlways == Spec => []StoredInv
<1>1. EndInv /\ EndInv' /\ MadeInv /\ StoredInv /\ [Next]_vars => StoredInv'
  BY StepStored
<1> QED BY InitStored, <1>1, EndAlways, MadeAlways, PTL DEF Spec

-----------------------------------------------------------------------------
(* Statistics.                                                             *)

Counters == {"request", "upload", "thumb", "error", "time"}

Over == {"return", "out", "end"}   \* the places after an answer

(* A render that has been answered is counted, as one or the other.        *)
RenderCounted ==
  /\ stats["thumb"] + stats["error"] = IF at \in Over THEN 1 ELSE 0
  /\ stats["error"] = 1 => status >= 400

CountInv ==
  /\ stats \in [Counters -> Nat]
  /\ status \in {0, 400, 401} \cup FileStatus /\ resp \in {0, 200, 500}
  /\ stats["request"] = 1
  /\ stats["time"] = IF at = "end" /\ ~panicked THEN 1 ELSE 0
  /\ IF route = "thumbnail" THEN RenderCounted
     ELSE /\ stats["error"] = IF at \in Over /\ status >= 400 /\ status # 401 THEN 1 ELSE 0
          /\ stats["thumb"] = IF stored > 0 THEN stored - 1 ELSE 0

(* A request that has just come in is counted and nothing else.            *)
LEMMA InitCount == ASSUME Init PROVE CountInv
<1>1. at \notin Over
  BY DEF Init, Begin, Over, Routes, UploadRoutes, UserRoutes
<1>2. stats = [n \in Counters |-> IF n = "request" THEN 1 ELSE 0]
  BY DEF Init, Counters
<1>3. stored = 0 /\ status = 0 /\ resp = 0
  BY DEF Init
<1> QED BY <1>1, <1>2, <1>3 DEF CountInv, RenderCounted, FileStatus, Counters, Over

(* A counter is raised by one, the others stay.                            *)
LEMMA CountedOne ==
  ASSUME CountInv, NEW c \in Counters
  PROVE  /\ Counted(stats, c) \in [Counters -> Nat]
         /\ Counted(stats, c)[c] = stats[c] + 1
         /\ \A n \in Counters \ {c} : Counted(stats, c)[n] = stats[n]
BY DEF CountInv, Counted

(* Every step counts what it does.                                         *)
LEMMA StepCount ==
  ASSUME EndInv, EndInv', StoredInv, CountInv, [Next]_vars
  PROVE  CountInv'
<1>0. "thumbnail" \notin UploadRoutes
  BY DEF UploadRoutes, UserRoutes
<1> USE <1>0, CountedOne DEF EndInv, StoredInv, RoutePlaces, AnswerKnown
<1>1. CASE Accept
  BY <1>1 DEF Accept, GoOn, inputs, files, images, SavedSoFar,
     AnswerSays, BeforeMade, CountInv, RenderCounted, FileStatus, Counters, Over
<1>2. CASE Unauthorized
  BY <1>2 DEF Unauthorized, inputs, files, images, SavedSoFar,
     AnswerSays, BeforeMade, CountInv, RenderCounted, FileStatus, Counters, Over
<1>3. CASE OtherUser
  BY <1>3 DEF OtherUser, inputs, files, images, SavedSoFar,
     AnswerSays, BeforeMade, CountInv, RenderCounted, FileStatus, Counters, Over
<1>4. CASE Extract
  BY <1>4 DEF Extract, inputs, files, images, SavedSoFar,
     AnswerSays, BeforeMade, CountInv, RenderCounted, FileStatus, Counters, Over
<1>5. CASE ExtractFails
  BY <1>5 DEF ExtractFails, Write, inputs, files, images, SavedSoFar,
     AnswerSays, BeforeMade, CountInv, RenderCounted, FileStatus, Counters, Over
<1>6. CASE Parse
  BY <1>6 DEF Parse, GoOn, Answer, Write, UploadRoutes, UserRoutes, inputs, files, images, SavedSoFar,
     AnswerSays, BeforeMade, CountInv, RenderCounted, FileStatus, Counters, Over
<1>7. CASE ParseFails
  BY <1>7 DEF ParseFails, Write, inputs, files, images, SavedSoFar,
     AnswerSays, BeforeMade, CountInv, RenderCounted, FileStatus, Counters, Over
<1>8. CASE Get
  BY <1>8 DEF Get, GoOn, inputs, files, images, SavedSoFar,
     AnswerSays, BeforeMade, CountInv, RenderCounted, FileStatus, Counters, Over
<1>9. CASE GetFails
  BY <1>9 DEF GetFails, Answer, Write, inputs, files, images, SavedSoFar,
     AnswerSays, BeforeMade, CountInv, RenderCounted, FileStatus, Counters, Over
<1>10. CASE Copy
  BY <1>10 DEF Copy, GoOn, inputs, files, images, SavedSoFar,
     AnswerSays, BeforeMade, CountInv, RenderCounted, FileStatus, Counters, Over
<1>11. CASE CopyFails
  BY <1>11 DEF CopyFails, Error, Respond, Answer, Write, UploadRoutes, UserRoutes, inputs, files, images, SavedSoFar,
     AnswerSays, BeforeMade, CountInv, RenderCounted, FileStatus, Counters, Over
<1>12. CASE Open
  BY <1>12 DEF Open, GoOn, inputs, files, images, SavedSoFar,
     AnswerSays, BeforeMade, CountInv, RenderCounted, FileStatus, Counters, Over
<1>13. CASE Process
  BY <1>13 DEF Process, GoOn, UploadRoutes, UserRoutes, inputs, files, images, SavedSoFar,
     AnswerSays, BeforeMade, CountInv, RenderCounted, FileStatus, Counters, Over
<1>14. CASE Save
  BY <1>14 DEF Save, GoOn, UploadRoutes, UserRoutes, inputs, files, images, SavedSoFar,
     AnswerSays, BeforeMade, CountInv, RenderCounted, FileStatus, Counters, Over
<1>15. CASE SaveThumb
  <2>1. /\ at = "thumbs" /\ at' = at /\ stored' = stored + 1
        /\ UNCHANGED <<route, resp, status, panicked>>
        /\ stats' = IF route \in UploadRoutes THEN Counted(stats, "thumb") ELSE stats
    BY <1>15 DEF SaveThumb, inputs
  <2>2. CASE route \in UploadRoutes
    <3>1. stored \in Nat /\ stored >= 1
      BY <2>1, <2>2 DEF SavedSoFar
    <3>2. stats' = Counted(stats, "thumb") /\ "thumb" \in Counters
      BY <2>1, <2>2 DEF Counters
    <3>3. /\ stats' \in [Counters -> Nat]
          /\ stats'["thumb"] = stats["thumb"] + 1
          /\ \A n \in Counters \ {"thumb"} : stats'[n] = stats[n]
      BY <3>2, CountedOne
    <3> QED
      BY <2>1, <2>2, <3>1, <3>3 DEF CountInv, RenderCounted, FileStatus, Counters, Over
  <2>3. CASE route \notin UploadRoutes
    BY <2>1, <2>3 DEF CountInv, RenderCounted, FileStatus, Counters, Over
  <2> QED BY <2>2, <2>3
<1>16. CASE OpenFails \/ ProcessFails \/ SaveFails
  <2>1. /\ at \in {"open", "process", "save", "thumbs"} /\ Error(500)
        /\ UNCHANGED <<route, stored, panicked>>
    BY <1>16 DEF OpenFails, ProcessFails, SaveFails, inputs, images
  <2>2. CASE route \in UploadRoutes
    <3>1. resp' = 500 /\ at' = "return" /\ UNCHANGED <<status, stats>> /\ status = 0
      BY <2>1, <2>2 DEF Error, Respond, AnswerSays
    <3> QED BY <2>1, <2>2, <3>1 DEF CountInv, RenderCounted, FileStatus, Counters, Over
  <2>3. CASE route \notin UploadRoutes
    <3>1. /\ status' = 500 /\ at' = "return" /\ UNCHANGED resp
          /\ stats' = Counted(stats, "error") /\ "error" \in Counters
      BY <2>1, <2>3 DEF Error, Answer, Write, Counters
    <3>2. /\ stats' \in [Counters -> Nat]
          /\ stats'["error"] = stats["error"] + 1
          /\ \A n \in Counters \ {"error"} : stats'[n] = stats[n]
      BY <3>1, CountedOne
    <3> QED BY <2>1, <2>3, <3>1, <3>2 DEF CountInv, RenderCounted, FileStatus, Counters, Over
  <2> QED BY <2>2, <2>3
<1>17. CASE AllSaved
  BY <1>17 DEF AllSaved, GoOn, ThumbLeft, savedThumbs, UploadRoutes, UserRoutes, inputs, files, images, SavedSoFar,
     AnswerSays, BeforeMade, CountInv, RenderCounted, FileStatus, Counters, Over
<1>18. CASE Metadata
  BY <1>18 DEF Metadata, Respond, inputs, files, images, SavedSoFar,
     AnswerSays, BeforeMade, CountInv, RenderCounted, FileStatus, Counters, Over
<1>19. CASE Serve
  BY <1>19 DEF Serve, UploadRoutes, UserRoutes, inputs, files, images, SavedSoFar,
     AnswerSays, BeforeMade, CountInv, RenderCounted, FileStatus, Counters, Over
<1>20. CASE Deferred
  <2>1. /\ at = "return" /\ at' = at
        /\ UNCHANGED <<route, stored, resp, stats>>
    BY <1>20 DEF Deferred, inputs, images
  <2>2. status' = (IF panicked' THEN 0 ELSE status)
    BY <1>20 DEF Deferred
  <2>3. route \notin UploadRoutes => ~panicked'
    BY <2>1
  <2> QED
    BY <2>1, <2>2, <2>3 DEF AnswerSays, CountInv, RenderCounted, FileStatus, Counters, Over
<1>21. CASE Returned
  <2>1. /\ at = "return" /\ at' = "out"
        /\ UNCHANGED <<route, stored, resp, panicked>>
        /\ IF resp # 0 /\ ~panicked THEN Write(resp) ELSE UNCHANGED <<status, stats>>
    BY <1>21 DEF Returned, inputs, images
  <2>2. CASE resp # 0 /\ ~panicked
    <3>1. route \in UploadRoutes /\ resp \in {200, 500} /\ status = 0
      BY <2>1, <2>2 DEF AnswerSays
    <3>2. stats["error"] = 0 /\ "error" \in Counters
      BY <2>1, <3>1 DEF CountInv, Counters
    <3>3. CASE resp = 200
      <4>1. status' = 200 /\ stats' = stats
        BY <2>1, <2>2, <3>3 DEF Write
      <4> QED BY <2>1, <3>1, <3>2, <4>1 DEF CountInv, RenderCounted, FileStatus, Counters, Over
    <3>4. CASE resp = 500
      <4>1. status' = 500 /\ stats' = Counted(stats, "error")
        BY <2>1, <2>2, <3>4 DEF Write
      <4>2. /\ stats' \in [Counters -> Nat]
            /\ stats'["error"] = stats["error"] + 1
            /\ \A n \in Counters \ {"error"} : stats'[n] = stats[n]
        BY <3>2, <4>1, CountedOne
      <4> QED BY <2>1, <3>1, <3>2, <4>1, <4>2 DEF CountInv, RenderCounted, FileStatus, Counters, Over
    <3> QED BY <3>1, <3>3, <3>4
  <2>3. CASE ~(resp # 0 /\ ~panicked)
    BY <2>1, <2>3 DEF CountInv, RenderCounted, FileStatus, Counters, Over
  <2> QED BY <2>2, <2>3
<1>22. CASE Out
  BY <1>22 DEF Out, inputs, files, images, SavedSoFar,
     AnswerSays, BeforeMade, CountInv, RenderCounted, FileStatus, Counters, Over
<1>23. CASE UNCHANGED vars
  BY <1>23 DEF vars, inputs, files, images, SavedSoFar,
     AnswerSays, BeforeMade, CountInv, RenderCounted, FileStatus, Counters, Over
<1> QED
  BY <1>1, <1>2, <1>3, <1>4, <1>5, <1>6, <1>7, <1>8, <1>9, <1>10, <1>11, <1>12, <1>13, <1>14, <1>15, <1>16, <1>17, <1>18, <1>19, <1>20, <1>21, <1>22, <1>23 DEF Next, Step

(* The invariant of the statistics holds throughout.                       *)
LEMMA CountAlways == Spec => []CountInv
<1>1. EndInv /\ EndInv' /\ StoredInv /\ CountInv /\ [Next]_vars => CountInv'
  BY StepCount
<1> QED BY InitCount, <1>1, EndAlways, StoredAlways, PTL DEF Spec

(* The statistics agree with what clients saw and what was stored, on      *)
(* every path, those on which ServeFile refuses included.                  *)
THEOREM StatsAgree == Spec => []Accounting
<1>1. CountInv /\ StoredInv => Accounting
  BY DEF CountInv, RenderCounted, FileStatus, Over, StoredInv, AnswerSays, Accounting
<1> QED BY <1>1, CountAlways, StoredAlways, PTL

-----------------------------------------------------------------------------
(* Answers, what is counted and what is stored.                            *)

(* A render counted as a thumbnail has been served, and no other has saved *)
(* anything but one whose save failed.                                     *)
RenderSays ==
  route = "thumbnail" /\ at \in Over =>
    /\ stats["thumb"] = 1 => RenderStored
    /\ status \in {200, 206, 304} => stats["thumb"] = 1
    /\ stored > 0 => stats["thumb"] = 1 \/ status = 500

LEMMA InitRenderSays == ASSUME Init PROVE RenderSays
BY DEF Init, Begin, RenderSays, Over, Routes, UploadRoutes, UserRoutes

(* What is said when a render is answered is said from then on.            *)
LEMMA StepRenderSays ==
  ASSUME EndInv, EndInv', StoredInv, CountInv, RenderSays, [Next]_vars
  PROVE  RenderSays'
<1> SUFFICES ASSUME route' = "thumbnail", at' \in Over
             PROVE  /\ stats'["thumb"] = 1 => RenderStored'
                    /\ status' \in {200, 206, 304} => stats'["thumb"] = 1
                    /\ stored' > 0 => stats'["thumb"] = 1 \/ status' = 500
  BY DEF RenderSays
<1>0. "thumbnail" \notin UploadRoutes
  BY DEF UploadRoutes, UserRoutes
<1>1. CASE Parse \/ ParseFails \/ GetFails \/ CopyFails \/ OpenFails \/ ProcessFails
  <2>1. at \in BeforeMade /\ stored' = stored /\ route' = route
    BY <1>1 DEF Parse, ParseFails, GetFails, CopyFails, OpenFails, ProcessFails, BeforeMade,
       images, inputs
  <2>2. at \notin Over
    BY <2>1 DEF Over, BeforeMade
  <2>3. stored' = 0
    BY <2>1 DEF StoredInv, SavedSoFar
  <2>4. stats["thumb"] = 0
    BY <2>1, <2>2 DEF CountInv, RenderCounted, Counters
  <2>5. \E s \in {400, 404, 500} : Write(s)
    BY <1>0, <1>1, <2>1 DEF Parse, ParseFails, GetFails, CopyFails, OpenFails, ProcessFails,
       Error, Answer, GoOn, Over
  <2>6. status' \in {400, 404, 500} /\ stats' = Counted(stats, "error")
    BY <2>5 DEF Write
  <2>7. stats'["thumb"] = stats["thumb"]
    BY <2>6, CountedOne DEF Counters
  <2> QED BY <2>3, <2>4, <2>6, <2>7
<1>2. CASE SaveFails
  <2>1. at \in {"save", "thumbs"} /\ Write(500) /\ route' = route
    BY <1>0, <1>2 DEF SaveFails, Error, Answer, inputs
  <2>2. at \notin Over
    BY <2>1 DEF Over
  <2>3. stats["thumb"] = 0
    BY <2>1, <2>2 DEF CountInv, RenderCounted, Counters
  <2>4. status' = 500 /\ stats' = Counted(stats, "error")
    BY <2>1 DEF Write
  <2>5. stats'["thumb"] = stats["thumb"]
    BY <2>4, CountedOne DEF Counters
  <2> QED BY <2>3, <2>4, <2>5
<1>3. CASE Serve
  <2>1. at = "serve" /\ stats' = Counted(stats, "thumb") /\ UNCHANGED <<route, thumbs, made, stored>>
    BY <1>3 DEF Serve, inputs, images
  <2>2. stats["thumb"] = 0
    BY <2>1 DEF CountInv, RenderCounted, Counters, Over
  <2>3. stats'["thumb"] = 1
    BY <2>1, <2>2, CountedOne DEF Counters
  <2>4. RenderStored'
    BY <2>1 DEF StoredInv, SavedSoFar, RenderStored
  <2> QED BY <2>3, <2>4
<1>4. CASE Deferred \/ Returned \/ Out \/ UNCHANGED vars
  <2>1. at \in Over /\ UNCHANGED <<route, thumbs, made, stored>>
    BY <1>4 DEF Deferred, Returned, Out, vars, inputs, images, Over
  <2>2. route = "thumbnail" /\ resp = 0
    BY <1>0, <2>1 DEF EndInv, AnswerKnown
  <2>3. status' = status /\ (stats' = stats \/ stats' = Counted(stats, "time"))
    <3>1. CASE Deferred
      <4>1. at' = "return" /\ route' = route
        BY <3>1 DEF Deferred, inputs
      <4>2. ~panicked'
        BY <1>0, <2>2, <4>1 DEF EndInv, AnswerKnown
      <4> QED BY <3>1, <4>2 DEF Deferred
    <3>2. CASE ~Deferred
      BY <1>4, <2>2, <3>2 DEF Returned, Out, vars
    <3> QED BY <3>1, <3>2
  <2>4. stats'["thumb"] = stats["thumb"]
    BY <2>3, CountedOne DEF Counters
  <2> QED BY <2>1, <2>3, <2>4 DEF RenderSays, RenderStored
<1>5. CASE Accept \/ Unauthorized \/ OtherUser \/ Extract \/ ExtractFails
  BY <1>0, <1>5 DEF Accept, Unauthorized, OtherUser, Extract, ExtractFails, EndInv,
     RoutePlaces, inputs
<1>6. CASE Get \/ Copy \/ Open \/ Process \/ Save \/ SaveThumb \/ AllSaved \/ Metadata
  BY <1>0, <1>6 DEF Get, Copy, Open, Process, Save, SaveThumb, AllSaved, Metadata, GoOn,
     EndInv, RoutePlaces, inputs, Over
<1> QED BY <1>1, <1>2, <1>3, <1>4, <1>5, <1>6 DEF Next, Step

(* Whatever the thumbnails, the answer tells what has been stored, also if *)
(* ServeFile refuses what was saved.                                       *)
THEOREM AnswersTellStored == Spec => []AnswerTellsStored
<1>1. StoredInv /\ RenderSays => AnswerTellsStored
  BY DEF StoredInv, AnswerSays, AllStored, RenderSays, RenderStored, AnswerTellsStored, Over,
     UploadRoutes, UserRoutes
<1>2. EndInv /\ EndInv' /\ StoredInv /\ CountInv /\ RenderSays /\ [Next]_vars => RenderSays'
  BY StepRenderSays
<1> QED BY InitRenderSays, <1>1, <1>2, EndAlways, StoredAlways, CountAlways, PTL DEF Spec

-----------------------------------------------------------------------------
(* Types.                                                                  *)

(* What CountInv and StoredInv do not say already.                         *)
RestTyped ==
  /\ route \in Routes /\ path \in Users \cup {NoUser}
  /\ grant \in Grants /\ scheme \in {"hmac", "passthrough"}
  /\ at \in {"auth", "extract", "parse", "get", "copy", "open", "process",
             "save", "thumbs", "metadata", "serve", "return", "out", "end"}
  /\ user \in Users \cup {NoUser}
  /\ body \in Held /\ reader \in Held /\ tmp \in BOOLEAN
  /\ upload \in {"none", "nil", "file"}
  /\ thumbs \in Requested \cup {<<>>}
  /\ defers \in Seq({"Close", "Remove", "Clean"})
  /\ panicked \in BOOLEAN

(* A deferred call is pushed and popped as a stack of calls.               *)
LEMMA PushPop ==
  ASSUME defers \in Seq({"Close", "Remove", "Clean"})
  PROVE  /\ \A c \in {"Close", "Remove", "Clean"} :
              Append(defers, c) \in Seq({"Close", "Remove", "Clean"})
         /\ defers # <<>> =>
              SubSeq(defers, 1, Len(defers) - 1) \in Seq({"Close", "Remove", "Clean"})
BY AppendHas, PopHas DEF Calls

(* A request that has just come in is well typed.                          *)
LEMMA InitTyped == ASSUME Init PROVE RestTyped
<1>1. route \in Routes /\ path \in Users \cup {NoUser} /\ user = NoUser
  BY DEF Init
<1>2. grant \in Grants /\ scheme \in {"hmac", "passthrough"}
  BY DEF Init
<1>3. at \in {"auth", "extract", "parse", "get", "serve"}
  BY DEF Init, Begin, Routes, UploadRoutes, UserRoutes
<1>4. /\ body = "none" /\ reader = "none" /\ tmp = FALSE /\ upload = "none"
      /\ thumbs = <<>> /\ panicked = FALSE
  BY DEF Init
<1>5. defers \in Seq({"Close", "Remove", "Clean"})
  BY DEF Init
<1> QED BY <1>1, <1>2, <1>3, <1>4, <1>5 DEF RestTyped, Held

(* No step leaves the types.                                               *)
LEMMA StepTyped == ASSUME RestTyped, [Next]_vars PROVE RestTyped'
<1> USE PushPop DEF RestTyped, Held, inputs, files, images
<1>1. CASE Accept
  BY <1>1 DEF Accept, GoOn
<1>2. CASE Unauthorized
  BY <1>2 DEF Unauthorized
<1>3. CASE OtherUser
  BY <1>3 DEF OtherUser
<1>4. CASE Extract
  BY <1>4 DEF Extract
<1>5. CASE ExtractFails
  BY <1>5 DEF ExtractFails
<1>6. CASE Parse
  BY <1>6 DEF Parse, GoOn, Answer
<1>7. CASE ParseFails
  BY <1>7 DEF ParseFails
<1>8. CASE Get
  BY <1>8 DEF Get, GoOn
<1>9. CASE GetFails
  BY <1>9 DEF GetFails, Answer
<1>10. CASE Copy
  BY <1>10 DEF Copy, GoOn
<1>11. CASE CopyFails
  BY <1>11 DEF CopyFails, Error, Respond, Answer
<1>12. CASE Open
  BY <1>12 DEF Open, GoOn
<1>13. CASE OpenFails
  BY <1>13 DEF OpenFails, Error, Respond, Answer
<1>14. CASE Process
  BY <1>14 DEF Process, GoOn
<1>15. CASE ProcessFails
  BY <1>15 DEF ProcessFails, Error, Respond, Answer
<1>16. CASE Save
  BY <1>16 DEF Save, GoOn
<1>17. CASE SaveThumb
  BY <1>17 DEF SaveThumb
<1>18. CASE SaveFails
  BY <1>18 DEF SaveFails, Error, Respond, Answer
<1>19. CASE AllSaved
  BY <1>19 DEF AllSaved, GoOn
<1>20. CASE Metadata
  BY <1>20 DEF Metadata, Respond
<1>21. CASE Serve
  BY <1>21 DEF Serve
<1>22. CASE Deferred
  BY <1>22 DEF Deferred
<1>23. CASE Returned
  BY <1>23 DEF Returned
<1>24. CASE Out
  BY <1>24 DEF Out
<1>25. CASE UNCHANGED vars
  BY <1>25 DEF vars
<1> QED
  BY <1>1, <1>2, <1>3, <1>4, <1>5, <1>6, <1>7, <1>8, <1>9, <1>10, <1>11, <1>12, <1>13,
     <1>14, <1>15, <1>16, <1>17, <1>18, <1>19, <1>20, <1>21, <1>22, <1>23, <1>24, <1>25 DEF Next, Step

(* The states of a request are well typed: whatever is deferred, opened,   *)
(* counted or answered is one of what the code knows.                      *)
THEOREM RequestsTyped == Spec => []TypeOK
<1>1. RestTyped /\ CountInv /\ StoredInv => TypeOK
  BY DEF RestTyped, CountInv, Counters, StoredInv, SavedSoFar, TypeOK
<1>2. RestTyped /\ [Next]_vars => RestTyped'
  BY StepTyped
<1> QED BY InitTyped, <1>1, <1>2, CountAlways, StoredAlways, PTL DEF Spec

-----------------------------------------------------------------------------
(* One answer.                                                             *)

(* Nothing has been written before the handler returns, and by uploadFile  *)
(* nothing at all; a handler that panicked is about to end.                *)
Unanswered ==
  /\ at \notin Over \/ (at = "return" /\ route \in UploadRoutes) => status = 0
  /\ panicked => at \in Over

LEMMA InitUnanswered == ASSUME Init PROVE Unanswered
BY DEF Init, Unanswered

LEMMA StepUnanswered == ASSUME EndInv, Unanswered, [Next]_vars PROVE Unanswered'
<1> USE DEF Unanswered, EndInv, RoutePlaces, Over
<1>1. CASE Accept \/ Unauthorized \/ OtherUser
  BY <1>1 DEF Accept, Unauthorized, OtherUser, GoOn, inputs
<1>2. CASE Extract \/ ExtractFails
  BY <1>2 DEF Extract, ExtractFails, Write, inputs
<1>3. CASE Parse \/ ParseFails
  BY <1>3 DEF Parse, ParseFails, GoOn, Answer, Write, UploadRoutes, UserRoutes, inputs
<1>4. CASE Get \/ GetFails
  BY <1>4 DEF Get, GetFails, GoOn, Answer, Write, inputs
<1>5. CASE Copy \/ Open \/ Process \/ Save
  BY <1>5 DEF Copy, Open, Process, Save, GoOn, inputs, UploadRoutes, UserRoutes
<1>6. CASE CopyFails \/ OpenFails \/ ProcessFails \/ SaveFails
  BY <1>6 DEF CopyFails, OpenFails, ProcessFails, SaveFails, Error, Respond, Answer, Write, inputs
<1>7. CASE SaveThumb \/ AllSaved \/ Metadata
  BY <1>7 DEF SaveThumb, AllSaved, Metadata, GoOn, Respond, inputs
<1>8. CASE Serve
  BY <1>8 DEF Serve, inputs
<1>9. CASE Deferred
  BY <1>9 DEF Deferred, inputs
<1>10. CASE Returned \/ Out
  BY <1>10 DEF Returned, Out, Write, inputs
<1>11. CASE UNCHANGED vars
  BY <1>11 DEF vars, inputs
<1> QED
  BY <1>1, <1>2, <1>3, <1>4, <1>5, <1>6, <1>7, <1>8, <1>9, <1>10, <1>11 DEF Next, Step

LEMMA StepAnswersOnce ==
  ASSUME EndInv, Unanswered, [Next]_vars, status # 0 \/ panicked
  PROVE  status' = status \/ (status' = 0 /\ panicked')
<1> USE DEF Unanswered, EndInv, AnswerKnown, Over
<1>1. at \in Over
  OBVIOUS
<1>2. CASE Deferred
  BY <1>2 DEF Deferred
<1>3. CASE Returned
  BY <1>3 DEF Returned
<1>4. CASE Out \/ UNCHANGED vars
  BY <1>4 DEF Out, vars
<1>5. CASE ~Deferred /\ ~Returned /\ ~Out /\ ~UNCHANGED vars
  <2>1. at \notin Over
    BY <1>5 DEF Next, Step, Accept, Unauthorized, OtherUser, Extract, ExtractFails, Parse,
       ParseFails, Get, GetFails, Copy, CopyFails, Open, OpenFails, Process, ProcessFails,
       Save, SaveThumb, SaveFails, AllSaved, Metadata, Serve
  <2> QED BY <1>1, <2>1
<1> QED BY <1>2, <1>3, <1>4, <1>5

(* Whatever the request, nobody writes an answer over another.             *)
THEOREM NobodyAnswersTwice == Spec => AnsweredOnce
<1>1. EndInv /\ Unanswered /\ [Next]_vars => Unanswered'
  BY StepUnanswered
<1>2. EndInv /\ Unanswered /\ [Next]_vars =>
        [status # 0 \/ panicked => status' = status \/ (status' = 0 /\ panicked')]_vars
  BY StepAnswersOnce
<1> QED BY InitUnanswered, <1>1, <1>2, EndAlways, PTL DEF Spec, AnsweredOnce
=============================================================================

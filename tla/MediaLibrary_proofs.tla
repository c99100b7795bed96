------------------------ MODULE MediaLibrary_proofs ------------------------
(***************************************************************************)
(* Theorems about MediaLibrary for every set of videos and callers and     *)
(* every bound, whether or not IDs are reused in order.                    *)
(***************************************************************************)
EXTENDS MediaLibrary, TLAPS

-----------------------------------------------------------------------------
(* The types.                                                              *)

CallersOK ==
    /\ at \in [Callers -> CallerPoints]
    /\ vid \in [Callers -> Videos \cup {Nobody}]
    /\ \A c \in Callers : at[c] # "idle" => vid[c] \in Videos
    /\ key \in [Callers -> Key \cup {NoKey}]

WorkerOK ==
    /\ wat \in WorkerPoints
    /\ wvid \in Videos \cup {Nobody}
    /\ wat # "idle" => wvid \in Videos
    /\ plan \subseteq Resolutions /\ todo \subseteq plan
    /\ wat \in {"encode", "record"} => todo # {}

LEMMA TakeType ==
    ASSUME TypeOK, NEW c \in Callers, NEW p \in CallerPoints, NEW v \in Videos,
           Take(c, p, v)
    PROVE  CallersOK'
  BY DEF TypeOK, Take, CallersOK

LEMMA GotoType ==
    ASSUME TypeOK, NEW c \in Callers, NEW p \in CallerPoints, at[c] # "idle", Goto(c, p)
    PROVE  CallersOK'
  BY DEF TypeOK, Goto, Take, CallersOK

LEMMA WorkerGotoType ==
    ASSUME TypeOK, NEW p \in WorkerPoints, wat # "idle", WorkerGoto(p),
           p \in {"encode", "record"} => todo # {}
    PROVE  WorkerOK'
  BY DEF TypeOK, WorkerGoto, WorkerOK

LEMMA WorkerDoneType ==
    ASSUME WorkerDone
    PROVE  WorkerOK'
  BY DEF WorkerDone, WorkerOK, WorkerPoints

\* The lowest of the resolutions left is one of them.
LEMMA NextResolution ==
    ASSUME NEW S, S \subseteq Resolutions, S # {}
    PROVE  Min(S) \in S
  <1>1. \E x \in S : \A y \in S : x <= y
    <2>1. \A y \in S : y = 480 \/ y = 720 \/ y = 1080
      BY DEF Resolutions
    <2>2. CASE 480 \in S
      BY <2>1, <2>2
    <2>3. CASE 480 \notin S /\ 720 \in S
      BY <2>1, <2>3
    <2>4. CASE 480 \notin S /\ 720 \notin S
      BY <2>1, <2>4
    <2> QED
      BY <2>2, <2>3, <2>4
  <1> QED
    BY <1>1 DEF Min

LEMMA InsertType ==
    ASSUME TypeOK, NEW v \in Videos, NEW p \in Purposes, InsertAccessToken(v, p)
    PROVE  /\ token' \in [Videos \X Purposes -> 0..MaxTokens]
           /\ issued' \in [Videos \X Purposes -> 0..MaxTokens]
           /\ expired' \subseteq Videos \X Purposes
  <1>1. issued[<<v, p>>] \in 0..MaxTokens /\ issued[<<v, p>>] < MaxTokens /\ MaxTokens \in Nat
    BY LibraryAssumption DEF TypeOK, InsertAccessToken
  <1>2. issued[<<v, p>>] + 1 \in 0..MaxTokens
    BY <1>1
  <1> QED
    BY <1>2 DEF TypeOK, InsertAccessToken

LEMMA InitType == Init => TypeOK
  BY LibraryAssumption
  DEF Init, TypeOK, Statuses, CallerPoints, WorkerPoints, Purposes

\* A step of a caller that leaves the rest alone.
LEMMA CallerOnly ==
    ASSUME TypeOK, CallersOK', UNCHANGED << rows, clock, disk, worker, answers, bounds >>
    PROVE  TypeOK'
  BY DEF TypeOK, CallersOK, rows, clock, disk, worker, answers, bounds

LEMMA RequestType ==
    ASSUME TypeOK, NEW c \in Callers, NEW v \in Videos, Request(c, v)
    PROVE  TypeOK'
  <1>1. CASE InitInsert(c, v)
    <2>1. CallersOK'
      BY <1>1, TakeType DEF InitInsert, CallerPoints
    <2>2. inits' \in [Videos -> 0..MaxInits]
      BY <1>1, LibraryAssumption DEF TypeOK, InitInsert
    <2> QED
      BY <1>1, <2>1, <2>2
      DEF TypeOK, CallersOK, InitInsert, clock, disk, worker, Statuses
  <1>2. CASE PlayInit(c, v) \/ DeleteRequest(c, v) \/ ReprocessRequest(c, v)
    <2>1. CallersOK'
      BY <1>2, TakeType
      DEF PlayInit, DeleteRequest, ReprocessRequest, CallerPoints, DeletionPoints
    <2> QED
      BY <1>2, <2>1, CallerOnly DEF PlayInit, DeleteRequest, ReprocessRequest
  <1>3. ASSUME NEW k \in Known, TusRequest(c, k, v)
        PROVE  TypeOK'
    <2>1. CallersOK'
      BY <1>3 DEF TypeOK, TusRequest, CallersOK, CallerPoints, Known
    <2> QED
      BY <1>3, <2>1, CallerOnly DEF TusRequest
  <1>4. ASSUME NEW k \in Known, MasterRequest(c, k, v)
        PROVE  TypeOK'
    <2>1. CallersOK'
      BY <1>4, TakeType DEF MasterRequest, CallerPoints
    <2> QED
      BY <1>4, <2>1, CallerOnly DEF MasterRequest
  <1> QED
    BY <1>1, <1>2, <1>3, <1>4 DEF Request

LEMMA CallerStepType ==
    ASSUME TypeOK, NEW c \in Callers, CallerStep(c)
    PROVE  TypeOK'
  <1>1. at[c] # "idle"
    BY DEF CallerStep, InitToken, TokenRefused, TusPost, TusPatch, TusDelete, PlayToken,
           MasterRow, MasterFile, DeleteTokens, DeleteRenditions, DeleteVideo, DeleteFiles,
           Reprocess, Fault, DeletionPoints
  <1>2. vid[c] \in Videos
    BY <1>1 DEF TypeOK
  <1>3. ASSUME NEW p \in {"idle", "master_file", "del_renditions", "del_video", "del_files"},
               Goto(c, p)
        PROVE  CallersOK'
    BY <1>1, <1>3, GotoType DEF CallerPoints, DeletionPoints
  <1>4. CASE InitToken(c)
    <2>1. /\ token' \in [Videos \X Purposes -> 0..MaxTokens]
          /\ issued' \in [Videos \X Purposes -> 0..MaxTokens]
          /\ expired' \subseteq Videos \X Purposes
      BY <1>2, <1>4, InsertType DEF InitToken, Purposes
    <2>2. granted' \in [Videos -> 0..MaxTokens]
      BY <1>2, <1>4, <2>1 DEF TypeOK, InitToken, Purposes
    <2> QED
      BY <1>3, <1>4, <2>1, <2>2 DEF TypeOK, CallersOK, InitToken, disk, worker, bounds
  <1>5. CASE PlayToken(c)
    <2>1. /\ token' \in [Videos \X Purposes -> 0..MaxTokens]
          /\ issued' \in [Videos \X Purposes -> 0..MaxTokens]
          /\ expired' \subseteq Videos \X Purposes
      BY <1>2, <1>5, InsertType DEF PlayToken, Purposes
    <2> QED
      BY <1>3, <1>5, <2>1 DEF TypeOK, CallersOK, PlayToken, disk, worker, answers, bounds
  <1>6. CASE TokenRefused(c) \/ MasterRow(c) \/ MasterFile(c)
    BY <1>3, <1>6, CallerOnly DEF TokenRefused, MasterRow, MasterFile
  <1>7. CASE TusPost(c)
    BY <1>2, <1>3, <1>7
    DEF TypeOK, CallersOK, TusPost, rows, clock, worker, answers, bounds
  <1>8. CASE TusPatch(c)
    BY <1>2, <1>3, <1>8
    DEF TypeOK, CallersOK, TusPatch, clock, worker, answers, bounds, Statuses
  <1>15. CASE TusDelete(c)
    BY <1>2, <1>3, <1>15
    DEF TypeOK, CallersOK, TusDelete, rows, clock, worker, answers, bounds
  <1>9. CASE DeleteTokens(c)
    <2>1. token' \in [Videos \X Purposes -> 0..MaxTokens]
      BY <1>9, LibraryAssumption DEF TypeOK, DeleteTokens
    <2>2. granted' \in [Videos -> 0..MaxTokens]
      BY <1>9, LibraryAssumption DEF TypeOK, DeleteTokens
    <2> QED
      BY <1>3, <1>9, <2>1, <2>2 DEF TypeOK, CallersOK, DeleteTokens, disk, worker, bounds
  <1>10. CASE DeleteRenditions(c)
    BY <1>2, <1>3, <1>10
    DEF TypeOK, CallersOK, DeleteRenditions, clock, disk, worker, answers, bounds
  <1>11. CASE DeleteVideo(c)
    BY <1>2, <1>3, <1>11
    DEF TypeOK, CallersOK, DeleteVideo, clock, disk, worker, answers, bounds
  <1>12. CASE DeleteFiles(c)
    BY <1>2, <1>3, <1>12
    DEF TypeOK, CallersOK, DeleteFiles, rows, clock, worker, bounds
  <1>13. CASE Reprocess(c)
    BY <1>2, <1>3, <1>13
    DEF TypeOK, CallersOK, Reprocess, clock, disk, worker, answers, bounds, Statuses
  <1>14. CASE Fault(c)
    <2>1. faults' \in 0..MaxFaults
      BY <1>14, LibraryAssumption DEF TypeOK, Fault
    <2> QED
      BY <1>3, <1>14, <2>1 DEF TypeOK, CallersOK, Fault, rows, clock, disk, worker, answers
  <1> QED
    BY <1>4, <1>5, <1>6, <1>7, <1>8, <1>9, <1>10, <1>11, <1>12, <1>13, <1>14, <1>15
    DEF CallerStep

LEMMA WorkerStepType ==
    ASSUME TypeOK, WorkerStep
    PROVE  TypeOK'
  <1>1. ASSUME NEW v \in Videos, WorkerTake(v)
        PROVE  TypeOK'
    <2>1. plan' \subseteq Resolutions
      BY <1>1 DEF WorkerTake, DetermineResolutions
    <2> QED
      BY <1>1, <2>1
      DEF TypeOK, WorkerTake, rows, clock, disk, callers, answers, bounds, WorkerPoints
  <1>2. CASE WorkerMkdir
    <2>1. WorkerOK'
      BY <1>2, WorkerGotoType DEF WorkerMkdir, WorkerPoints
    <2> QED
      BY <1>2, <2>1 DEF TypeOK, WorkerOK, WorkerMkdir, rows, clock, callers, answers, bounds
  <1>3. CASE WorkerEncode
    <2>1. todo # {} /\ wvid \in Videos /\ todo \subseteq Resolutions
      BY <1>3 DEF TypeOK, WorkerEncode
    <2>2. WorkerOK'
      BY <1>3, <2>1, WorkerGotoType DEF WorkerEncode, WorkerPoints
    <2>3. Min(todo) \in Resolutions
      BY <2>1, NextResolution
    <2> QED
      BY <1>3, <2>1, <2>2, <2>3
      DEF TypeOK, WorkerOK, WorkerEncode, rows, clock, callers, answers, bounds
  <1>4. CASE WorkerRecord
    <2>1. todo # {} /\ wvid \in Videos /\ todo \subseteq Resolutions
      BY <1>4 DEF TypeOK, WorkerRecord, UpsertVideoRendition
    <2>2. Min(todo) \in Resolutions
      BY <2>1, NextResolution
    <2>3. WorkerOK'
      BY <1>4, <2>1 DEF TypeOK, WorkerOK, WorkerRecord, UpsertVideoRendition, WorkerPoints
    <2> QED
      BY <1>4, <2>1, <2>2, <2>3
      DEF TypeOK, WorkerOK, WorkerRecord, UpsertVideoRendition, clock, disk, callers,
          answers, bounds
  <1>5. CASE WorkerMaster
    <2>1. WorkerOK'
      BY <1>5, WorkerGotoType DEF WorkerMaster, WorkerPoints
    <2> QED
      BY <1>5, <2>1 DEF TypeOK, WorkerOK, WorkerMaster, rows, clock, callers, answers, bounds
  <1>6. CASE WorkerReady
    <2>1. WorkerOK'
      BY <1>6, WorkerDoneType DEF WorkerReady
    <2> QED
      BY <1>6, <2>1
      DEF TypeOK, WorkerOK, WorkerReady, WriteStatus, clock, callers, answers, bounds, Statuses
  <1>7. CASE WorkerStumble
    <2>1. WorkerOK'
      BY <1>7, WorkerGotoType DEF WorkerStumble, WorkerPoints
    <2> QED
      BY <1>7, <2>1
      DEF TypeOK, WorkerOK, WorkerStumble, rows, clock, disk, callers, answers, bounds
  <1>8. CASE WorkerFail
    <2>1. WorkerOK'
      BY <1>8, WorkerDoneType DEF WorkerFail
    <2> QED
      BY <1>8, <2>1
      DEF TypeOK, WorkerOK, WorkerFail, WriteStatus, clock, disk, callers, answers, bounds,
          Statuses
  <1>9. CASE WorkerReadyCheck \/ \E last \in BOOLEAN : WorkerFailCheck(last)
    <2>1. WorkerOK'
      BY <1>9, WorkerGotoType, WorkerDoneType
      DEF WorkerReadyCheck, WorkerFailCheck, WorkerPoints
    <2> QED
      BY <1>9, <2>1
      DEF TypeOK, WorkerOK, WorkerReadyCheck, WorkerFailCheck, rows, clock, disk, callers,
          answers, bounds
  <1> QED
    BY <1>1, <1>2, <1>3, <1>4, <1>5, <1>6, <1>7, <1>8, <1>9 DEF WorkerStep

LEMMA NextType == TypeOK /\ [Next]_vars => TypeOK'
  <1> SUFFICES ASSUME TypeOK, [Next]_vars PROVE TypeOK'
    OBVIOUS
  <1>1. ASSUME NEW v \in Videos, NEW p \in Purposes, Expire(v, p)
        PROVE  TypeOK'
    <2>1. granted' \in [Videos -> 0..MaxTokens]
      BY <1>1, LibraryAssumption DEF TypeOK, Expire
    <2> QED
      BY <1>1, <2>1 DEF TypeOK, Expire, rows, disk, callers, worker, bounds
  <1>2. CASE Cleanup
    <2>1. token' \in [Videos \X Purposes -> 0..MaxTokens]
      BY <1>2, LibraryAssumption DEF TypeOK, Cleanup
    <2> QED
      BY <1>2, <2>1 DEF TypeOK, Cleanup, disk, callers, worker, answers, bounds
  <1>3. CASE UNCHANGED vars
    BY <1>3 DEF TypeOK, vars, rows, clock, disk, callers, worker, answers, bounds
  <1> QED
    BY <1>1, <1>2, <1>3, RequestType, CallerStepType, WorkerStepType DEF Next

\* The types hold for every set of videos, callers and every bound.
THEOREM TypeCorrect == Spec => []TypeOK
  BY InitType, NextType, PTL DEF Spec

-----------------------------------------------------------------------------
(* Deletions.                                                              *)

\* The inductive invariant: what refers to a video has its row (the foreign
\* keys), and a deletion was answered only without one.
RowsAreThere ==
    /\ TypeOK
    /\ \A v \in Videos : Referenced(v) => status[v] # "none"
    /\ \A v \in gone : status[v] = "none"

LEMMA RowsStayThere ==
    ASSUME RowsAreThere, [Next]_vars
    PROVE  RowsAreThere'
  <1> USE DEF RowsAreThere, Referenced
  <1>0. TypeOK /\ TypeOK'
    BY NextType
  <1>1. ASSUME NEW c \in Callers, NEW v \in Videos, Request(c, v)
        PROVE  RowsAreThere'
    BY <1>0, <1>1
    DEF Request, InitInsert, PlayInit, DeleteRequest, ReprocessRequest, TusRequest,
        MasterRequest, rows, answers, TypeOK
  <1>2. ASSUME NEW c \in Callers, CallerStep(c)
        PROVE  RowsAreThere'
    <2>1. CASE InitToken(c) \/ PlayToken(c)
      BY <1>0, <2>1
      DEF InitToken, PlayToken, InsertAccessToken, TypeOK, answers, Purposes
    <2>2. CASE TokenRefused(c) \/ MasterRow(c) \/ MasterFile(c) \/ TusPost(c)
               \/ TusDelete(c) \/ Fault(c)
      BY <1>0, <2>2
      DEF TokenRefused, MasterRow, MasterFile, TusPost, TusDelete, Fault, rows, answers
    <2>3. CASE TusPatch(c) \/ Reprocess(c)
      <3>1. \A v \in Videos : status'[v] = "none" <=> status[v] = "none"
        BY <1>0, <2>3 DEF TusPatch, Reprocess, TypeOK
      <3>2. UNCHANGED << token, renditions, gone >> /\ gone \subseteq Videos
        BY <1>0, <2>3 DEF TusPatch, Reprocess, answers, TypeOK
      <3> QED
        BY <1>0, <3>1, <3>2
    <2>4. CASE DeleteTokens(c)
      BY <1>0, <2>4 DEF DeleteTokens, TypeOK
    <2>5. CASE DeleteRenditions(c)
      BY <1>0, <2>5 DEF DeleteRenditions, TypeOK, answers
    <2>6. CASE DeleteVideo(c)
      BY <1>0, <2>6 DEF DeleteVideo, TypeOK, answers
    <2>7. CASE DeleteFiles(c)
      BY <1>0, <2>7 DEF DeleteFiles, TypeOK, rows
    <2> QED
      BY <1>2, <2>1, <2>2, <2>3, <2>4, <2>5, <2>6, <2>7 DEF CallerStep
  <1>3. CASE WorkerStep
    <2>1. CASE WorkerRecord
      BY <1>0, <2>1 DEF WorkerRecord, UpsertVideoRendition, TypeOK, answers
    <2>2. CASE WorkerReady \/ WorkerFail
      BY <1>0, <2>2 DEF WorkerReady, WorkerFail, WriteStatus, TypeOK, answers
    <2> QED
      BY <1>0, <1>3, <2>1, <2>2
      DEF WorkerStep, WorkerTake, WorkerMkdir, WorkerEncode, WorkerMaster, WorkerStumble,
          WorkerReadyCheck, WorkerFailCheck, rows, answers
  <1>4. CASE (\E v \in Videos, p \in Purposes : Expire(v, p)) \/ Cleanup
    BY <1>0, <1>4 DEF Expire, Cleanup, rows, answers, TypeOK
  <1>5. CASE UNCHANGED vars
    BY <1>0, <1>5 DEF vars, rows, answers
  <1> QED
    BY <1>1, <1>2, <1>3, <1>4, <1>5 DEF Next

\* No row of a video comes back after the answer to its deletion, whoever was at
\* work on it (HandleDeleteVideo).
THEOREM DeletedStaysDeleted == Spec => []DeletionIsFinal
  <1>1. Init => RowsAreThere
    BY InitType DEF Init, RowsAreThere, Referenced
  <1>2. RowsAreThere => DeletionIsFinal
    BY DEF RowsAreThere, DeletionIsFinal, TypeOK
  <1> QED
    BY <1>1, <1>2, RowsStayThere, PTL DEF Spec

-----------------------------------------------------------------------------
(* Tokens.                                                                 *)

\* What GrantedTokenWorks says of the tables.
GrantedInForce ==
    /\ TypeOK
    /\ \A v \in Videos : granted[v] # 0 =>
        token[<<v, "upload">>] = granted[v] /\ <<v, "upload">> \notin expired

LEMMA GrantedStaysInForce ==
    ASSUME GrantedInForce, [Next]_vars
    PROVE  GrantedInForce'
  <1> USE DEF GrantedInForce, Purposes
  <1>0. TypeOK /\ TypeOK'
    BY NextType
  <1>1. ASSUME NEW c \in Callers, NEW v \in Videos, Request(c, v)
        PROVE  GrantedInForce'
    BY <1>0, <1>1
    DEF Request, InitInsert, PlayInit, DeleteRequest, ReprocessRequest, TusRequest,
        MasterRequest, rows, answers, clock
  <1>2. ASSUME NEW c \in Callers, CallerStep(c)
        PROVE  GrantedInForce'
    <2>0. at[c] # "idle" /\ vid[c] \in Videos
      BY <1>0, <1>2
      DEF CallerStep, InitToken, TokenRefused, TusPost, TusPatch, TusDelete, PlayToken, MasterRow,
          MasterFile, DeleteTokens, DeleteRenditions, DeleteVideo, DeleteFiles,
          Reprocess, Fault, DeletionPoints, TypeOK
    <2>1. CASE InitToken(c)
      BY <1>0, <2>0, <2>1 DEF InitToken, InsertAccessToken, TypeOK
    <2>2. CASE PlayToken(c)
      BY <1>0, <2>0, <2>2 DEF PlayToken, InsertAccessToken, TypeOK, answers
    <2>3. CASE DeleteTokens(c)
      BY <1>0, <2>0, <2>3 DEF DeleteTokens, TypeOK
    <2>4. CASE \/ TokenRefused(c) \/ TusPost(c) \/ TusPatch(c) \/ TusDelete(c) \/ MasterRow(c)
               \/ MasterFile(c) \/ DeleteRenditions(c) \/ DeleteVideo(c)
               \/ DeleteFiles(c) \/ Reprocess(c) \/ Fault(c)
      BY <1>0, <2>4
      DEF TokenRefused, TusPost, TusPatch, TusDelete, MasterRow, MasterFile, DeleteRenditions,
          DeleteVideo, DeleteFiles, Reprocess, Fault, rows, clock, answers
    <2> QED
      BY <1>2, <2>1, <2>2, <2>3, <2>4 DEF CallerStep
  <1>3. CASE WorkerStep
    BY <1>0, <1>3
    DEF WorkerStep, WorkerTake, WorkerMkdir, WorkerEncode, WorkerRecord,
        UpsertVideoRendition, WorkerMaster, WorkerReadyCheck, WorkerReady,
        WorkerStumble, WorkerFailCheck, WorkerFail, WriteStatus, rows, clock, answers
  <1>4. ASSUME NEW v \in Videos, NEW p \in Purposes, Expire(v, p)
        PROVE  GrantedInForce'
    BY <1>0, <1>4 DEF Expire, rows, TypeOK
  <1>5. CASE Cleanup
    BY <1>0, <1>5 DEF Cleanup, answers, TypeOK
  <1>6. CASE UNCHANGED vars
    BY <1>0, <1>6 DEF vars, rows, clock, answers
  <1> QED
    BY <1>1, <1>2, <1>3, <1>4, <1>5, <1>6 DEF Next

\* The token upload/init answered with is good until it expires or a deletion
\* begins, for every number of requests beside it (UNIQUE (video_id, purpose)).
THEOREM GrantedTokensWork == Spec => []GrantedTokenWorks
  <1>1. Init => GrantedInForce
    BY InitType DEF Init, GrantedInForce
  <1>2. GrantedInForce => GrantedTokenWorks
    BY DEF GrantedInForce, GrantedTokenWorks, Accepts
  <1> QED
    BY <1>1, <1>2, GrantedStaysInForce, PTL DEF Spec

\* A token that was refused once is refused for ever, whatever is issued, removed
\* or deleted and inserted anew after it: no row comes back under an old value and
\* no expired one is renewed (INSERT OR REPLACE, TokenCleanupJob, HandleDeleteVideo).
RefusedForEver ==
    [][\A v \in Videos, p \in Purposes : \A k \in Known :
          ~Accepts(k, v, p) => ~Accepts(k, v, p)']_vars

\* The row of a key is as it was, or is gone, or is of a younger token; and only
\* with its row does an expired token cease to be known as expired.
LEMMA TokensGrowOlder ==
    ASSUME TypeOK, [Next]_vars, NEW x \in Videos \X Purposes
    PROVE  \/ token'[x] = token[x] /\ (x \in expired => x \in expired')
           \/ token'[x] = 0
           \/ token'[x] > issued[x]
  <1> USE DEF TypeOK
  <1>1. ASSUME NEW v \in Videos, NEW p \in Purposes, InsertAccessToken(v, p)
        PROVE  \/ token'[x] = token[x] /\ (x \in expired => x \in expired')
               \/ token'[x] > issued[x]
    <2>1. CASE x = <<v, p>>
      <3>1. token'[x] = issued[x] + 1 /\ issued[x] \in Nat
        BY <1>1, <2>1, LibraryAssumption DEF InsertAccessToken
      <3> QED
        BY <3>1
    <2>2. CASE x # <<v, p>>
      BY <1>1, <2>2 DEF InsertAccessToken
    <2> QED
      BY <2>1, <2>2
  <1>2. CASE \E c \in Callers : InitToken(c) \/ PlayToken(c)
    <2>1. PICK c \in Callers : InitToken(c) \/ PlayToken(c)
      BY <1>2
    <2>2. vid[c] \in Videos /\ "upload" \in Purposes /\ "play" \in Purposes
      BY <2>1 DEF InitToken, PlayToken, Purposes
    <2> QED
      BY <1>1, <2>1, <2>2 DEF InitToken, PlayToken
  <1>3. CASE \E c \in Callers : DeleteTokens(c)
    BY <1>3 DEF DeleteTokens
  <1>4. CASE Cleanup
    BY <1>4 DEF Cleanup
  <1>5. CASE \E v \in Videos, p \in Purposes : Expire(v, p)
    BY <1>5 DEF Expire, rows
  <1>6. ASSUME NEW c \in Callers,
               CallerStep(c), ~InitToken(c), ~PlayToken(c), ~DeleteTokens(c)
        PROVE  UNCHANGED << token, expired >>
    BY <1>6
    DEF CallerStep, TokenRefused, TusPost, TusPatch, TusDelete, MasterRow, MasterFile,
        DeleteRenditions, DeleteVideo, DeleteFiles, Reprocess, Fault, rows, clock
  <1>7. ASSUME NEW c \in Callers, NEW v \in Videos, Request(c, v)
        PROVE  UNCHANGED << token, expired >>
    BY <1>7
    DEF Request, InitInsert, PlayInit, DeleteRequest, ReprocessRequest, TusRequest,
        MasterRequest, rows, clock
  <1>8. WorkerStep \/ UNCHANGED vars => UNCHANGED << token, expired >>
    BY DEF WorkerStep, WorkerTake, WorkerMkdir, WorkerEncode, WorkerRecord, WorkerMaster,
           WorkerReadyCheck, WorkerReady, WorkerStumble, WorkerFailCheck, WorkerFail,
           rows, clock, vars
  <1> QED
    BY <1>2, <1>3, <1>4, <1>5, <1>6, <1>7, <1>8 DEF Next

THEOREM TokensAreNotRevived == Spec => RefusedForEver
  <1>1. ASSUME TypeOK, [Next]_vars, NEW v \in Videos, NEW p \in Purposes, NEW k \in Known,
               ~Accepts(k, v, p)
        PROVE  ~Accepts(k, v, p)'
    <2>1. CASE k.p = p /\ k.v = v
      <3>1. <<k.v, k.p>> \in Videos \X Purposes
        BY <2>1
      <3>2. /\ k.n \in Nat /\ k.n >= 1 /\ k.n <= issued[<<k.v, k.p>>]
            /\ issued[<<k.v, k.p>>] \in Nat
        BY <1>1, <3>1, LibraryAssumption DEF Known, Key, TypeOK
      <3>3. token[<<k.v, k.p>>] # k.n \/ <<k.v, k.p>> \in expired
        BY <1>1, <2>1 DEF Accepts
      <3>4. token'[<<k.v, k.p>>] # k.n \/ <<k.v, k.p>> \in expired'
        <4> DEFINE x == <<k.v, k.p>>
        <4>1. \/ token'[x] = token[x] /\ (x \in expired => x \in expired')
              \/ token'[x] = 0
              \/ token'[x] > issued[x]
          BY <1>1, <3>1, TokensGrowOlder
        <4> QED
          BY <3>2, <3>3, <4>1
      <3> QED
        BY <3>4 DEF Accepts
    <2>2. CASE ~(k.p = p /\ k.v = v)
      BY <2>2 DEF Accepts
    <2> QED
      BY <2>1, <2>2
  <1>2. TypeOK /\ [Next]_vars =>
          (\A v \in Videos, p \in Purposes : \A k \in Known :
             ~Accepts(k, v, p) => ~Accepts(k, v, p)')
    BY <1>1
  <1> QED
    BY <1>2, TypeCorrect, PTL DEF Spec, RefusedForEver

\* After the answer to a deletion no token opens the video any more, neither for a
\* player nor for an upload; with TokensAreNotRevived it stays so for those that
\* were issued until then when the ID is used again.
GoneIsClosed ==
    \A v \in gone, p \in Purposes : \A k \in Known : ~Accepts(k, v, p)

THEOREM NothingOpensWhatIsGone == Spec => []GoneIsClosed
  <1>1. TypeOK /\ DeletionIsFinal => GoneIsClosed
    <2> SUFFICES ASSUME TypeOK, DeletionIsFinal, NEW v \in gone, NEW p \in Purposes,
                        NEW k \in Known, Accepts(k, v, p)
                 PROVE  FALSE
      BY DEF GoneIsClosed
    <2>1. token[<<v, p>>] = k.n /\ k.n # 0
      BY LibraryAssumption DEF Accepts, Known, Key
    <2> QED
      BY <2>1 DEF DeletionIsFinal, Referenced
  <1> QED
    BY <1>1, TypeCorrect, DeletedStaysDeleted, PTL

-----------------------------------------------------------------------------
(* Videos whose IDs are not reused while something is under way for them.  *)

LEMMA TerminalStatuses ==
    /\ Terminal = {"ready", "failed_upload", "failed_transcode"}
    /\ \A s \in Terminal : ValidTransitions[s] = {}
  <1>1. \A s \in Terminal : ValidTransitions[s] = {}
    BY DEF Terminal
  <1>2. Terminal = {"ready", "failed_upload", "failed_transcode"}
    BY DEF Terminal, ValidTransitions, Statuses
  <1> QED
    BY <1>1, <1>2

\* The status of the video the worker has in hand, between its reads and its writes.
WorkersStatus == wat # "idle" => status[wvid] \in {"transcoding", "none"}

LEMMA WorkersStatusStays ==
    ASSUME Orderly, TypeOK, WorkersStatus, [Next]_vars
    PROVE  WorkersStatus'
  <1> USE DEF WorkersStatus, TypeOK
  <1>1. ASSUME NEW c \in Callers, NEW v \in Videos, Request(c, v)
        PROVE  WorkersStatus'
    <2>1. UNCHANGED worker
      BY <1>1
      DEF Request, InitInsert, PlayInit, DeleteRequest, ReprocessRequest, TusRequest,
          MasterRequest
    <2>2. wvid # v \/ UNCHANGED status
      BY <1>1
      DEF Request, InitInsert, Quiet, PlayInit, DeleteRequest, ReprocessRequest,
          TusRequest, MasterRequest, rows
    <2>3. \A u \in Videos : u # v => status'[u] = status[u]
      BY <1>1
      DEF Request, InitInsert, PlayInit, DeleteRequest, ReprocessRequest, TusRequest,
          MasterRequest, rows
    <2> QED
      BY <2>1, <2>2, <2>3 DEF worker
  <1>2. ASSUME NEW c \in Callers, CallerStep(c)
        PROVE  WorkersStatus'
    <2>1. UNCHANGED worker
      BY <1>2
      DEF CallerStep, InitToken, TokenRefused, TusPost, TusPatch, TusDelete, PlayToken,
          MasterRow, MasterFile, DeleteTokens, DeleteRenditions, DeleteVideo, DeleteFiles,
          Reprocess, Fault
    <2>2. \A u \in Videos : status[u] \in {"transcoding", "none"} =>
            status'[u] \in {"transcoding", "none"}
      <3>1. CASE TusPatch(c)
        BY <3>1 DEF TusPatch
      <3>2. CASE DeleteVideo(c)
        BY <3>2 DEF DeleteVideo
      <3>3. CASE Reprocess(c)
        BY <3>3 DEF Reprocess
      <3> QED
        BY <1>2, <3>1, <3>2, <3>3
        DEF CallerStep, InitToken, TokenRefused, TusPost, TusDelete, PlayToken, MasterRow,
            MasterFile, DeleteTokens, DeleteRenditions, DeleteFiles, Fault, rows
    <2> QED
      BY <2>1, <2>2 DEF worker
  <1>3. CASE WorkerStep
    BY <1>3
    DEF WorkerStep, WorkerTake, WorkerMkdir, WorkerEncode, WorkerRecord, WorkerMaster,
        WorkerReadyCheck, WorkerReady, WorkerStumble, WorkerFailCheck, WorkerFail,
        WorkerGoto, WorkerDone, rows
  <1>4. CASE (\E v \in Videos, p \in Purposes : Expire(v, p)) \/ Cleanup \/ UNCHANGED vars
    BY <1>4 DEF Expire, Cleanup, vars, rows, worker
  <1> QED
    BY <1>1, <1>2, <1>3, <1>4 DEF Next

\* The inductive invariant of PlayedWasReady: a play token, and whoever was let
\* past a check that the video is ready, is of a video that still is or is gone.
PlaysAreOfReady ==
    /\ RowsAreThere
    /\ WorkersStatus
    /\ \A c \in Callers : at[c] \in {"play_token", "master_row", "master_file"} =>
        status[vid[c]] \in {"ready", "none"}
    /\ \A v \in Videos : token[<<v, "play">>] # 0 => status[v] = "ready"

LEMMA PlaysStayOfReady ==
    ASSUME Orderly, PlaysAreOfReady, [Next]_vars
    PROVE  PlaysAreOfReady'
  <1> USE DEF PlaysAreOfReady, Purposes
  <1>0. TypeOK /\ TypeOK' /\ RowsAreThere /\ RowsAreThere' /\ WorkersStatus'
    BY NextType, RowsStayThere, WorkersStatusStays DEF RowsAreThere
  <1>1. ASSUME NEW c \in Callers, NEW v \in Videos, Request(c, v)
        PROVE  PlaysAreOfReady'
    <2>1. CASE InitInsert(c, v)
      BY <1>0, <2>1 DEF InitInsert, Quiet, Take, TypeOK, RowsAreThere, Referenced
    <2>2. CASE \E k \in Known : MasterRequest(c, k, v)
      <3>1. PICK k \in Known : MasterRequest(c, k, v)
        BY <2>2
      <3>2. token[<<v, "play">>] # 0
        BY <3>1, <1>0 DEF MasterRequest, Accepts, Known, Key, TypeOK
      <3> QED
        BY <1>0, <3>1, <3>2 DEF MasterRequest, Take, TypeOK, rows
    <2>3. CASE PlayInit(c, v) \/ DeleteRequest(c, v) \/ ReprocessRequest(c, v)
      <3>1. UNCHANGED << status, token >>
        BY <2>3 DEF PlayInit, DeleteRequest, ReprocessRequest, rows
      <3>2. \A d \in Callers : at'[d] \in {"play_token", "master_row", "master_file"} =>
              \/ at'[d] = at[d] /\ vid'[d] = vid[d]
              \/ status[vid'[d]] = "ready"
        BY <1>0, <2>3 DEF PlayInit, DeleteRequest, ReprocessRequest, Take, TypeOK
      <3> QED
        BY <1>0, <3>1, <3>2
    <2>4. CASE \E k \in Known : TusRequest(c, k, v)
      <3>1. UNCHANGED << status, token >>
        BY <2>4 DEF TusRequest, rows
      <3>2. \A d \in Callers : at'[d] # "tus" => at'[d] = at[d] /\ vid'[d] = vid[d]
        BY <1>0, <2>4 DEF TusRequest, TypeOK
      <3> QED
        BY <1>0, <3>1, <3>2
    <2> QED
      BY <1>1, <2>1, <2>2, <2>3, <2>4 DEF Request
  <1>2. ASSUME NEW c \in Callers, CallerStep(c)
        PROVE  PlaysAreOfReady'
    <2>0. vid[c] \in Videos
      BY <1>0, <1>2
      DEF CallerStep, InitToken, TokenRefused, TusPost, TusPatch, TusDelete, PlayToken, MasterRow,
          MasterFile, DeleteTokens, DeleteRenditions, DeleteVideo, DeleteFiles,
          Reprocess, Fault, DeletionPoints, TypeOK
    <2>1. CASE InitToken(c) \/ PlayToken(c)
      BY <1>0, <2>0, <2>1
      DEF InitToken, PlayToken, InsertAccessToken, Goto, Take, TypeOK
    <2>2. CASE MasterRow(c)
      BY <1>0, <2>0, <2>2 DEF MasterRow, Goto, Take, TypeOK, rows
    <2>3. CASE TokenRefused(c) \/ TusPost(c) \/ TusDelete(c) \/ MasterFile(c) \/ Fault(c)
      BY <1>0, <2>0, <2>3
      DEF TokenRefused, TusPost, TusDelete, MasterFile, Fault, Goto, Take, TypeOK, rows
    <2>4. CASE TusPatch(c)
      BY <1>0, <2>0, <2>4 DEF TusPatch, Goto, Take, TypeOK
    <2>5. CASE DeleteTokens(c) \/ DeleteRenditions(c) \/ DeleteFiles(c)
      BY <1>0, <2>0, <2>5 DEF DeleteTokens, DeleteRenditions, DeleteFiles, Goto, Take, TypeOK, rows
    <2>6. CASE DeleteVideo(c)
      <3>1. \A v \in Videos : status'[v] \in {status[v], "none"}
        BY <1>0, <2>0, <2>6 DEF DeleteVideo, TypeOK
      <3>2. \A d \in Callers : at'[d] \in {"play_token", "master_row", "master_file"} =>
              at'[d] = at[d] /\ vid'[d] = vid[d] /\ vid[d] \in Videos
        BY <1>0, <2>0, <2>6 DEF DeleteVideo, Goto, Take, TypeOK
      <3>3. \A v \in Videos : token'[<<v, "play">>] # 0 => status'[v] = "ready"
        <4>1. UNCHANGED token
          BY <2>6 DEF DeleteVideo
        <4>2. \A v \in Videos : status'[v] = status[v] \/ ~Referenced(v)
          BY <1>0, <2>0, <2>6 DEF DeleteVideo, TypeOK
        <4>3. \A v \in Videos : ~Referenced(v) => token[<<v, "play">>] = 0
          BY DEF Referenced
        <4> QED
          BY <4>1, <4>2, <4>3
      <3>4. \A d \in Callers : at'[d] \in {"play_token", "master_row", "master_file"} =>
              status'[vid'[d]] \in {"ready", "none"}
        <4> SUFFICES ASSUME NEW d \in Callers,
                            at'[d] \in {"play_token", "master_row", "master_file"}
                     PROVE  status'[vid'[d]] \in {"ready", "none"}
          OBVIOUS
        <4>1. vid'[d] = vid[d] /\ vid[d] \in Videos /\ status[vid[d]] \in {"ready", "none"}
          BY <3>2
        <4> QED
          BY <3>1, <4>1
      <3> QED
        BY <1>0, <3>3, <3>4
    <2>7. CASE Reprocess(c)
      <3>1. status[vid[c]] = "ready" => UNCHANGED status
        BY <2>7, TerminalStatuses DEF Reprocess, IsValidTransition
      <3> QED
        BY <1>0, <2>0, <2>7, <3>1 DEF Reprocess, Goto, Take, TypeOK
    <2> QED
      BY <1>2, <2>1, <2>2, <2>3, <2>4, <2>5, <2>6, <2>7 DEF CallerStep
  <1>3. CASE WorkerStep
    <2>1. CASE WorkerReady
      BY <1>0, <2>1 DEF WorkerReady, WriteStatus, WorkersStatus, TypeOK, callers
    <2>2. CASE WorkerFail
      BY <1>0, <2>2 DEF WorkerFail, WriteStatus, WorkersStatus, TypeOK, callers
    <2> QED
      BY <1>0, <1>3, <2>1, <2>2
      DEF WorkerStep, WorkerTake, WorkerMkdir, WorkerEncode, WorkerRecord,
          UpsertVideoRendition, WorkerMaster, WorkerReadyCheck, WorkerFailCheck,
          WorkerStumble, rows, callers
  <1>4. CASE \E v \in Videos, p \in Purposes : Expire(v, p)
    BY <1>0, <1>4 DEF Expire, rows, callers
  <1>5. CASE Cleanup
    <2>1. \A v \in Videos : token'[<<v, "play">>] \in {token[<<v, "play">>], 0}
      BY <1>5 DEF Cleanup
    <2> QED
      BY <1>0, <1>5, <2>1 DEF Cleanup, callers
  <1>6. CASE UNCHANGED vars
    BY <1>0, <1>6 DEF vars, rows, callers
  <1> QED
    BY <1>1, <1>2, <1>3, <1>4, <1>5, <1>6 DEF Next

\* Whoever passes the check of the master playlist found a video that was ready,
\* for every number of callers, when IDs are reused in good order.
THEOREM PlayersWereRightToPlay ==
    ASSUME Orderly
    PROVE  Spec => []PlayedWasReady
  <1>1. Init => PlaysAreOfReady
    BY InitType
    DEF Init, PlaysAreOfReady, WorkersStatus, RowsAreThere, Referenced, Purposes
  <1>2. PlaysAreOfReady => PlayedWasReady
    BY DEF PlaysAreOfReady, PlayedWasReady
  <1>3. PlaysAreOfReady /\ [Next]_vars => PlaysAreOfReady'
    BY PlaysStayOfReady, Orderly
  <1> QED
    BY <1>1, <1>2, <1>3, PTL DEF Spec

-----------------------------------------------------------------------------
\* What the files of the worker's video are at each of its program points.
WorkersFiles ==
    /\ wat # "idle" => status[wvid] \in {"transcoding", "none"}
    /\ wat \in {"master", "ready", "set_ready"} => todo = {}
    /\ wat # "idle" /\ status[wvid] # "none" =>
        /\ wat \notin {"fail", "set_failed"} => plan \ todo \subseteq variants[wvid]
        /\ wat = "record" => Min(todo) \in variants[wvid]
        /\ wat \in {"ready", "set_ready"} => wvid \in published /\ master[wvid] = plan

\* The inductive invariant of ReadyIsOnDisk.
FilesAreThere ==
    /\ RowsAreThere
    /\ WorkersFiles
    /\ \A c \in Callers : at[c] = "del_files" => status[vid[c]] = "none"
    /\ \A v \in Videos : status[v] # "none" => renditions[v] \subseteq variants[v]
    /\ \A v \in Videos : status[v] = "ready" =>
        v \in published /\ master[v] \subseteq variants[v]

LEMMA FilesStayThere ==
    ASSUME Orderly, FilesAreThere, [Next]_vars
    PROVE  FilesAreThere'
  <1> USE DEF FilesAreThere
  <1>0. TypeOK /\ TypeOK' /\ RowsAreThere /\ RowsAreThere' /\ WorkersFiles
    BY NextType, RowsStayThere DEF RowsAreThere
  <1>1. ASSUME NEW c \in Callers, NEW v \in Videos, Request(c, v)
        PROVE  FilesAreThere'
    <2>1. CASE InitInsert(c, v)
      <3>1. renditions[v] = {} /\ wvid # v /\ \A d \in Callers : vid[d] # v
        BY <1>0, <2>1 DEF InitInsert, Quiet, RowsAreThere, Referenced
      <3> QED
        BY <1>0, <2>1, <3>1 DEF InitInsert, Take, TypeOK, disk, worker, WorkersFiles
    <2>2. CASE PlayInit(c, v) \/ DeleteRequest(c, v) \/ ReprocessRequest(c, v)
               \/ \E k \in Known : MasterRequest(c, k, v)
      BY <1>0, <2>2
      DEF PlayInit, DeleteRequest, ReprocessRequest, MasterRequest, Take, TypeOK, rows,
          disk, worker, WorkersFiles
    <2>3. CASE \E k \in Known : TusRequest(c, k, v)
      BY <1>0, <2>3 DEF TusRequest, TypeOK, rows, disk, worker, WorkersFiles
    <2> QED
      BY <1>1, <2>1, <2>2, <2>3 DEF Request
  <1>2. ASSUME NEW c \in Callers, CallerStep(c)
        PROVE  FilesAreThere'
    <2>0. vid[c] \in Videos
      BY <1>0, <1>2
      DEF CallerStep, InitToken, TokenRefused, TusPost, TusPatch, TusDelete, PlayToken, MasterRow,
          MasterFile, DeleteTokens, DeleteRenditions, DeleteVideo, DeleteFiles,
          Reprocess, Fault, DeletionPoints, TypeOK
    <2>1. CASE \/ InitToken(c) \/ PlayToken(c) \/ TokenRefused(c) \/ TusPost(c)
               \/ TusDelete(c) \/ MasterRow(c) \/ MasterFile(c) \/ Fault(c)
      <3>1. UNCHANGED << status, renditions, variants, published, master, worker >>
        BY <2>1
        DEF InitToken, PlayToken, TokenRefused, TusPost, TusDelete, MasterRow, MasterFile,
            Fault, rows, disk
      <3>2. \A d \in Callers : at'[d] = "del_files" => at[d] = at'[d] /\ vid[d] = vid'[d]
        BY <1>0, <2>1
        DEF InitToken, PlayToken, TokenRefused, TusPost, TusDelete, MasterRow, MasterFile,
            Fault, Goto, Take, TypeOK
      <3> QED
        BY <1>0, <3>1, <3>2 DEF worker, WorkersFiles
    <2>2. CASE TusPatch(c)
      BY <1>0, <2>0, <2>2 DEF TusPatch, Goto, Take, TypeOK, worker, WorkersFiles
    <2>3. CASE DeleteTokens(c) \/ DeleteRenditions(c)
      <3>1. UNCHANGED << status, variants, published, master, worker >>
        BY <2>3 DEF DeleteTokens, DeleteRenditions, disk
      <3>2. \A v \in Videos : renditions'[v] \subseteq renditions[v]
        BY <1>0, <2>0, <2>3 DEF DeleteTokens, DeleteRenditions, TypeOK
      <3>3. \A d \in Callers : at'[d] = "del_files" => at[d] = at'[d] /\ vid[d] = vid'[d]
        BY <1>0, <2>0, <2>3 DEF DeleteTokens, DeleteRenditions, Goto, Take, TypeOK
      <3> QED
        BY <1>0, <3>1, <3>2, <3>3 DEF worker, WorkersFiles
    <2>4. CASE DeleteVideo(c)
      <3>1. UNCHANGED << renditions, variants, published, master, worker >>
        BY <2>4 DEF DeleteVideo, disk
      <3>2. \A v \in Videos : status'[v] \in {status[v], "none"}
        BY <1>0, <2>0, <2>4 DEF DeleteVideo, TypeOK
      <3>3. WorkersFiles'
        BY <1>0, <3>1, <3>2 DEF worker, WorkersFiles, TypeOK
      <3>4. \A d \in Callers : at'[d] = "del_files" => status'[vid'[d]] = "none"
        <4>1. \A d \in Callers : at'[d] = "del_files" /\ d # c =>
                at[d] = at'[d] /\ vid[d] = vid'[d] /\ vid[d] \in Videos
          BY <1>0, <2>0, <2>4 DEF DeleteVideo, Goto, Take, TypeOK
        <4>2. at'[c] = "del_files" => vid'[c] = vid[c] /\ status'[vid[c]] = "none"
          BY <1>0, <2>0, <2>4 DEF DeleteVideo, Goto, Take, TypeOK
        <4> QED
          BY <3>2, <4>1, <4>2
      <3>5. \A v \in Videos : status'[v] # "none" => renditions'[v] \subseteq variants'[v]
        BY <3>1, <3>2
      <3> QED
        BY <1>0, <3>1, <3>2, <3>3, <3>4, <3>5
    <2>5. CASE DeleteFiles(c)
      BY <1>0, <2>0, <2>5 DEF DeleteFiles, Goto, Take, TypeOK, rows, worker, WorkersFiles
    <2>6. CASE Reprocess(c)
      <3>1. status[vid[c]] \in Terminal \cup {"none"} => UNCHANGED status
        BY <2>6, TerminalStatuses DEF Reprocess, IsValidTransition
      <3>2. status[vid[c]] = "ready" => UNCHANGED status
        BY <3>1, TerminalStatuses
      <3> QED
        BY <1>0, <2>0, <2>6, <3>1, <3>2
        DEF Reprocess, Goto, Take, TypeOK, disk, worker, WorkersFiles
    <2> QED
      BY <1>2, <2>1, <2>2, <2>3, <2>4, <2>5, <2>6 DEF CallerStep
  <1>3. CASE WorkerStep
    <2> USE <1>0
    <2>1. ASSUME NEW v \in Videos, WorkerTake(v)
          PROVE  FilesAreThere'
      BY <2>1 DEF WorkerTake, rows, disk, callers, WorkersFiles
    <2>2. CASE WorkerMkdir
      BY <2>2 DEF WorkerMkdir, WorkerGoto, rows, callers, WorkersFiles, TypeOK
    <2>3. CASE WorkerEncode
      BY <2>3 DEF WorkerEncode, WorkerGoto, rows, callers, WorkersFiles, TypeOK
    <2>4. CASE WorkerRecord
      BY <2>4 DEF WorkerRecord, UpsertVideoRendition, disk, callers, WorkersFiles, TypeOK
    <2>5. CASE WorkerMaster
      BY <2>5 DEF WorkerMaster, WorkerGoto, rows, callers, WorkersFiles, TypeOK
    <2>6. CASE WorkerReady
      BY <2>6 DEF WorkerReady, WriteStatus, WorkerDone, callers, WorkersFiles, TypeOK
    <2>7. CASE WorkerStumble
      BY <2>7 DEF WorkerStumble, WorkerGoto, rows, disk, callers, WorkersFiles, TypeOK
    <2>8. CASE WorkerFail
      BY <2>8 DEF WorkerFail, WriteStatus, WorkerDone, disk, callers, WorkersFiles, TypeOK
    <2>9. CASE WorkerReadyCheck \/ \E last \in BOOLEAN : WorkerFailCheck(last)
      BY <2>9
      DEF WorkerReadyCheck, WorkerFailCheck, WorkerGoto, WorkerDone, rows, disk, callers,
          WorkersFiles, TypeOK
    <2> QED
      BY <1>3, <2>1, <2>2, <2>3, <2>4, <2>5, <2>6, <2>7, <2>8, <2>9 DEF WorkerStep
  <1>4. CASE (\E v \in Videos, p \in Purposes : Expire(v, p)) \/ Cleanup
    BY <1>0, <1>4 DEF Expire, Cleanup, rows, callers, disk, worker, WorkersFiles
  <1>5. CASE UNCHANGED vars
    BY <1>0, <1>5 DEF vars, rows, callers, disk, worker, WorkersFiles
  <1> QED
    BY <1>1, <1>2, <1>3, <1>4, <1>5 DEF Next

\* A ready video has its files, whatever deletions, retries and requests run
\* beside the worker, when IDs are reused in good order.
THEOREM ReadyVideosAreOnDisk ==
    ASSUME Orderly
    PROVE  Spec => []ReadyIsOnDisk
  <1>1. Init => FilesAreThere
    BY InitType
    DEF Init, FilesAreThere, RowsAreThere, Referenced, WorkersFiles, Purposes
  <1>2. FilesAreThere => ReadyIsOnDisk
    BY DEF FilesAreThere, ReadyIsOnDisk
  <1>3. FilesAreThere /\ [Next]_vars => FilesAreThere'
    BY FilesStayThere, Orderly
  <1> QED
    BY <1>1, <1>2, <1>3, PTL DEF Spec

=============================================================================

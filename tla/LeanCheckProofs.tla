--------------------------- MODULE LeanCheckProofs ---------------------------
(***************************************************************************)
(* Machine-checked properties of lean-check, for any commands, traces,     *)
(* modes and policies, however many runs overlap, die or are cleaned up    *)
(* after.                                                                  *)
(***************************************************************************)
EXTENDS LeanCheck, TLAPS

(* What the file of a trace can hold: a text of one of its commands. *)
TextsOf(t) == {GeneratedText(Request[c]) : c \in {o \in Checks : Trace(o) = t}} \cup {Absent}

FilesInv == \A t \in Traces : generated[t] \in TextsOf(t)

(* What a run knows at each place, from its own steps and from being told   *)
(* when the file changes under it.                                          *)
RunInv(c) ==
    /\ own[c] \in {GeneratedText(Request[c]), Absent}
    /\ hash[c] \in TextsOf(Trace(c)) /\ compiled[c] \in TextsOf(Trace(c))
    /\ pc[c] # "idle" /\ ~refused[c] => Accepted(Request[c])
    /\ pc[c] \in Exposed => own[c] # Absent /\ ~refused[c]
    /\ pc[c] \in Exposed /\ ~disturbed[c] => generated[Trace(c)] = own[c]
    /\ pc[c] \in {"prebuild", "compile", "readback"} => hash[c] # Absent
    /\ pc[c] \in {"idle", "audit", "build", "generate"} => ~proved[c] /\ hash[c] = Absent /\ own[c] = Absent
    /\ pc[c] = "generate" => ~refused[c]
    /\ pc[c] \in Saving => ~refused[c]
    /\ hash[c] # Absent /\ ~disturbed[c] => hash[c] = own[c]
    /\ proved[c] => /\ own[c] # Absent /\ hash[c] # Absent /\ compiled[c] # Absent
                    /\ <<compiled[c].trace, compiled[c].mode>> \in Provable
                    /\ ~disturbed[c] => compiled[c] = own[c]

(* What a kernel-checked certificate carries. *)
CertificateInv(k) ==
    k.claim = "LeanKernelChecked" =>
        /\ k.trace = Trace(k.by) /\ Accepted(Request[k.by])
        /\ k.text = GeneratedText(Request[k.by]) /\ k.mode = k.text.mode
        /\ k.hash \in TextsOf(k.trace) \ {Absent}
        /\ k.compiled \in TextsOf(k.trace) \ {Absent}
        /\ <<k.compiled.trace, k.compiled.mode>> \in Provable
        /\ ~k.disturbed => k.hash = k.text /\ k.compiled = k.text

IssuedInv == \A d \in Dirs : certificate[d] # Absent => CertificateInv(certificate[d])

IInv == TypeOK /\ FilesInv /\ (\A c \in Checks : RunInv(c)) /\ IssuedInv

-----------------------------------------------------------------------------
(* Every command resolves to a mode and generates a text of its own trace. *)
LEMMA GeneratedTextShape ==
    ASSUME NEW c \in Checks
    PROVE  /\ Trace(c) \in Traces /\ Dir(c) \in Dirs
           /\ ResolvedMode(Request[c]) \in Modes
           /\ GeneratedText(Request[c]) \in Text
           /\ GeneratedText(Request[c]).trace = Trace(c)
           /\ GeneratedText(Request[c]) # Absent
           /\ GeneratedText(Request[c]) \in TextsOf(Trace(c))
  <1>1. Request[c] \in Options
    BY LeanCheckAssumption
  <1>2. /\ Trace(c) \in Traces /\ Dir(c) \in Dirs
        /\ ResolvedMode(Request[c]) \in Modes
    BY <1>1, LeanCheckAssumption DEF Options, Trace, Dir, ResolvedMode
  <1>3. GeneratedText(Request[c]) \in Text /\ GeneratedText(Request[c]).trace = Trace(c)
    BY <1>1, <1>2, LeanCheckAssumption DEF GeneratedText, Text, Trace
  <1>4. GeneratedText(Request[c]) \in TextsOf(Trace(c))
    BY DEF TextsOf
  <1> QED BY <1>2, <1>3, <1>4, LeanCheckAssumption

LEMMA TextsOfShape ==
    ASSUME NEW t \in Traces, NEW x \in TextsOf(t)
    PROVE  /\ x \in Content
           /\ x # Absent => x \in Text /\ x.trace = t
  BY GeneratedTextShape DEF TextsOf, Content

LEMMA CertificateShape ==
    ASSUME TypeOK, NEW c \in Checks
    PROVE  Certificate(c) \in CertificateType /\ Certificate(c) # Absent
  <1>1. own[c] # Absent => own[c].mode \in Modes
    BY DEF TypeOK, Content, Text
  <1>2. Certificate(c).mode \in Modes
    BY <1>1, GeneratedTextShape DEF Certificate
  <1>3. Certificate(c) \in CertificateType
    BY <1>2, GeneratedTextShape DEF Certificate, CertificateType, TypeOK, Claims
  <1> QED BY <1>3, LeanCheckAssumption

LEMMA InitIInv == Init => IInv
  <1> SUFFICES ASSUME Init PROVE IInv
    OBVIOUS
  <1> USE DEF Init
  <1>1. TypeOK
    BY DEF TypeOK, Content, Places
  <1>2. FilesInv
    BY DEF FilesInv, TextsOf
  <1>3. ASSUME NEW c \in Checks PROVE RunInv(c)
    BY DEF RunInv, TextsOf, Exposed, Saving
  <1>4. IssuedInv
    BY DEF IssuedInv
  <1> QED BY <1>1, <1>2, <1>3, <1>4 DEF IInv

-----------------------------------------------------------------------------
(* Shapes. *)

LEMMA TypeKept == TypeOK /\ [Next]_vars => TypeOK'
  <1> SUFFICES ASSUME TypeOK, [Next]_vars PROVE TypeOK'
    OBVIOUS
  <1> USE DEF TypeOK, Goto, shared, saved, local
  <1>1. CASE UNCHANGED vars
    BY <1>1 DEF vars
  <1>2. ASSUME NEW c \in Checks, Start(c) PROVE TypeOK'
    BY <1>2 DEF Start, Places
  <1>3. ASSUME NEW c \in Checks, Audit(c) PROVE TypeOK'
    BY <1>3 DEF Audit, Places
  <1>4. ASSUME NEW c \in Checks, Build(c) PROVE TypeOK'
    BY <1>4 DEF Build, AfterBuild, Places
  <1>5. ASSUME NEW c \in Checks, Generate(c) PROVE TypeOK'
    <2> DEFINE text == GeneratedText(Request[c])
    <2>1. text \in Content /\ Trace(c) \in Traces
      BY GeneratedTextShape DEF Content
    <2> HIDE DEF text
    <2>2. CASE <<text.trace, text.mode>> \in Generable
      <3>1. /\ own' = [own EXCEPT ![c] = text] /\ generated' = [generated EXCEPT ![Trace(c)] = text]
            /\ Disturb(Trace(c), Checks \ {c}) /\ pc' = [pc EXCEPT ![c] = "sidecars"]
            /\ UNCHANGED <<sidecars, refused, saved, built, hash, proved, compiled>>
        BY <1>5, <2>2 DEF Generate, text
      <3>2. disturbed' \in [Checks -> BOOLEAN]
        BY <3>1 DEF Disturb
      <3> QED BY <2>1, <3>1, <3>2 DEF Places, Exposed
    <2>3. CASE <<text.trace, text.mode>> \notin Generable
      <3>1. /\ refused' = [refused EXCEPT ![c] = TRUE] /\ pc' = [pc EXCEPT ![c] = "decide"]
            /\ UNCHANGED <<own, generated, disturbed, sidecars, saved, built, hash, proved, compiled>>
        BY <1>5, <2>3 DEF Generate, text
      <3> QED BY <3>1 DEF Places
    <2> QED BY <2>2, <2>3
  <1>6. ASSUME NEW c \in Checks, WriteSidecars(c) PROVE TypeOK'
    BY <1>6 DEF WriteSidecars, Places, Exposed
  <1>7. ASSUME NEW c \in Checks, HashFile(c) PROVE TypeOK'
    <2>1. generated[Trace(c)] \in Content
      BY GeneratedTextShape
    <2>2. CASE generated[Trace(c)] = Absent
      BY <1>7, <2>2 DEF HashFile, Places
    <2>3. CASE generated[Trace(c)] # Absent
      BY <1>7, <2>1, <2>3 DEF HashFile, Places, Exposed
    <2> QED BY <2>2, <2>3
  <1>8. ASSUME NEW c \in Checks, Prebuild(c) PROVE TypeOK'
    BY <1>8 DEF Prebuild, Places, Exposed
  <1>9. ASSUME NEW c \in Checks, Compile(c) PROVE TypeOK'
    <2>1. generated[Trace(c)] \in Content
      BY GeneratedTextShape
    <2>2. \/ /\ proved' = [proved EXCEPT ![c] = TRUE]
             /\ compiled' = [compiled EXCEPT ![c] = generated[Trace(c)]]
             /\ pc' = [pc EXCEPT ![c] = "readback"]
          \/ pc' = [pc EXCEPT ![c] = "decide"] /\ UNCHANGED <<proved, compiled>>
      BY <1>9 DEF Compile
    <2>3. UNCHANGED <<shared, saved, refused, built, own, hash, disturbed>>
      BY <1>9 DEF Compile
    <2> QED BY <2>1, <2>2, <2>3 DEF Places, Exposed
  <1>10. ASSUME NEW c \in Checks, LakeTimesOut(c) PROVE TypeOK'
    BY <1>10 DEF LakeTimesOut, AfterBuild, Places
  <1>11. ASSUME NEW c \in Checks, ReadBack(c) PROVE TypeOK'
    BY <1>11 DEF ReadBack, Places
  <1>12. ASSUME NEW c \in Checks, Reject(c) PROVE TypeOK'
    BY <1>12, GeneratedTextShape DEF Reject, Exit, Places, Content, Statuses
  <1>13. ASSUME NEW c \in Checks, Issue(c) PROVE TypeOK'
    BY <1>13 DEF Issue, Places, Saving
  <1>14. ASSUME NEW c \in Checks, SaveProjection(c) PROVE TypeOK'
    BY <1>14, GeneratedTextShape DEF SaveProjection, Contended, Places, Saving
  <1>15. ASSUME NEW c \in Checks, SaveManifest(c) PROVE TypeOK'
    BY <1>15, GeneratedTextShape DEF SaveManifest, Places, Saving
  <1>16. ASSUME NEW c \in Checks, SaveCertificate(c) PROVE TypeOK'
    <2>1. Certificate(c) \in CertificateType
      BY CertificateShape
    <2> QED BY <1>16, <2>1, GeneratedTextShape DEF SaveCertificate, Places, Saving
  <1>17. ASSUME NEW c \in Checks, SaveResult(c) PROVE TypeOK'
    BY <1>17, GeneratedTextShape DEF SaveResult, Exit, Places, Content, Statuses
  <1>18. ASSUME NEW c \in Checks, SaveNothing(c) PROVE TypeOK'
    BY <1>18 DEF SaveNothing, Exit, Places, Content
  <1>19. ASSUME NEW c \in Checks, Crash(c) PROVE TypeOK'
    BY <1>19, GeneratedTextShape DEF Crash, HalfSaved, Exit, Places, Content
  <1>20. ASSUME NEW t \in Traces, Clean(t) PROVE TypeOK'
    BY <1>20 DEF Clean, Disturb, Content
  <1> QED
    BY <1>1, <1>2, <1>3, <1>4, <1>5, <1>6, <1>7, <1>8, <1>9, <1>10, <1>11, <1>12, <1>13,
       <1>14, <1>15, <1>16, <1>17, <1>18, <1>19, <1>20 DEF Next, Proceed, LakeAnswers

-----------------------------------------------------------------------------
(* What the files hold, and what each run knows. *)

LEMMA FilesKept == IInv /\ [Next]_vars => FilesInv'
  <1> SUFFICES ASSUME IInv, [Next]_vars PROVE FilesInv'
    OBVIOUS
  <1>1. generated \in [Traces -> Content] /\ \A t \in Traces : generated[t] \in TextsOf(t)
    BY DEF IInv, TypeOK, FilesInv
  <1>2. CASE UNCHANGED generated
    BY <1>1, <1>2 DEF FilesInv, TextsOf, Trace, GeneratedText, ResolvedMode
  <1>3. ASSUME NEW c \in Checks, generated' = [generated EXCEPT ![Trace(c)] = GeneratedText(Request[c])]
        PROVE  FilesInv'
    <2>1. \A t \in Traces : generated'[t] \in TextsOf(t)
      BY <1>1, <1>3, GeneratedTextShape
    <2> QED BY <2>1 DEF FilesInv, TextsOf, Trace, GeneratedText, ResolvedMode
  <1>4. ASSUME NEW t \in Traces, Clean(t) PROVE FilesInv'
    <2>1. \A u \in Traces : generated'[u] \in TextsOf(u)
      BY <1>1, <1>4 DEF Clean, TextsOf
    <2> QED BY <2>1 DEF FilesInv, TextsOf, Trace, GeneratedText, ResolvedMode
  <1>5. ASSUME NEW c \in Checks, Generate(c)
        PROVE  \/ UNCHANGED generated
               \/ generated' = [generated EXCEPT ![Trace(c)] = GeneratedText(Request[c])]
    BY <1>5 DEF Generate
  <1>6. \/ UNCHANGED generated
        \/ \E c \in Checks : Generate(c)
        \/ \E t \in Traces : Clean(t)
    BY DEF Next, Proceed, LakeAnswers, vars, shared, Start, Audit, Build, WriteSidecars, HashFile,
           Prebuild, Compile, LakeTimesOut, ReadBack, Reject, Issue, SaveProjection, SaveManifest,
           SaveCertificate, SaveResult, SaveNothing, Crash
  <1> QED BY <1>2, <1>3, <1>4, <1>5, <1>6

(* A run knows what it knew as long as its own state stays and it is told   *)
(* of changes to its file.                                                  *)
LEMMA RunUntouched ==
    ASSUME NEW o \in Checks, RunInv(o),
           pc'[o] = pc[o], refused'[o] = refused[o], own'[o] = own[o], hash'[o] = hash[o],
           proved'[o] = proved[o], compiled'[o] = compiled[o],
           disturbed[o] => disturbed'[o],
           pc[o] \in Exposed /\ ~disturbed'[o] => generated'[Trace(o)] = generated[Trace(o)]
    PROVE  RunInv(o)'
  BY DEF RunInv, TextsOf, Trace, Exposed, Saving, Accepted, Issuable, ToolUsePolicy

(* A step of one command is not felt by another, except for Generate. *)
LEMMA OthersUntouched ==
    ASSUME IInv, NEW c \in Checks, NEW o \in Checks, o # c,
           Start(c) \/ (Proceed(c) /\ ~Generate(c)) \/ LakeAnswers(c) \/ Crash(c)
    PROVE  RunInv(o)'
  <1>1. RunInv(o) /\ TypeOK
    BY DEF IInv
  <1>2. /\ pc'[o] = pc[o] /\ refused'[o] = refused[o] /\ own'[o] = own[o] /\ hash'[o] = hash[o]
        /\ proved'[o] = proved[o] /\ compiled'[o] = compiled[o]
        /\ disturbed'[o] = disturbed[o] /\ generated' = generated
    BY <1>1 DEF TypeOK, Proceed, LakeAnswers, Goto, Exit, shared, saved, local, Start, Audit, Build,
        WriteSidecars, HashFile, Prebuild, Compile, LakeTimesOut, ReadBack, Reject, Issue,
        SaveProjection, SaveManifest, SaveCertificate, SaveResult, SaveNothing, Crash
  <1> QED BY <1>1, <1>2, RunUntouched

(* The facts of RunInv that do not change with the state. *)
LEMMA RunConstant ==
    ASSUME NEW c \in Checks
    PROVE  /\ GeneratedText(Request[c])' = GeneratedText(Request[c])
           /\ TextsOf(Trace(c))' = TextsOf(Trace(c))
           /\ Accepted(Request[c])' = Accepted(Request[c])
           /\ GeneratedText(Request[c]) \in TextsOf(Trace(c))
           /\ GeneratedText(Request[c]) # Absent
           /\ Absent \in TextsOf(Trace(c))
  BY GeneratedTextShape DEF GeneratedText, ResolvedMode, TextsOf, Trace, Accepted, Issuable, ToolUsePolicy

LEMMA OwnStep ==
    ASSUME IInv, NEW c \in Checks,
           Start(c) \/ Proceed(c) \/ LakeAnswers(c) \/ Crash(c)
    PROVE  RunInv(c)'
  <1> USE RunConstant DEF Goto, shared, saved, local
  <1>1. RunInv(c) /\ TypeOK /\ Trace(c) \in Traces /\ generated[Trace(c)] \in TextsOf(Trace(c))
    BY GeneratedTextShape DEF IInv, FilesInv
  <1> HIDE DEF TypeOK
  <1>ex. ASSUME Exit(c) PROVE RunInv(c)'
    BY <1>1, <1>ex DEF RunInv, TypeOK, Exit, Exposed, Saving
  <1>2. ASSUME Start(c) PROVE RunInv(c)'
    <2>1. /\ pc[c] = "idle" /\ pc' = [pc EXCEPT ![c] = "audit"]
          /\ refused'[c] <=> ~Accepted(Request[c])
          /\ UNCHANGED <<generated, own, hash, proved, compiled, disturbed>>
      BY <1>1, <1>2 DEF Start, TypeOK
    <2> QED BY <1>1, <2>1 DEF RunInv, TypeOK, Exposed, Saving
  <1>3. ASSUME Audit(c) PROVE RunInv(c)'
    BY <1>1, <1>3 DEF Audit, RunInv, TypeOK, Exposed, Saving
  <1>4. ASSUME Build(c) PROVE RunInv(c)'
    BY <1>1, <1>4 DEF Build, AfterBuild, RunInv, TypeOK, Exposed, Saving
  <1>5. ASSUME Generate(c) PROVE RunInv(c)'
    <2> DEFINE text == GeneratedText(Request[c])
    <2>1. text # Absent /\ text \in TextsOf(Trace(c))
      OBVIOUS
    <2>2. (text = GeneratedText(Request[c]))'
      OBVIOUS
    <2>3. CASE <<text.trace, text.mode>> \in Generable
      <3>1. /\ pc[c] = "generate" /\ pc' = [pc EXCEPT ![c] = "sidecars"]
            /\ own' = [own EXCEPT ![c] = text] /\ generated' = [generated EXCEPT ![Trace(c)] = text]
            /\ UNCHANGED <<refused, hash, proved, compiled>>
        BY <1>5, <2>3 DEF Generate
      <3> HIDE DEF text
      <3> QED BY <1>1, <2>1, <2>2, <3>1 DEF RunInv, TypeOK, Exposed, Saving
    <2>4. CASE <<text.trace, text.mode>> \notin Generable
      <3>1. /\ pc[c] = "generate" /\ pc' = [pc EXCEPT ![c] = "decide"]
            /\ refused' = [refused EXCEPT ![c] = TRUE]
            /\ UNCHANGED <<own, generated, hash, proved, compiled, disturbed>>
        BY <1>5, <2>4 DEF Generate
      <3> QED BY <1>1, <3>1 DEF RunInv, TypeOK, Exposed, Saving
    <2> QED BY <2>3, <2>4
  <1>6. ASSUME WriteSidecars(c) PROVE RunInv(c)'
    BY <1>1, <1>6 DEF WriteSidecars, RunInv, TypeOK, Exposed, Saving
  <1>7. ASSUME HashFile(c) PROVE RunInv(c)'
    BY <1>1, <1>7 DEF HashFile, RunInv, TypeOK, Exposed, Saving
  <1>8. ASSUME Prebuild(c) PROVE RunInv(c)'
    BY <1>1, <1>8 DEF Prebuild, RunInv, TypeOK, Exposed, Saving
  <1>9. ASSUME Compile(c) PROVE RunInv(c)'
    BY <1>1, <1>9 DEF Compile, RunInv, TypeOK, Exposed, Saving
  <1>10. ASSUME LakeTimesOut(c) PROVE RunInv(c)'
    BY <1>1, <1>10 DEF LakeTimesOut, AfterBuild, RunInv, TypeOK, Exposed, Saving
  <1>11. ASSUME ReadBack(c) PROVE RunInv(c)'
    BY <1>1, <1>11 DEF ReadBack, RunInv, TypeOK, Exposed, Saving
  <1>12. ASSUME Issue(c) PROVE RunInv(c)'
    BY <1>1, <1>12 DEF Issue, Rejected, RunInv, TypeOK, Exposed, Saving
  <1>13. ASSUME SaveProjection(c) PROVE RunInv(c)'
    BY <1>1, <1>13 DEF SaveProjection, RunInv, TypeOK, Exposed, Saving
  <1>14. ASSUME SaveManifest(c) PROVE RunInv(c)'
    BY <1>1, <1>14 DEF SaveManifest, RunInv, TypeOK, Exposed, Saving
  <1>15. ASSUME SaveCertificate(c) PROVE RunInv(c)'
    BY <1>1, <1>15 DEF SaveCertificate, RunInv, TypeOK, Exposed, Saving
  <1>16. ASSUME Reject(c) \/ SaveResult(c) \/ SaveNothing(c) \/ Crash(c) PROVE RunInv(c)'
    BY <1>ex, <1>16 DEF Reject, SaveResult, SaveNothing, Crash
  <1> QED BY <1>2, <1>3, <1>4, <1>5, <1>6, <1>7, <1>8, <1>9, <1>10, <1>11, <1>12, <1>13, <1>14, <1>15, <1>16 DEF Proceed, LakeAnswers

LEMMA RunsKept == IInv /\ [Next]_vars => \A o \in Checks : RunInv(o)'
  <1> SUFFICES ASSUME IInv, [Next]_vars, NEW o \in Checks PROVE RunInv(o)'
    OBVIOUS
  <1>1. RunInv(o) /\ TypeOK /\ Trace(o) \in Traces
    BY GeneratedTextShape DEF IInv
  <1>2. CASE UNCHANGED vars
    BY <1>1, <1>2, RunUntouched DEF vars
  <1>3. ASSUME NEW c \in Checks, Start(c) \/ Proceed(c) \/ LakeAnswers(c) \/ Crash(c)
        PROVE  RunInv(o)'
    <2>1. CASE o = c
      BY <1>3, <2>1, OwnStep
    <2>2. CASE o # c /\ ~Generate(c)
      BY <1>3, <2>2, OthersUntouched
    <2>3. CASE o # c /\ Generate(c)
      <3>1. /\ pc'[o] = pc[o] /\ refused'[o] = refused[o] /\ own'[o] = own[o]
            /\ hash'[o] = hash[o] /\ proved'[o] = proved[o] /\ compiled'[o] = compiled[o]
        BY <1>1, <2>3 DEF Generate, Goto, TypeOK
      <3>2. /\ disturbed[o] => disturbed'[o]
            /\ pc[o] \in Exposed /\ ~disturbed'[o] => generated'[Trace(o)] = generated[Trace(o)]
        BY <1>1, <2>3 DEF Generate, Disturb, TypeOK
      <3> QED BY <1>1, <3>1, <3>2, RunUntouched
    <2> QED BY <2>1, <2>2, <2>3
  <1>4. ASSUME NEW t \in Traces, Clean(t) PROVE RunInv(o)'
    <2>1. /\ disturbed[o] => disturbed'[o]
          /\ pc[o] \in Exposed /\ ~disturbed'[o] => generated'[Trace(o)] = generated[Trace(o)]
      BY <1>1, <1>4 DEF Clean, Disturb, TypeOK
    <2> QED BY <1>1, <1>4, <2>1, RunUntouched DEF Clean, local
  <1> QED BY <1>2, <1>3, <1>4 DEF Next

(* A certificate is built from what the run knows when it is about to save it. *)
LEMMA CertificateEarned ==
    ASSUME IInv, NEW c \in Checks, pc[c] = "saveCertificate"
    PROVE  CertificateInv(Certificate(c))
  <1>1. RunInv(c) /\ ~refused[c] /\ Accepted(Request[c])
    BY DEF IInv, RunInv, Saving
  <1>2. CASE LeanPromised(c) /\ proved[c]
    BY <1>1, <1>2 DEF Certificate, CertificateInv, RunInv
  <1>3. CASE ~(LeanPromised(c) /\ proved[c])
    BY <1>3 DEF Certificate, CertificateInv
  <1> QED BY <1>2, <1>3

LEMMA IssuedKept == IInv /\ [Next]_vars => IssuedInv'
  <1> SUFFICES ASSUME IInv, [Next]_vars PROVE IssuedInv'
    OBVIOUS
  <1>1. SUFFICES \A d \in Dirs : certificate'[d] # Absent => CertificateInv(certificate'[d])
    BY DEF IssuedInv, CertificateInv, TextsOf, Trace, GeneratedText, ResolvedMode,
           Accepted, Issuable, ToolUsePolicy
  <1>2. CASE UNCHANGED certificate
    BY <1>2 DEF IInv, IssuedInv
  <1>3. ASSUME NEW c \in Checks, SaveCertificate(c)
        PROVE  \A d \in Dirs : certificate'[d] # Absent => CertificateInv(certificate'[d])
    <2>1. CertificateInv(Certificate(c))
      BY <1>3, CertificateEarned DEF SaveCertificate
    <2>2. \A d \in Dirs : certificate'[d] = certificate[d] \/ certificate'[d] = Certificate(c)
      BY <1>3 DEF SaveCertificate, IInv, TypeOK
    <2> QED BY <2>1, <2>2 DEF IInv, IssuedInv
  <1>4. UNCHANGED certificate \/ \E c \in Checks : SaveCertificate(c)
    BY DEF Next, Proceed, LakeAnswers, vars, shared, saved, Start, Audit, Build, Generate,
           WriteSidecars, HashFile, Prebuild, Compile, LakeTimesOut, ReadBack, Reject, Issue,
           SaveProjection, SaveManifest, SaveResult, SaveNothing, Crash, Clean
  <1> QED BY <1>2, <1>3, <1>4

LEMMA Inductive == Spec => []IInv
  <1>1. IInv /\ [Next]_vars => IInv'
    BY TypeKept, FilesKept, RunsKept, IssuedKept DEF IInv
  <1> QED BY <1>1, InitIInv, PTL DEF Spec

-----------------------------------------------------------------------------
(* The results. *)

(* Files and runs keep their shapes. *)
THEOREM TypeCorrect == Spec => []TypeOK
  <1>1. IInv => TypeOK
    BY DEF IInv
  <1> QED BY <1>1, Inductive, PTL

(* A kernel-checked certificate's hash is that of the module Lean accepted  *)
(* and of the module the run generated, unless another run of the trace in  *)
(* another mode, or a deletion, changed the file in between.                *)
THEOREM HashBinds == Spec => []HashBindsCompiled
  <1>1. IInv => HashBindsCompiled
    <2> SUFFICES ASSUME IInv, NEW k \in KernelChecked, ~k.disturbed \/ OneText(k.trace)
                 PROVE  k.hash = k.compiled /\ k.compiled = k.text
      BY DEF HashBindsCompiled
    <2>1. CertificateInv(k) /\ k.claim = "LeanKernelChecked" /\ k.by \in Checks
      BY DEF IInv, IssuedInv, KernelChecked, Issued, TypeOK, CertificateType
    <2>2. CASE ~k.disturbed
      BY <2>1, <2>2 DEF CertificateInv
    <2>3. CASE OneText(k.trace)
      <3>1. \A x \in TextsOf(k.trace) \ {Absent} : x = GeneratedText(Request[k.by])
        BY <2>1, <2>3 DEF OneText, TextsOf, CertificateInv
      <3> QED BY <2>1, <3>1 DEF CertificateInv
    <2> QED BY <2>2, <2>3
  <1> QED BY <1>1, Inductive, PTL

(* No interleaving, crash or deletion lets a run claim LeanKernelChecked    *)
(* for a trace the deciders, the mode table, the tool-use policy or Lean    *)
(* did not accept.                                                          *)
THEOREM KernelCheckedEarned == Spec => []KernelCheckedIsEarned
  <1>1. IInv => KernelCheckedIsEarned
    <2> SUFFICES ASSUME IInv, NEW k \in KernelChecked PROVE
          /\ Accepted(Request[k.by])
          /\ k.compiled # Absent /\ k.compiled.trace = k.trace
          /\ <<k.compiled.trace, k.compiled.mode>> \in Provable
          /\ Request[k.by].releaseGrade =>
               /\ Request[k.by].nonPublic \/ ModeStatus[ResolvedMode(Request[k.by])] \in ReleaseStatuses
               /\ k.trace \in ToolUse => k.mode = ToolMode
      BY DEF KernelCheckedIsEarned
    <2>1. CertificateInv(k) /\ k.claim = "LeanKernelChecked" /\ k.by \in Checks /\ k.trace \in Traces
      BY DEF IInv, IssuedInv, KernelChecked, Issued, TypeOK, CertificateType
    <2>2. /\ Accepted(Request[k.by])
          /\ k.compiled # Absent /\ k.compiled.trace = k.trace
          /\ <<k.compiled.trace, k.compiled.mode>> \in Provable
      BY <2>1, TextsOfShape DEF CertificateInv
    <2>3. ASSUME Request[k.by].releaseGrade, k.trace \in ToolUse PROVE k.mode = ToolMode
      BY <2>1, <2>3 DEF CertificateInv, GeneratedText, Trace
    <2> QED BY <2>2, <2>3 DEF Accepted, Issuable
  <1> QED BY <1>1, Inductive, PTL

-----------------------------------------------------------------------------
(* What lies in an output directory. *)

(* Run c is between its first and its last companion write to d. *)
Saves(c, d) == Dir(c) = d /\ HalfSaved(c)

(* CompanionsMatch says nothing while a run is saving; what that run has    *)
(* written so far, and that it is alone, is what makes the end match.       *)
DirectoryInv(d) ==
    ~torn[d] =>
        /\ \A c, o \in Checks : Saves(c, d) /\ Saves(o, d) => c = o
        /\ \A c \in Checks : Saves(c, d) =>
              /\ Request[c].hasOut
              /\ projection[d] = own[c]
              /\ pc[c] = "saveCertificate" => manifest[d] = own[c]
        /\ (\A c \in Checks : ~Saves(c, d)) /\ certificate[d] \in KernelChecked =>
              projection[d] = certificate[d].text /\ manifest[d] = certificate[d].text

(* Companions are saved only by a run that generated a text. *)
CompanionsOwned == \A c \in Checks : pc[c] \in {"saveProjection", "saveManifest"} => own[c] # Absent

DirectoriesInv == CompanionsOwned /\ \A d \in Dirs : DirectoryInv(d)

LEMMA OwnedKept == IInv /\ CompanionsOwned /\ [Next]_vars => CompanionsOwned'
  <1> SUFFICES ASSUME IInv, CompanionsOwned, [Next]_vars PROVE CompanionsOwned'
    OBVIOUS
  <1>1. TypeOK
    BY DEF IInv
  <1>2. CASE UNCHANGED vars
    BY <1>2 DEF CompanionsOwned, vars
  <1>3. ASSUME NEW c \in Checks, Generate(c) PROVE CompanionsOwned'
    <2>1. /\ pc'[c] \notin {"saveProjection", "saveManifest"}
          /\ \A o \in Checks \ {c} : pc'[o] = pc[o] /\ own'[o] = own[o]
      BY <1>1, <1>3 DEF Generate, Goto, TypeOK
    <2> QED BY <2>1 DEF CompanionsOwned
  <1>4. ASSUME NEW c \in Checks, Exit(c) PROVE CompanionsOwned'
    BY <1>1, <1>4 DEF Exit, Goto, TypeOK, CompanionsOwned
  <1>5. ASSUME NEW c \in Checks, Start(c) \/ (Proceed(c) /\ ~Generate(c)) \/ LakeAnswers(c), ~Exit(c)
        PROVE  CompanionsOwned'
    BY <1>1, <1>5 DEF CompanionsOwned, TypeOK, Proceed, LakeAnswers, Goto, shared, saved, local,
        Start, Audit, Build, AfterBuild, WriteSidecars, HashFile, Prebuild, Compile, LakeTimesOut,
        ReadBack, Reject, Issue, SaveProjection, SaveManifest, SaveCertificate, SaveResult, SaveNothing
  <1>6. ASSUME NEW t \in Traces, Clean(t) PROVE CompanionsOwned'
    BY <1>6 DEF Clean, local, CompanionsOwned
  <1> QED BY <1>2, <1>3, <1>4, <1>5, <1>6 DEF Next, Crash

(* Only the four writes and a kill change what lies in a directory or who   *)
(* is half way through it.                                                  *)
LEMMA OtherStepsSaveNothing ==
    ASSUME IInv, [Next]_vars,
           \A c \in Checks : /\ ~SaveProjection(c) /\ ~SaveManifest(c) /\ ~SaveCertificate(c)
                             /\ ~SaveNothing(c) /\ ~Crash(c)
    PROVE  /\ UNCHANGED <<projection, manifest, certificate, torn>>
           /\ \A c \in Checks : /\ HalfSaved(c)' <=> HalfSaved(c)
                                /\ HalfSaved(c) => pc'[c] = pc[c] /\ own'[c] = own[c]
  <1>1. TypeOK /\ \A c \in Checks : RunInv(c)
    BY DEF IInv
  <1>2. CASE UNCHANGED vars
    BY <1>2 DEF vars, HalfSaved
  <1>3. ASSUME NEW t \in Traces, Clean(t)
        PROVE  UNCHANGED <<projection, manifest, certificate, torn, pc, own>>
    BY <1>3 DEF Clean, local, saved
  <1>4. ASSUME NEW c \in Checks, NEW o \in Checks,
               Start(c) \/ Proceed(c) \/ LakeAnswers(c)
        PROVE  /\ UNCHANGED <<projection, manifest, certificate, torn>>
               /\ HalfSaved(o)' <=> HalfSaved(o)
               /\ HalfSaved(o) => pc'[o] = pc[o] /\ own'[o] = own[o]
    <2> USE <1>1, <1>4 DEF TypeOK, Goto, shared, saved, local, HalfSaved
    <2>1. CASE Start(c) \/ Audit(c) \/ Build(c)
      BY <2>1 DEF Start, Audit, Build, AfterBuild
    <2>2. CASE Generate(c) \/ WriteSidecars(c) \/ HashFile(c)
      BY <2>2 DEF Generate, WriteSidecars, HashFile
    <2>3. CASE Prebuild(c) \/ Compile(c) \/ LakeTimesOut(c) \/ ReadBack(c)
      BY <2>3 DEF Prebuild, Compile, LakeTimesOut, AfterBuild, ReadBack
    <2>4. CASE Reject(c) \/ Issue(c) \/ SaveResult(c)
      BY <2>4 DEF Reject, Issue, SaveResult, Exit
    <2> QED BY <2>1, <2>2, <2>3, <2>4 DEF Proceed, LakeAnswers
  <1> QED BY <1>2, <1>3, <1>4 DEF Next, HalfSaved

(* A directory's certificate is kernel-checked by what it says itself. *)
LEMMA KernelCheckedHere ==
    ASSUME NEW d \in Dirs
    PROVE  certificate[d] \in KernelChecked
             <=> certificate[d] # Absent /\ certificate[d].claim = "LeanKernelChecked"
  BY DEF KernelChecked, Issued

(* A directory that a step leaves alone, and whose savers go on as they were. *)
LEMMA DirectoryUntouched ==
    ASSUME NEW d \in Dirs, DirectoryInv(d),
           torn[d] => torn'[d],
           projection'[d] = projection[d], manifest'[d] = manifest[d], certificate'[d] = certificate[d],
           \A c \in Checks : Dir(c) = d =>
              /\ HalfSaved(c)' => HalfSaved(c) /\ pc'[c] = pc[c] /\ own'[c] = own[c]
              /\ ~torn'[d] /\ HalfSaved(c) => HalfSaved(c)'
    PROVE  DirectoryInv(d)'
  <1> SUFFICES ASSUME ~torn'[d] PROVE
        /\ \A c, o \in Checks : Saves(c, d)' /\ Saves(o, d)' => c = o
        /\ \A c \in Checks : Saves(c, d)' =>
              /\ Request[c].hasOut
              /\ projection'[d] = own'[c]
              /\ pc'[c] = "saveCertificate" => manifest'[d] = own'[c]
        /\ (\A c \in Checks : ~Saves(c, d)') /\ (certificate[d] \in KernelChecked)' =>
              projection'[d] = certificate'[d].text /\ manifest'[d] = certificate'[d].text
    BY DEF DirectoryInv
  <1>1. \A c \in Checks : Saves(c, d)' <=> Saves(c, d)
    BY DEF Saves, Dir
  <1>2. \A c \in Checks : Saves(c, d) => pc'[c] = pc[c] /\ own'[c] = own[c]
    BY DEF Saves, Dir
  <1>3. (certificate[d] \in KernelChecked)' <=> certificate[d] \in KernelChecked
    BY KernelCheckedHere DEF KernelChecked, Issued
  <1> QED BY <1>1, <1>2, <1>3 DEF DirectoryInv

LEMMA OtherHalvesStand ==
    ASSUME TypeOK, NEW c \in Checks, NEW o \in Checks, o # c,
           SaveProjection(c) \/ SaveManifest(c) \/ SaveCertificate(c) \/ SaveNothing(c) \/ Crash(c)
    PROVE  /\ HalfSaved(o)' <=> HalfSaved(o)
           /\ pc'[o] = pc[o] /\ own'[o] = own[o]
  BY DEF TypeOK, SaveProjection, SaveManifest, SaveCertificate, SaveNothing, Crash, Exit, Goto,
         shared, saved, local, HalfSaved

LEMMA SavedKept ==
    ASSUME IInv, DirectoriesInv, NEW c \in Checks, NEW d \in Dirs,
           SaveProjection(c) \/ SaveManifest(c) \/ SaveCertificate(c) \/ SaveNothing(c) \/ Crash(c)
    PROVE  DirectoryInv(d)'
  <1>1. TypeOK /\ RunInv(c) /\ DirectoryInv(d) /\ Dir(c) \in Dirs /\ Request[c].hasOut \in BOOLEAN
    BY GeneratedTextShape, LeanCheckAssumption DEF IInv, DirectoriesInv, Options
  <1>2. \A o \in Checks \ {c} : /\ HalfSaved(o)' <=> HalfSaved(o)
                                /\ pc'[o] = pc[o] /\ own'[o] = own[o]
    BY <1>1, OtherHalvesStand
  <1>3. CASE Dir(c) # d
    <2>1. /\ torn'[d] = torn[d] /\ projection'[d] = projection[d]
          /\ manifest'[d] = manifest[d] /\ certificate'[d] = certificate[d]
      BY <1>1, <1>3 DEF TypeOK, SaveProjection, SaveManifest, SaveCertificate, SaveNothing, Crash, saved
    <2> QED BY <1>1, <1>2, <1>3, <2>1, DirectoryUntouched
  <1>4. CASE Dir(c) = d /\ SaveProjection(c)
    <2>1. /\ pc[c] = "saveProjection" /\ own[c] # Absent /\ pc'[c] = "saveManifest" /\ own'[c] = own[c]
          /\ projection'[d] = own[c] /\ (torn'[d] <=> Contended(c) \/ ~Request[c].hasOut)
      BY <1>1, <1>4 DEF SaveProjection, Goto, TypeOK, local, DirectoriesInv, CompanionsOwned
    <2>2. ~torn'[d] => \A o \in Checks \ {c} : ~Saves(o, d)
      BY <1>4, <2>1 DEF Contended, Saving, Saves, HalfSaved
    <2>3. ~torn'[d] => \A o \in Checks : Saves(o, d)' => o = c
      BY <1>2, <2>2 DEF Saves, Dir
    <2>4. Saves(c, d)'
      BY <1>4, <2>1 DEF Saves, HalfSaved, Dir
    <2> QED BY <2>1, <2>3, <2>4 DEF DirectoryInv
  <1>5. CASE Dir(c) = d /\ SaveManifest(c)
    <2>1. /\ pc[c] = "saveManifest" /\ own[c] # Absent /\ pc'[c] = "saveCertificate"
          /\ own'[c] = own[c] /\ manifest'[d] = own[c]
          /\ projection'[d] = projection[d] /\ torn'[d] = torn[d]
      BY <1>1, <1>5 DEF SaveManifest, Goto, TypeOK, local, DirectoriesInv, CompanionsOwned
    <2>2. Saves(c, d) /\ Saves(c, d)'
      BY <1>5, <2>1 DEF Saves, HalfSaved, Dir
    <2>3. ~torn'[d] => \A o \in Checks : Saves(o, d)' => o = c
      BY <1>1, <1>2, <2>1, <2>2 DEF Saves, Dir, DirectoryInv
    <2> QED BY <1>1, <2>1, <2>2, <2>3 DEF DirectoryInv
  <1>6. CASE Dir(c) = d /\ SaveCertificate(c)
    <2>1. /\ pc[c] = "saveCertificate" /\ pc'[c] = "saveResult" /\ certificate'[d] = Certificate(c)
          /\ projection'[d] = projection[d] /\ manifest'[d] = manifest[d] /\ torn'[d] = torn[d]
      BY <1>1, <1>6 DEF SaveCertificate, Goto, TypeOK
    <2>2. ~Saves(c, d)'
      BY <2>1 DEF Saves, HalfSaved
    <2>3. \A o \in Checks \ {c} : Saves(o, d)' <=> Saves(o, d)
      BY <1>2 DEF Saves, Dir
    <2>4. CASE own[c] = Absent
      <3>1. Certificate(c).claim # "LeanKernelChecked"
        BY <1>1, <2>4 DEF Certificate, RunInv
      <3>2. (certificate[d] \notin KernelChecked)'
        BY <2>1, <3>1 DEF KernelChecked, Issued
      <3>3. ~Saves(c, d)
        BY <2>4 DEF Saves, HalfSaved
      <3>4. \A o \in Checks : Saves(o, d)' => Saves(o, d) /\ pc'[o] = pc[o] /\ own'[o] = own[o]
        BY <1>2, <2>2, <2>3
      <3> QED BY <1>1, <2>1, <3>2, <3>4 DEF DirectoryInv
    <2>5. CASE own[c] # Absent
      <3>1. Saves(c, d)
        BY <1>6, <2>1, <2>5 DEF Saves, HalfSaved
      <3>2. ~torn[d] => /\ \A o \in Checks : ~Saves(o, d)'
                        /\ projection'[d] = own[c] /\ manifest'[d] = own[c]
        BY <1>1, <2>1, <2>2, <2>3, <3>1 DEF DirectoryInv
      <3>3. certificate'[d].text = own[c]
        BY <2>1 DEF Certificate
      <3> QED BY <2>1, <3>2, <3>3 DEF DirectoryInv
    <2> QED BY <2>4, <2>5
  <1>7. CASE Dir(c) = d /\ SaveNothing(c)
    <2>1. /\ ~Request[c].hasOut /\ pc'[c] = "idle" /\ torn'[d] = torn[d]
          /\ projection'[d] = projection[d] /\ manifest'[d] = manifest[d]
          /\ certificate'[d] = certificate[d]
      BY <1>1, <1>7 DEF SaveNothing, Exit, Goto, TypeOK, saved
    <2>2. ~HalfSaved(c)'
      BY <2>1 DEF HalfSaved
    <2>3. ~torn'[d] => ~HalfSaved(c)
      BY <1>1, <1>7, <2>1 DEF DirectoryInv, Saves
    <2> QED BY <1>1, <1>2, <2>1, <2>2, <2>3, DirectoryUntouched
  <1>8. CASE Dir(c) = d /\ Crash(c)
    <2>1. /\ pc'[c] = "idle" /\ (torn'[d] <=> torn[d] \/ HalfSaved(c))
          /\ projection'[d] = projection[d] /\ manifest'[d] = manifest[d]
          /\ certificate'[d] = certificate[d]
      BY <1>1, <1>8 DEF Crash, Exit, Goto, TypeOK
    <2>2. ~HalfSaved(c)'
      BY <2>1 DEF HalfSaved
    <2> QED BY <1>1, <1>2, <2>1, <2>2, DirectoryUntouched
  <1> QED BY <1>3, <1>4, <1>5, <1>6, <1>7, <1>8

LEMMA DirectoriesHold == Spec => []DirectoriesInv
  <1>1. Init => DirectoriesInv
    <2> SUFFICES ASSUME Init PROVE DirectoriesInv
      OBVIOUS
    <2>1. ASSUME NEW d \in Dirs PROVE DirectoryInv(d)
      BY KernelCheckedHere DEF Init, DirectoryInv, Saves, HalfSaved
    <2> QED BY <2>1 DEF DirectoriesInv, CompanionsOwned, Init
  <1>2. IInv /\ DirectoriesInv /\ [Next]_vars => DirectoriesInv'
    <2> SUFFICES ASSUME IInv, DirectoriesInv, [Next]_vars PROVE DirectoriesInv'
      OBVIOUS
    <2>1. CompanionsOwned'
      BY OwnedKept DEF DirectoriesInv
    <2>2. ASSUME NEW d \in Dirs PROVE DirectoryInv(d)'
      <3>1. CASE \E c \in Checks : SaveProjection(c) \/ SaveManifest(c) \/ SaveCertificate(c)
                                   \/ SaveNothing(c) \/ Crash(c)
        BY <3>1, SavedKept
      <3>2. CASE \A c \in Checks : /\ ~SaveProjection(c) /\ ~SaveManifest(c) /\ ~SaveCertificate(c)
                                   /\ ~SaveNothing(c) /\ ~Crash(c)
        BY <3>2, OtherStepsSaveNothing, DirectoryUntouched DEF DirectoriesInv
      <3> QED BY <3>1, <3>2
    <2> QED BY <2>1, <2>2 DEF DirectoriesInv
  <1> QED BY <1>1, <1>2, Inductive, PTL DEF Spec

(* Unless the last save in a directory was cut short, mixed with another or *)
(* made without --out, a kernel-checked certificate there lies beside the   *)
(* projection and the manifest of its own text.                             *)
THEOREM CompanionsAlwaysMatch == Spec => []CompanionsMatch
  <1>1. DirectoriesInv => CompanionsMatch
    BY DEF DirectoriesInv, DirectoryInv, CompanionsMatch, Saves
  <1> QED BY <1>1, DirectoriesHold, PTL
=============================================================================

--------------------------- MODULE CacheFile_proofs ---------------------------
(***************************************************************************)
(* Theorems about CacheFile, for any number of processes, passwords and    *)
(* files.                                                                  *)
(***************************************************************************)
EXTENDS CacheFile, TLAPS

(***************************************************************************)
(* The inductive invariant.  Removing a file by its name is safe because a *)
(* process that may do so is the only one, the name still stands for its   *)
(* own file, and nobody has put a key into it.  All the others need a key  *)
(* to get past the metadata, and only the file with the name has one.      *)
(***************************************************************************)
Attached == {"schema", "verify", "metadata", "insert", "open"}

CreatorFits(q, name, store) ==
  /\ name # None
  /\ q.mode = "create"
  /\ q.step \in Attached \cup {"connect", "cleanup"}
  /\ q.step # "open" => store[name].key = None
  /\ q.step \in Attached => q.handle = name

Fits(q, name, store) ==
  /\ q.step # "idle" => q.password \in Passwords
  /\ q.step \in Attached => q.handle # None
  /\ q.step = "make" => q.mode = "create"
  /\ q.step \in {"insert", "cleanup"} => q.created
  /\ q.created => CreatorFits(q, name, store)
  /\ q.step = "open" => name # None /\ q.handle = name /\ store[name].key = q.password

ProcessesFit == \A p \in Openers : Fits(proc[p], path, content)

OneCreator == \A p, q \in Openers : proc[p].created /\ proc[q].created => p = q

KeyIsOnDisk == \A i \in Inodes : content[i].key # None => i = path

IInv == TypeOK /\ OneKey /\ ProcessesFit /\ OneCreator /\ KeyIsOnDisk

-----------------------------------------------------------------------------
LEMMA GoneFits ==
  /\ Gone \in Processes /\ ~ Gone.created
  /\ \A name, store : Fits(Gone, name, store)
BY DEF Gone, Processes, Steps, Modes, Fits, Attached

\* Process p becomes q, and the files stay as they are.
LEMMA QuietKeeps ==
  ASSUME IInv, NEW p \in Openers, NEW q \in Processes,
         proc' = [proc EXCEPT ![p] = q], UNCHANGED files,
         Fits(q, path, content), q.created => proc[p].created
  PROVE  IInv'
<1>1. UNCHANGED <<path, content>>
  BY DEF files
<1>2. proc'[p] = q /\ \A d \in Openers \ {p} : proc'[d] = proc[d]
  BY DEF IInv, TypeOK
<1>3. TypeOK'
  BY <1>1, <1>2 DEF IInv, TypeOK, Fits, Attached
<1>4. ProcessesFit'
  BY <1>1, <1>2 DEF IInv, ProcessesFit
<1>5. OneCreator'
  BY <1>2 DEF IInv, OneCreator
<1>6. OneKey' /\ KeyIsOnDisk'
  BY <1>1 DEF IInv, OneKey, KeyIsOnDisk
<1>7. QED
  BY <1>3, <1>4, <1>5, <1>6 DEF IInv

LEMMA EndKeeps ==
  ASSUME IInv, NEW p \in Openers, End(p), UNCHANGED files
  PROVE  IInv'
BY GoneFits, QuietKeeps DEF End

LEMMA GotoKeeps ==
  ASSUME IInv, NEW p \in Openers, NEW step \in Steps, Goto(p, step), UNCHANGED files,
         Fits([proc[p] EXCEPT !.step = step], path, content)
  PROVE  IInv'
<1>1. proc[p] \in Processes
  BY DEF IInv, TypeOK
<1>2. [proc[p] EXCEPT !.step = step] \in Processes
  BY <1>1 DEF Processes
<1>3. [proc[p] EXCEPT !.step = step].created = proc[p].created
  BY <1>1 DEF Processes
<1>4. proc' = [proc EXCEPT ![p] = [proc[p] EXCEPT !.step = step]]
  BY DEF Goto, IInv, TypeOK
<1>5. QED
  BY <1>2, <1>3, <1>4, QuietKeeps

LEMMA GiveUpKeeps ==
  ASSUME IInv, NEW p \in Openers, proc[p].step \notin {"idle", "open", "cleanup"},
         GiveUp(p), UNCHANGED files
  PROVE  IInv'
<1>1. proc[p] \in Processes /\ Fits(proc[p], path, content)
  BY DEF IInv, TypeOK, ProcessesFit
<1>2. CASE proc[p].created
  <2>1. Fits([proc[p] EXCEPT !.step = "cleanup"], path, content)
    BY <1>1, <1>2 DEF Fits, CreatorFits, Attached, Processes
  <2>2. QED
    BY <1>2, <2>1, GotoKeeps DEF GiveUp, Steps
<1>3. CASE ~ proc[p].created
  BY <1>3, EndKeeps DEF GiveUp
<1>4. QED
  BY <1>2, <1>3

\* A file is made while the name stands for none: no key is anywhere.
LEMMA MakeKeeps ==
  ASSUME IInv, NEW p \in Openers, NEW q \in Processes, NEW i \in Inodes,
         path = None, MakeFile(i), proc' = [proc EXCEPT ![p] = q],
         Fits(q, i, content')
  PROVE  IInv'
<1>1. i # None /\ path' = i /\ content' = [content EXCEPT ![i] = Empty]
  BY NoneAssumption DEF MakeFile
<1>2. proc'[p] = q /\ \A d \in Openers \ {p} : proc'[d] = proc[d]
  BY DEF IInv, TypeOK
<1>3. Empty \in Contents /\ Empty.key = None /\ Empty.sealed = {}
  BY DEF Empty, Contents
<1>4. content' \in [Inodes -> Contents] /\ content'[i] = Empty
  BY <1>1, <1>3 DEF IInv, TypeOK
<1>5. TypeOK'
  BY <1>1, <1>2, <1>4 DEF IInv, TypeOK, Fits, Attached
<1>6. \A d \in Openers : ~ proc[d].created /\ proc[d].step # "open"
  BY DEF IInv, ProcessesFit, Fits, CreatorFits
<1>7. ProcessesFit'
  <2> SUFFICES ASSUME NEW d \in Openers, d # p PROVE Fits(proc[d], i, content')
    BY <1>1, <1>2 DEF ProcessesFit
  <2>1. Fits(proc[d], path, content)
    BY DEF IInv, ProcessesFit
  <2>2. QED
    BY <1>6, <2>1 DEF Fits
<1>8. OneCreator'
  BY <1>2, <1>6 DEF OneCreator
<1>9. KeyIsOnDisk'
  BY <1>1, <1>3, <1>4, NoneAssumption DEF IInv, TypeOK, KeyIsOnDisk
<1>10. OneKey'
  BY <1>1, <1>3, <1>4 DEF IInv, TypeOK, OneKey
<1>11. QED
  BY <1>5, <1>7, <1>8, <1>9, <1>10 DEF IInv

-----------------------------------------------------------------------------
LEMMA BeginInvariant ==
  ASSUME IInv, NEW p \in Openers, NEW m \in Modes, NEW w \in Passwords, Begin(p, m, w)
  PROVE  IInv'
<1> DEFINE q == [Gone EXCEPT !.step = "look", !.mode = m, !.password = w]
<1>1. q \in Processes /\ ~ q.created
  BY DEF Gone, Processes, Steps
<1>2. Fits(q, path, content)
  BY DEF Fits, Gone, Attached
<1>3. QED
  BY <1>1, <1>2, QuietKeeps DEF Begin

LEMMA LookInvariant ==
  ASSUME IInv, NEW p \in Openers, Look(p)
  PROVE  IInv'
<1>1. proc[p] \in Processes /\ Fits(proc[p], path, content) /\ proc[p].step = "look"
  BY DEF IInv, TypeOK, ProcessesFit, Look, At
<1>2. Fits([proc[p] EXCEPT !.step = "connect"], path, content)
  BY <1>1 DEF Fits, CreatorFits, Attached, Processes
<1>3. proc[p].mode = "create" => Fits([proc[p] EXCEPT !.step = "make"], path, content)
  BY <1>1 DEF Fits, CreatorFits, Attached, Processes
<1>4. QED
  BY <1>2, <1>3, GotoKeeps, EndKeeps DEF Look, Steps

LEMMA MakeInvariant ==
  ASSUME IInv, NEW p \in Openers, Make(p)
  PROVE  IInv'
<1>1. proc[p] \in Processes /\ Fits(proc[p], path, content) /\ proc[p].step = "make"
  BY DEF IInv, TypeOK, ProcessesFit, Make, At
<1>2. CASE End(p) /\ UNCHANGED files
  BY <1>2, EndKeeps
<1>3. ASSUME NEW i \in Inodes, path = None, MakeFile(i),
             proc' = [proc EXCEPT ![p].step = "connect", ![p].created = TRUE]
      PROVE  IInv'
  <2> DEFINE q == [proc[p] EXCEPT !.step = "connect", !.created = TRUE]
  <2>1. q \in Processes
    BY <1>1 DEF Processes, Steps
  <2>2. content'[i] = Empty /\ i # None
    BY <1>3, NoneAssumption DEF MakeFile, IInv, TypeOK
  <2>3. Fits(q, i, content')
    BY <1>1, <2>2 DEF Fits, CreatorFits, Attached, Processes, Empty
  <2>4. proc' = [proc EXCEPT ![p] = q]
    BY <1>3 DEF IInv, TypeOK
  <2>5. QED
    BY <1>3, <2>1, <2>3, <2>4, MakeKeeps
<1>4. QED
  BY <1>2, <1>3 DEF Make

LEMMA ConnectInvariant ==
  ASSUME IInv, NEW p \in Openers, Connect(p)
  PROVE  IInv'
<1>1. proc[p] \in Processes /\ Fits(proc[p], path, content) /\ proc[p].step = "connect"
  BY DEF IInv, TypeOK, ProcessesFit, Connect, At
<1>2. ASSUME NEW i \in Inodes, Attach(p, i)
      PROVE  /\ [proc[p] EXCEPT !.step = "schema", !.handle = i] \in Processes
             /\ proc' = [proc EXCEPT ![p] = [proc[p] EXCEPT !.step = "schema", !.handle = i]]
  BY <1>1, <1>2 DEF Attach, IInv, TypeOK, Processes, Steps
<1>3. CASE path # None /\ Attach(p, path) /\ UNCHANGED files
  <2> DEFINE q == [proc[p] EXCEPT !.step = "schema", !.handle = path]
  <2>1. path \in Inodes
    BY <1>3 DEF IInv, TypeOK
  <2>2. Fits(q, path, content) /\ q.created = proc[p].created
    BY <1>1, <1>3 DEF Fits, CreatorFits, Attached, Processes
  <2>3. QED
    BY <1>2, <1>3, <2>1, <2>2, QuietKeeps
<1>4. ASSUME path = None, NEW i \in Inodes, MakeFile(i), Attach(p, i)
      PROVE  IInv'
  <2> DEFINE q == [proc[p] EXCEPT !.step = "schema", !.handle = i]
  <2>1. ~ proc[p].created
    BY <1>1, <1>4 DEF Fits, CreatorFits
  <2>2. Fits(q, i, content')
    BY <1>1, <2>1, NoneAssumption DEF Fits, Attached, Processes
  <2>3. QED
    BY <1>2, <1>4, <2>2, MakeKeeps
<1>5. CASE End(p) /\ UNCHANGED files
  BY <1>5, EndKeeps
<1>6. QED
  BY <1>3, <1>4, <1>5 DEF Connect

\* An attached process changes what is in its file, and neither its key nor
\* its rows.
LEMMA SchemaInvariant ==
  ASSUME IInv, NEW p \in Openers, Schema(p)
  PROVE  IInv'
<1>1. /\ proc[p] \in Processes /\ Fits(proc[p], path, content) /\ proc[p].step = "schema"
      /\ proc[p].handle \in Inodes
  BY NoneAssumption DEF IInv, TypeOK, ProcessesFit, Schema, At, Processes
<1>2. CASE GiveUp(p) /\ UNCHANGED files
  BY <1>1, <1>2, GiveUpKeeps
<1>3. CASE /\ content' = [content EXCEPT ![proc[p].handle].schema = TRUE]
           /\ Goto(p, "verify")
           /\ UNCHANGED path
  <2> DEFINE q == [proc[p] EXCEPT !.step = "verify"]
  <2>1. /\ content' \in [Inodes -> Contents]
        /\ \A i \in Inodes : /\ content'[i].key = content[i].key
                             /\ content'[i].sealed = content[i].sealed
    BY <1>1, <1>3 DEF IInv, TypeOK, Contents
  <2>2. q \in Processes /\ proc' = [proc EXCEPT ![p] = q]
    BY <1>1, <1>3 DEF Goto, IInv, TypeOK, Processes, Steps
  <2>3. q.created = proc[p].created /\ q.handle = proc[p].handle /\ q.step = "verify"
        /\ q.mode = proc[p].mode /\ q.password = proc[p].password
    BY <1>1 DEF Processes
  <2>4. proc'[p] = q /\ \A d \in Openers \ {p} : proc'[d] = proc[d]
    BY <2>2 DEF IInv, TypeOK
  <2>5. TypeOK'
    BY <1>1, <1>3, <2>1, <2>2, <2>3, <2>4 DEF IInv, TypeOK
  <2>6. path # None => content'[path].key = content[path].key
    BY <2>1 DEF IInv, TypeOK
  <2>7. Fits(q, path, content')
    BY <1>1, <2>3, <2>6 DEF Fits, CreatorFits, Attached
  <2>8. ProcessesFit'
    <3> SUFFICES ASSUME NEW d \in Openers, d # p PROVE Fits(proc[d], path, content')
      BY <1>3, <2>4, <2>7 DEF ProcessesFit
    <3>1. Fits(proc[d], path, content)
      BY DEF IInv, ProcessesFit
    <3>2. QED
      BY <2>6, <3>1 DEF Fits, CreatorFits
  <2>9. OneCreator'
    BY <2>3, <2>4 DEF IInv, OneCreator
  <2>10. OneKey' /\ KeyIsOnDisk'
    BY <1>3, <2>1 DEF IInv, OneKey, KeyIsOnDisk
  <2>11. QED
    BY <2>5, <2>8, <2>9, <2>10 DEF IInv
<1>4. QED
  BY <1>2, <1>3 DEF Schema

LEMMA VerifyInvariant ==
  ASSUME IInv, NEW p \in Openers, Verify(p)
  PROVE  IInv'
<1>1. proc[p] \in Processes /\ Fits(proc[p], path, content) /\ proc[p].step = "verify"
  BY DEF IInv, TypeOK, ProcessesFit, Verify, At
<1>2. Fits([proc[p] EXCEPT !.step = "metadata"], path, content)
  BY <1>1 DEF Fits, CreatorFits, Attached, Processes
<1>3. QED
  BY <1>1, <1>2, GotoKeeps, GiveUpKeeps DEF Verify, Steps

\* A key lets in whoever has it, and it is in the file with the name.
LEMMA ReadMetadataInvariant ==
  ASSUME IInv, NEW p \in Openers, ReadMetadata(p)
  PROVE  IInv'
<1>1. /\ proc[p] \in Processes /\ Fits(proc[p], path, content) /\ proc[p].step = "metadata"
      /\ proc[p].handle \in Inodes /\ UNCHANGED files
  BY NoneAssumption DEF IInv, TypeOK, ProcessesFit, ReadMetadata, At, Processes, Fits, Attached
<1>2. CASE Refused(p)
  BY <1>1, <1>2, GiveUpKeeps DEF ReadMetadata
<1>3. CASE ~ Refused(p) /\ File(p).key = None
  <2>1. proc[p].created
    BY <1>3 DEF Refused
  <2>2. Fits([proc[p] EXCEPT !.step = "insert"], path, content)
    BY <1>1, <2>1 DEF Fits, CreatorFits, Attached, Processes
  <2>3. QED
    BY <1>1, <1>3, <2>2, GotoKeeps DEF ReadMetadata, Steps
<1>4. CASE ~ Refused(p) /\ File(p).key # None
  <2>1. proc[p].handle = path /\ path # None
    BY <1>1, <1>4, NoneAssumption DEF File, IInv, KeyIsOnDisk
  <2>2. content[path].key = proc[p].password
    BY <1>4, <2>1 DEF Refused, File
  <2>3. Fits([proc[p] EXCEPT !.step = "open"], path, content)
    BY <1>1, <2>1, <2>2 DEF Fits, CreatorFits, Attached, Processes
  <2>4. QED
    BY <1>1, <1>4, <2>3, GotoKeeps DEF ReadMetadata, Steps
<1>5. QED
  BY <1>2, <1>3, <1>4

\* The key goes into the creator's own file, which has the name.
LEMMA InsertMetadataInvariant ==
  ASSUME IInv, NEW p \in Openers, InsertMetadata(p)
  PROVE  IInv'
<1> DEFINE q == [proc[p] EXCEPT !.step = "open"]
<1>1. /\ proc[p] \in Processes /\ Fits(proc[p], path, content) /\ proc[p].step = "insert"
      /\ proc[p].password \in Passwords /\ proc[p].created
  BY DEF IInv, TypeOK, ProcessesFit, InsertMetadata, At, Fits
<1>2. proc[p].handle = path /\ path \in Inodes /\ content[path].key = None
  BY <1>1 DEF Fits, CreatorFits, Attached, IInv, TypeOK
<1>3. /\ content' = [content EXCEPT ![path].key = proc[p].password]
      /\ Goto(p, "open") /\ path' = path
  BY <1>2 DEF InsertMetadata
<1>4. /\ content' \in [Inodes -> Contents]
      /\ content'[path].key = proc[p].password /\ content'[path].sealed = content[path].sealed
      /\ \A i \in Inodes \ {path} : content'[i] = content[i]
  BY <1>1, <1>2, <1>3 DEF IInv, TypeOK, Contents
<1>5. /\ q \in Processes /\ proc' = [proc EXCEPT ![p] = q]
      /\ q.created = proc[p].created /\ q.handle = proc[p].handle /\ q.step = "open"
      /\ q.mode = proc[p].mode /\ q.password = proc[p].password
  BY <1>1, <1>3 DEF Goto, IInv, TypeOK, Processes, Steps
<1>6. proc'[p] = q /\ \A d \in Openers \ {p} : proc'[d] = proc[d]
  BY <1>5 DEF IInv, TypeOK
<1>7. TypeOK'
  BY <1>2, <1>3, <1>4, <1>5, <1>6, NoneAssumption DEF IInv, TypeOK
<1>8. Fits(q, path, content')
  BY <1>1, <1>2, <1>4, <1>5, NoneAssumption DEF Fits, CreatorFits, Attached
<1>9. ProcessesFit'
  <2> SUFFICES ASSUME NEW d \in Openers, d # p PROVE Fits(proc[d], path, content')
    BY <1>3, <1>6, <1>8 DEF ProcessesFit
  <2>1. Fits(proc[d], path, content) /\ ~ proc[d].created
    BY <1>1 DEF IInv, ProcessesFit, OneCreator
  <2>2. proc[d].step # "open"
    BY <1>2, <2>1, NoneAssumption DEF Fits
  <2>3. QED
    BY <2>1, <2>2 DEF Fits
<1>10. OneCreator'
  BY <1>5, <1>6 DEF IInv, OneCreator
<1>11. KeyIsOnDisk'
  BY <1>3, <1>4 DEF IInv, KeyIsOnDisk
<1>12. OneKey'
  <2>1. content[path].sealed = {}
    <3>1. content[path].sealed \subseteq Passwords
      BY <1>2 DEF IInv, TypeOK, Contents
    <3>2. content[path].sealed # {} => content[path].sealed = {None}
      BY <1>2 DEF IInv, OneKey
    <3>3. QED
      BY <3>1, <3>2, NoneAssumption
  <2>2. QED
    BY <1>4, <2>1 DEF IInv, OneKey
<1>13. QED
  BY <1>7, <1>9, <1>10, <1>11, <1>12 DEF IInv

LEMMA FailInvariant ==
  ASSUME IInv, NEW p \in Openers, Fail(p)
  PROVE  IInv'
BY GiveUpKeeps DEF Fail

\* The only creator removes its own file, which has no key.
LEMMA CleanUpInvariant ==
  ASSUME IInv, NEW p \in Openers, CleanUp(p)
  PROVE  IInv'
<1>1. /\ proc[p].created /\ path # None /\ path \in Inodes /\ content[path].key = None
  BY DEF IInv, TypeOK, ProcessesFit, CleanUp, At, Fits, CreatorFits
<1>2. path' = None /\ content' = content /\ proc' = [proc EXCEPT ![p] = Gone]
  BY DEF CleanUp, End
<1>3. proc'[p] = Gone /\ \A d \in Openers \ {p} : proc'[d] = proc[d]
  BY <1>2 DEF IInv, TypeOK
<1>4. \A d \in Openers \ {p} : ~ proc[d].created
  BY <1>1 DEF IInv, OneCreator
<1>5. TypeOK'
  BY <1>2, <1>3, GoneFits DEF IInv, TypeOK, Gone
<1>6. \A i \in Inodes : content[i].key = None
  BY <1>1 DEF IInv, KeyIsOnDisk
<1>7. ProcessesFit'
  <2> SUFFICES ASSUME NEW d \in Openers, d # p PROVE Fits(proc[d], None, content)
    BY <1>2, <1>3, GoneFits DEF ProcessesFit
  <2>1. Fits(proc[d], path, content) /\ ~ proc[d].created
    BY <1>4 DEF IInv, ProcessesFit
  <2>2. proc[d].step # "open"
    BY <1>6, <2>1, NoneAssumption DEF Fits, IInv, TypeOK
  <2>3. QED
    BY <2>1, <2>2 DEF Fits
<1>8. OneCreator'
  BY <1>3, <1>4, GoneFits DEF OneCreator
<1>9. OneKey' /\ KeyIsOnDisk'
  BY <1>2, <1>6 DEF IInv, OneKey, KeyIsOnDisk
<1>10. QED
  BY <1>5, <1>7, <1>8, <1>9 DEF IInv

LEMMA WriteInvariant ==
  ASSUME IInv, NEW p \in Openers, Write(p)
  PROVE  IInv'
<1>1. /\ proc[p].handle = path /\ path \in Inodes
      /\ content[path].key = proc[p].password /\ proc[p].password \in Passwords
  BY DEF IInv, TypeOK, ProcessesFit, Write, At, Fits
<1>2. /\ content' = [content EXCEPT ![path].sealed = @ \cup {proc[p].password}]
      /\ path' = path /\ proc' = proc
  BY <1>1 DEF Write
<1>3. /\ content' \in [Inodes -> Contents]
      /\ \A i \in Inodes : content'[i].key = content[i].key
      /\ content'[path].sealed = content[path].sealed \cup {proc[p].password}
      /\ \A i \in Inodes \ {path} : content'[i] = content[i]
  BY <1>1, <1>2 DEF IInv, TypeOK, Contents
<1>4. TypeOK'
  BY <1>2, <1>3 DEF IInv, TypeOK
<1>5. ProcessesFit'
  <2> SUFFICES ASSUME NEW d \in Openers PROVE Fits(proc[d], path, content')
    BY <1>2 DEF ProcessesFit
  <2>1. Fits(proc[d], path, content)
    BY DEF IInv, ProcessesFit
  <2>2. QED
    BY <1>1, <1>3, <2>1 DEF Fits, CreatorFits
<1>6. OneCreator' /\ KeyIsOnDisk'
  BY <1>2, <1>3 DEF IInv, OneCreator, KeyIsOnDisk
<1>7. OneKey'
  BY <1>1, <1>3 DEF IInv, OneKey
<1>8. QED
  BY <1>4, <1>5, <1>6, <1>7 DEF IInv

LEMMA InitInvariant == Init => IInv
<1> SUFFICES ASSUME Init PROVE IInv
  OBVIOUS
<1>1. \A p \in Openers : proc[p] = Gone /\ ~ proc[p].created /\ proc[p].step = "idle"
  BY DEF Init, Gone
<1>2. Empty \in Contents /\ Empty.key = None /\ Empty.sealed = {}
  BY DEF Empty, Contents
<1>3. TypeOK
  BY <1>1, <1>2, GoneFits DEF Init, TypeOK
<1>4. ProcessesFit /\ OneCreator
  BY <1>1, GoneFits DEF ProcessesFit, OneCreator
<1>5. OneKey /\ KeyIsOnDisk
  BY <1>2 DEF Init, OneKey, KeyIsOnDisk
<1>6. QED
  BY <1>3, <1>4, <1>5 DEF IInv

LEMMA NextInvariant == IInv /\ [Next]_vars => IInv'
<1> SUFFICES ASSUME IInv, [Next]_vars PROVE IInv'
  OBVIOUS
<1>1. ASSUME NEW p \in Openers, OpenStep(p) PROVE IInv'
  BY <1>1, LookInvariant, MakeInvariant, ConnectInvariant, SchemaInvariant, VerifyInvariant,
     ReadMetadataInvariant, InsertMetadataInvariant, FailInvariant, CleanUpInvariant
     DEF OpenStep
<1>2. ASSUME NEW p \in Openers, UseStep(p) PROVE IInv'
  BY <1>2, BeginInvariant, WriteInvariant, EndKeeps DEF UseStep, Close
<1>3. ASSUME NEW p \in Openers, Crash(p) PROVE IInv'
  BY <1>3, EndKeeps DEF Crash
<1>4. CASE UNCHANGED vars
  BY <1>4 DEF vars, IInv, TypeOK, OneKey, ProcessesFit, OneCreator, KeyIsOnDisk
<1>5. QED
  BY <1>1, <1>2, <1>3, <1>4 DEF Next

-----------------------------------------------------------------------------
\* IInv holds for ever.
THEOREM Invariance == Spec => []IInv
BY InitInvariant, NextInvariant, PTL DEF Spec

(***************************************************************************)
(* Every variable has its type, in every reachable state.                  *)
(***************************************************************************)
THEOREM TypeCorrect == Spec => []TypeOK
<1>1. IInv => TypeOK
  BY DEF IInv
<1>2. QED
  BY <1>1, Invariance, PTL

(***************************************************************************)
(* An open cache is the file that the name stands for: no process that     *)
(* fails to open it removes it by its name (cleanupNewDatabaseFile).       *)
(***************************************************************************)
THEOREM OpenStaysOnDisk == Spec => []OpenIsOnDisk
<1>1. IInv => OpenIsOnDisk
  BY DEF IInv, ProcessesFit, Fits, OpenIsOnDisk, At
<1>2. QED
  BY <1>1, Invariance, PTL

(***************************************************************************)
(* The rows of a file are encrypted with the key that its metadata checks  *)
(* (metadata.go and ApplyChanges).                                         *)
(***************************************************************************)
THEOREM OneKeyPerFile == Spec => []OneKey
<1>1. IInv => OneKey
  BY DEF IInv
<1>2. QED
  BY <1>1, Invariance, PTL

(***************************************************************************)
(* No failure, crash or concurrent opening removes, replaces or rekeys a   *)
(* cache that has its metadata (openRepository and closeOnError).          *)
(***************************************************************************)
THEOREM CacheStays == Spec => CacheIsKept
<1> DEFINE Kept == path # None /\ content[path].key # None =>
                     /\ path' = path
                     /\ content'[path].key = content[path].key
                     /\ content[path].sealed \subseteq content'[path].sealed
<1>1. ASSUME IInv, [Next]_vars PROVE [Kept]_vars
  <2> SUFFICES ASSUME Next, path # None, content[path].key # None
               PROVE  /\ path' = path
                      /\ content'[path].key = content[path].key
                      /\ content[path].sealed \subseteq content'[path].sealed
    BY <1>1
  <2>1. PICK p \in Openers : OpenStep(p) \/ UseStep(p) \/ Crash(p)
    BY DEF Next
  <2>2. path \in Inodes /\ content \in [Inodes -> Contents]
    BY <1>1 DEF IInv, TypeOK
  <2>3. CASE UNCHANGED files
    BY <2>3 DEF files
  <2>4. CASE Schema(p)
    BY <2>2, <2>4 DEF Schema, files, Contents
  <2>5. CASE InsertMetadata(p)
    <3>1. File(p).key = None /\ path' = path
      BY <2>5 DEF InsertMetadata
    <3>2. path # proc[p].handle
      BY <3>1 DEF File
    <3>3. content'[path] = content[path]
      BY <2>2, <2>5, <3>2 DEF InsertMetadata
    <3>4. QED
      BY <3>1, <3>3
  <2>6. CASE CleanUp(p)
    BY <1>1, <2>6 DEF CleanUp, At, IInv, ProcessesFit, Fits, CreatorFits
  <2>7. CASE Write(p)
    BY <2>2, <2>7 DEF Write, Contents
  <2>8. QED
    BY <2>1, <2>3, <2>4, <2>5, <2>6, <2>7
       DEF OpenStep, UseStep, Look, Make, Connect, Verify, ReadMetadata, Fail, Begin, Close,
           Crash
<1>2. QED
  BY <1>1, Invariance, PTL DEF Spec, CacheIsKept

(***************************************************************************)
(* Offline commands neither make nor remove the cache (OpenExisting).      *)
(***************************************************************************)
THEOREM OfflineCreates == Spec => OfflineCreatesNothing
<1> DEFINE Nothing == \A p \in Openers :
                        proc[p].mode = "existing" /\ proc'[p] # proc[p] => path' = path
<1>1. ASSUME IInv, [Next]_vars PROVE [Nothing]_vars
  <2> SUFFICES ASSUME Next, NEW p \in Openers, proc[p].mode = "existing", proc'[p] # proc[p]
               PROVE  path' = path
    BY <1>1
  <2>1. PICK d \in Openers : OpenStep(d) \/ UseStep(d) \/ Crash(d)
    BY DEF Next
  <2>2. d = p
    BY <1>1, <2>1 DEF IInv, TypeOK, OpenStep, UseStep, Crash, Look, Make, Connect, Schema, Verify,
       ReadMetadata, InsertMetadata, Fail, CleanUp, Begin, Write, Close, Goto, End, GiveUp, Attach
  <2>3. ~ Make(p) /\ ~ CleanUp(p)
    BY <1>1 DEF IInv, ProcessesFit, Fits, CreatorFits, Make, CleanUp, At
  <2>4. Connect(p) => path' = path
    BY DEF Connect, files
  <2>5. QED
    BY <2>1, <2>2, <2>3, <2>4 DEF OpenStep, UseStep, Crash, Look, Schema, Verify,
       ReadMetadata, InsertMetadata, Fail, Begin, Write, Close, files
<1>2. QED
  BY <1>1, Invariance, PTL DEF Spec, OfflineCreatesNothing
=============================================================================

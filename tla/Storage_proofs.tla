---------------------------- MODULE Storage_proofs ----------------------------
(* Proofs about what works on files.                                           *)
(*                                                                             *)
(* HttpDownload, for any resources, any server, any number of calls and faults: *)
(* what a download that says it succeeded has left, what an interrupted one     *)
(* keeps, and the life of the progress handle.                                  *)
(*                                                                             *)
(* LocalStores, for any clients, places, contents and crashes: trash, versions, *)
(* blobs and the lock file keep what they promise.                             *)
EXTENDS IntegrityMonitor, HttpDownload, LocalStores, FiniteSetTheorems, SequenceTheorems, TLAPS

-----------------------------------------------------------------------------
(* HttpDownload *)

HttpSpec == HttpInit /\ [][HttpNext]_httpVars

Texts == Seq(Chunks)

\* What lies under a name
Files == Texts \union {NoFile}

Gets ==
    [pc : {"over", "open", "stream", "replace", "verify"}, resume : BOOLEAN, expected : Files,
     start : Nat, tries : Nat, body : Texts, written : Nat,
     result : {"none", "true", "false", "dead", "raised"}, found : Texts, asked : Texts, cut : BOOLEAN]

HttpTypes ==
    /\ server \in [honours : BOOLEAN, sized : BOOLEAN]
    /\ resource \in Texts /\ changed \in BOOLEAN
    /\ target \in Files /\ part \in Files
    /\ get \in Gets
    /\ status \in [1 .. MaxCalls -> {"none", "running", "done", "cancelled", "aborted", "error", "checksum_failed"}]
    /\ round \in 0 .. MaxCalls
    /\ raised \in SUBSET (1 .. MaxCalls)
    /\ get.pc # "over" \/ get.result = "true" => round # 0
    /\ get.result = "true" => get.pc = "over"

Running == get.pc \in {"stream", "replace", "verify"}

\* One reporter at most is running, that of the call that has opened its file, besides those of the
\* calls that ended in an exception.
HandleInv ==
    /\ Running => entry = round
    /\ \A c \in raised : c <= round
    /\ get.pc # "over" => round \notin raised
    /\ \A c \in 1 .. MaxCalls : status[c] = "running" <=> (Running /\ c = round) \/ c \in raised
    /\ get.pc = "over" /\ get.result = "true" => status[round] = "done"

\* The file that a call writes
Held == IF get.resume THEN part ELSE target

\* All that was sent has been written, unless the answer was cut.
Reached(file) == IsPrefix(file, Whole) /\ (~get.cut => file = Whole)

\* What has been written and what is still to come make up what the call set out to leave.
TransferInv ==
    /\ get.start = Len(get.found)
    /\ get.pc = "open" => get.found = ResumeLayout(get.resume) /\ ~get.cut
    /\ get.pc = "stream" => /\ Held # NoFile
                            /\ IF get.cut THEN get.body = <<>> /\ IsPrefix(Held, Whole)
                               ELSE Held \o get.body = Whole
    /\ get.pc = "replace" => get.resume /\ part # NoFile /\ Reached(part)
    /\ get.pc = "verify" => Reached(target) /\ (get.resume => part = NoFile)
    /\ get.result = "true" => Reached(target)

\* .part holds what was found, and after it only what was sent.
PartInv == get.resume /\ part # NoFile => IsPrefix(get.found, part) /\ IsPrefix(part, Whole)

HttpInv ==
    /\ HttpTypes /\ HandleInv /\ TransferInv /\ PartInv
    /\ get.result = "true" /\ get.expected # NoFile => target = get.expected

\* No text is the mark of a file that is not there.
LEMMA TextsAreFiles == /\ \A s \in Texts : s # NoFile /\ Bytes(s) = s
                       /\ \A f \in Files : Bytes(f) \in Texts
                       /\ Versions[1] \in Texts /\ Versions[2] \in Texts /\ <<>> \in Texts
<1>1. ASSUME NEW s \in Texts PROVE s # NoFile
  <2> SUFFICES ASSUME s = NoFile PROVE FALSE
    OBVIOUS
  <2>1. Len(s) = 1 /\ 1 \in 1 .. Len(s) /\ s[1] = "absent"
    BY DEF NoFile
  <2> QED
    BY <2>1, ElementOfSeq, HttpAssumption DEF Texts
<1>2. <<>> \in Texts
  BY EmptySeq DEF Texts
<1> QED
  BY <1>1, <1>2, HttpAssumption DEF Bytes, Files, Texts

\* A beginning and what follows it
LEMMA PrefixAndRest ==
    ASSUME NEW s \in Texts, NEW t \in Texts, IsPrefix(s, t)
    PROVE  s \o SubSeq(t, Len(s) + 1, Len(t)) = t /\ SubSeq(t, Len(s) + 1, Len(t)) \in Texts
<1>1. Len(s) \in Nat /\ Len(t) \in Nat /\ Len(s) <= Len(t)
  BY LenProperties DEF Texts, IsPrefix
<1>2. s = SubSeq(t, 1, Len(s))
  BY SubSeqFull DEF Texts, IsPrefix
<1>3. SubSeq(t, 1, Len(s)) \o SubSeq(t, Len(s) + 1, Len(t)) = SubSeq(t, 1, Len(t))
  <2>1. 1 \in 1 .. Len(t) + 1 /\ Len(s) \in 0 .. Len(t) /\ Len(t) \in Len(s) .. Len(t)
    BY <1>1
  <2> QED
    BY <2>1, ConcatAdjacentSubSeq, 1 - 1 = 0 DEF Texts
<1>4. SubSeq(t, Len(s) + 1, Len(t)) \in Texts
  <2>1. \A i \in Len(s) + 1 .. Len(t) : t[i] \in Chunks
    BY <1>1, ElementOfSeq DEF Texts
  <2> QED
    BY <1>1, <2>1, SubSeqProperties DEF Texts
<1> QED
  BY <1>2, <1>3, <1>4, SubSeqFull DEF Texts

LEMMA BeginningIsPrefix ==
    ASSUME NEW s \in Texts, NEW t \in Texts
    PROVE  IsPrefix(s, s \o t) /\ IsPrefix(<<>>, s)
<1>1. Len(s) \in Nat /\ Len(t) \in Nat /\ Len(s \o t) = Len(s) + Len(t) /\ s \o t \in Texts
  BY LenProperties, ConcatProperties DEF Texts
<1>2. SubSeq(s, 1, Len(s)) = s
  BY SubSeqFull DEF Texts
<1>3. SubSeq(s \o t, 1, Len(s)) = SubSeq(s, 1, Len(s))
  <2>1. CASE Len(s) = 0
    BY <2>1, SubSeqEmpty
  <2>2. CASE Len(s) # 0
    <3>1. 1 \in 1 .. Len(s) /\ Len(s) \in 1 .. Len(s)
      BY <1>1, <2>2
    <3> QED
      BY <3>1, SubSeqOfConcat1 DEF Texts
  <2> QED
    BY <2>1, <2>2
<1>4. Len(<<>>) = 0 /\ SubSeq(<<>>, 1, 0) = <<>> /\ SubSeq(s, 1, 0) = <<>>
  BY SubSeqEmpty
<1> QED
  BY <1>1, <1>3, <1>4 DEF IsPrefix

\* What it is to be a beginning, place by place
LEMMA PrefixPlaces ==
    ASSUME NEW s \in Texts, NEW t \in Texts
    PROVE  IsPrefix(s, t) <=> Len(s) <= Len(t) /\ \A i \in 1 .. Len(s) : s[i] = t[i]
<1>1. Len(s) \in Nat /\ Len(t) \in Nat
  BY LenProperties DEF Texts
<1>2. SubSeq(s, 1, Len(s)) = [i \in 1 .. Len(s) |-> s[i]]
  BY <1>1, SubSeqFull, LenProperties DEF Texts
<1>3. ASSUME Len(s) <= Len(t) PROVE SubSeq(t, 1, Len(s)) = [i \in 1 .. Len(s) |-> t[i]]
  BY <1>1, <1>3 DEF Texts
<1> QED
  BY <1>1, <1>2, <1>3 DEF IsPrefix

LEMMA PrefixTransitive ==
    ASSUME NEW s \in Texts, NEW t \in Texts, NEW u \in Texts, IsPrefix(s, t), IsPrefix(t, u)
    PROVE  IsPrefix(s, u)
<1>1. Len(s) \in Nat /\ Len(t) \in Nat /\ Len(u) \in Nat
  BY LenProperties DEF Texts
<1> QED
  BY <1>1, PrefixPlaces

\* One chunk goes from what is to come to what has been written.
LEMMA ChunkMoves ==
    ASSUME NEW s \in Texts, NEW b \in Texts, b # <<>>
    PROVE  /\ Append(s, Head(b)) \in Texts /\ Tail(b) \in Texts
           /\ Append(s, Head(b)) \o Tail(b) = s \o b
           /\ IsPrefix(s, Append(s, Head(b)))
<1>1. Head(b) \in Chunks /\ Tail(b) \in Texts /\ b = <<Head(b)>> \o Tail(b)
  BY HeadTailProperties DEF Texts
<1>2. <<Head(b)>> \in Texts /\ Append(s, Head(b)) = s \o <<Head(b)>>
  BY <1>1 DEF Texts
<1>3. (s \o <<Head(b)>>) \o Tail(b) = s \o (<<Head(b)>> \o Tail(b))
  BY <1>1, <1>2, ConcatAssociative DEF Texts
<1> QED
  BY <1>1, <1>2, <1>3, ConcatProperties, BeginningIsPrefix DEF Texts

\* What the server sends of a text is a text.
LEMMA ServedIsText ==
    ASSUME HttpTypes, NEW t \in Texts PROVE Served(t) \in Texts
<1>1. \A i \in get.start + 1 .. Len(t) : t[i] \in Chunks
  BY ElementOfSeq, LenProperties DEF HttpTypes, Gets, Texts
<1>2. get.start + 1 \in Int /\ Len(t) \in Int
  BY LenProperties DEF HttpTypes, Gets, Texts
<1> QED
  BY <1>1, <1>2, SubSeqProperties DEF Served, Texts

LEMMA WholeIsText == HttpTypes => Whole \in Texts
<1> SUFFICES ASSUME HttpTypes PROVE Whole \in Texts
  OBVIOUS
<1>1. get.found \in Texts /\ get.asked \in Texts
  BY DEF HttpTypes, Gets
<1> QED
  BY <1>1, ServedIsText, ConcatProperties DEF Whole, Texts

\* A call that neither opens a file nor moves one leaves what it set out to do.
LEMMA WholeStays ==
    ASSUME server' = server, get'.found = get.found, get'.asked = get.asked, get'.start = get.start
    PROVE  Whole' = Whole
  BY DEF Whole, Served

\* A call starts.
LEMMA BeginStep ==
    ASSUME HttpInv, NEW r \in BOOLEAN, NEW e \in {NoFile, Versions[1]}, Begin(r, e)
    PROVE  HttpInv'
<1> USE TextsAreFiles, HttpAssumption
<1>1. e \in Files
  BY DEF Files
<1>2. ResumeLayout(r) \in Texts /\ Len(ResumeLayout(r)) \in Nat
  BY LenProperties DEF HttpInv, HttpTypes, Gets, ResumeLayout, Texts
<1>3. /\ get'.pc = "open" /\ get'.result = "none" /\ get'.start = Len(ResumeLayout(r))
      /\ get'.found = ResumeLayout(r) /\ get'.resume = r /\ get'.cut = FALSE
      /\ get'.asked = <<>>
  BY DEF Begin, NoCall
<1>4. HttpTypes'
  <2>1. NoCall \in Gets
    BY DEF NoCall, Gets, Files
  <2>2. get' \in Gets
    BY <1>1, <1>2, <2>1 DEF Begin, Gets
  <2>3. round' \in 0 .. MaxCalls /\ round' # 0
    BY DEF Begin, HttpInv, HttpTypes, Gets
  <2> QED
    BY <2>2, <2>3, <1>3 DEF HttpInv, HttpTypes, Begin
<1>5. HandleInv'
  <2>1. round' = round + 1 /\ round \in Nat /\ round' \notin raised
    BY DEF Begin, HttpInv, HttpTypes, HandleInv
  <2>2. \A c \in raised : c <= round'
    BY <2>1 DEF HttpInv, HttpTypes, HandleInv
  <2> QED
    BY <1>3, <2>1, <2>2 DEF HttpInv, HttpTypes, Gets, HandleInv, Running, Begin
<1>6. TransferInv' /\ UNCHANGED part
  BY <1>3 DEF TransferInv, ResumeLayout, Bytes, Begin
<1>7. PartInv'
  <2> SUFFICES ASSUME get'.resume, part' # NoFile PROVE IsPrefix(get'.found, part') /\ IsPrefix(part', Whole')
    BY DEF PartInv
  <2>1. part' \in Texts /\ get'.found = part'
    BY <1>3, <1>6 DEF HttpInv, HttpTypes, ResumeLayout, Bytes, Files
  <2>2. Whole' = part' \o <<>>
    <3>0. Len(<<>>) = 0
      OBVIOUS
    <3>1. get'.asked = <<>> /\ get'.start + 1 > Len(<<>>) /\ get'.start + 1 \in Int
      BY ONLY <1>2, <1>3, <3>0
    <3>2. SubSeq(<<>>, get'.start + 1, Len(<<>>)) = <<>>
      BY <3>1, SubSeqEmpty
    <3> QED
      BY <2>1, <3>1, <3>2 DEF Whole, Served
  <2>3. part' \o <<>> = part'
    BY <2>1, ConcatEmptySeq DEF Texts
  <2> QED
    BY <2>1, <2>2, <2>3, BeginningIsPrefix
<1> QED
  BY <1>3, <1>4, <1>5, <1>6, <1>7 DEF HttpInv

\* The call ends without success, or goes on as it was: the file it was to write has not been opened,
\* or is left as it is.
LEMMA QuietStep ==
    ASSUME HttpInv, get.pc # "over",
           NEW v \in {"false", "dead", "raised"},
           \/ get' = [get EXCEPT !.tries = @ + 1] /\ get.pc = "open"
           \/ get' = [get EXCEPT !.pc = "over", !.result = v],
           UNCHANGED <<server, resource, changed, part, round>>, target' \in Files,
           get.pc = "open" => UNCHANGED target
    PROVE  /\ get' \in Gets /\ get'.pc \in {get.pc, "over"} /\ get'.result # "true"
           /\ TransferInv' /\ PartInv'
           /\ get'.pc # "over" => get.pc = "open" /\ get'.pc = "open"
<1>1. get \in Gets /\ get.result # "true"
  BY DEF HttpInv, HttpTypes, Gets
<1>2. CASE get' = [get EXCEPT !.tries = @ + 1] /\ get.pc = "open"
  <2>1. get' \in Gets
    BY <1>1, <1>2 DEF Gets
  <2>2. /\ get'.found = get.found /\ get'.asked = get.asked /\ get'.start = get.start /\ get'.cut = get.cut
        /\ get'.pc = "open" /\ get'.resume = get.resume /\ get'.result = get.result
    BY <1>1, <1>2 DEF Gets
  <2>3. Whole' = Whole
    BY <2>2, WholeStays
  <2> QED
    BY <1>1, <1>2, <2>1, <2>2, <2>3 DEF HttpInv, TransferInv, PartInv, ResumeLayout, Bytes
<1>3. CASE get' = [get EXCEPT !.pc = "over", !.result = v]
  <2>1. get' \in Gets
    BY <1>1, <1>3 DEF Gets
  <2>2. /\ get'.found = get.found /\ get'.asked = get.asked /\ get'.start = get.start
        /\ get'.pc = "over" /\ get'.resume = get.resume /\ get'.result = v
    BY <1>1, <1>3 DEF Gets
  <2>3. Whole' = Whole
    BY <2>2, WholeStays
  <2> QED
    BY <1>1, <2>1, <2>2, <2>3 DEF HttpInv, TransferInv, PartInv
<1> QED
  BY <1>2, <1>3

\* A call that has not opened its file tries again or ends without success.
LEMMA OpenFailsStep == ASSUME HttpInv, OpenFails \/ OpenRefused \/ Oversize PROVE HttpInv'
<1>1. /\ get.pc = "open"
      /\ get' = [get EXCEPT !.tries = @ + 1] \/ get' = [get EXCEPT !.pc = "over", !.result = "false"]
      /\ UNCHANGED <<server, resource, changed, target, part, entry, status, token, raised, round>>
  BY DEF OpenFails, OpenRefused, Oversize, Return
<1>2. /\ get' \in Gets /\ get'.pc \in {get.pc, "over"} /\ get'.result # "true"
      /\ TransferInv' /\ PartInv' /\ (get'.pc # "over" => get'.pc = "open")
  BY <1>1, QuietStep DEF HttpInv, HttpTypes
<1>3. HttpTypes'
  BY <1>1, <1>2 DEF HttpInv, HttpTypes, Gets
<1>4. HandleInv'
  BY <1>1, <1>2 DEF HttpInv, HandleInv, Running
<1> QED
  BY <1>2, <1>3, <1>4 DEF HttpInv

\* The call ends without success, and its reporter with it.
LEMMA FinishStep ==
    ASSUME HttpInv, get.pc # "over", NEW s \in {"cancelled", "aborted", "error", "checksum_failed"},
           Finish("false", s), get.pc = "open" => UNCHANGED target,
           UNCHANGED <<server, resource, changed, part, raised, round>>, target' \in Files
    PROVE  HttpInv'
<1>1. get' = [get EXCEPT !.pc = "over", !.result = "false"] /\ status' = [status EXCEPT ![round] = s]
  BY DEF Finish, Return
<1>2. get' \in Gets /\ get'.result # "true" /\ TransferInv' /\ PartInv'
  BY <1>1, QuietStep
<1>3. get'.pc = "over" /\ round \in 1 .. MaxCalls
  BY <1>1, HttpAssumption DEF HttpInv, HttpTypes, Gets
<1>4. HttpTypes'
  BY <1>1, <1>2, <1>3 DEF HttpInv, HttpTypes
<1>5. HandleInv'
  BY <1>1, <1>2, <1>3 DEF HttpInv, HttpTypes, HandleInv, Running
<1> QED
  BY <1>2, <1>4, <1>5 DEF HttpInv

\* The file is opened.
LEMMA OpenStep == ASSUME HttpInv, Open PROVE HttpInv'
<1> USE TextsAreFiles
<1> DEFINE content == OpenedWith(get.resume)
<1>1. content \in Texts /\ content = get.found
  BY DEF OpenedWith, HttpInv, HttpTypes, Gets, TransferInv, ResumeLayout, Open
<1>2. Served(resource) \in Texts
  BY ServedIsText DEF HttpInv, HttpTypes
<1>3. /\ get' = [get EXCEPT !.pc = "stream", !.body = Served(resource), !.written = get.start,
                          !.asked = resource]
      /\ get.pc = "open" /\ entry' = round /\ status' = [status EXCEPT ![round] = "running"]
      /\ IF get.resume THEN part' = content /\ target' = target ELSE target' = content /\ part' = part
      /\ UNCHANGED <<server, resource, changed, token, raised, round>>
  BY DEF Open, Store
<1> HIDE DEF content
<1>4. get' \in Gets /\ get'.pc = "stream" /\ get'.resume = get.resume /\ get'.found = get.found
      /\ get'.start = get.start /\ get'.asked = resource /\ get'.body = Served(resource)
      /\ get'.cut = FALSE /\ get'.result = get.result /\ get.result # "true"
  BY <1>1, <1>2, <1>3 DEF HttpInv, HttpTypes, Gets, TransferInv
<1>5. HttpTypes'
  BY <1>1, <1>3, <1>4 DEF HttpInv, HttpTypes, Files
<1>6. HandleInv'
  BY <1>3, <1>4 DEF HttpInv, HttpTypes, HandleInv, Running
<1>7. Whole' = content \o Served(resource) /\ Held' = content
  BY <1>1, <1>3, <1>4 DEF Whole, Served, Held, HttpInv, HttpTypes, Gets
<1>8. TransferInv'
  BY <1>1, <1>3, <1>4, <1>7 DEF TransferInv, HttpInv
<1>9. PartInv'
  <2>1. content \o <<>> = content
    BY <1>1, ConcatEmptySeq DEF Texts
  <2> QED
    BY <1>1, <1>2, <1>3, <1>4, <1>7, <2>1, BeginningIsPrefix DEF PartInv
<1> QED
  BY <1>4, <1>5, <1>6, <1>8, <1>9 DEF HttpInv

LEMMA ChunkStep == ASSUME HttpInv, Chunk PROVE HttpInv'
<1> USE TextsAreFiles
<1>1. CASE Finish("false", "cancelled") /\ UNCHANGED <<target, part>>
  BY <1>1, FinishStep DEF Chunk, HttpInv, HttpTypes
<1>2. CASE Finish("false", "aborted") /\ UNCHANGED <<target, part>>
  BY <1>2, FinishStep DEF Chunk, HttpInv, HttpTypes
<1>3. CASE /\ get' = [get EXCEPT !.body = Tail(@), !.written = @ + 1]
           /\ Store(Append(Bytes(Held), Head(get.body)))
           /\ UNCHANGED status
  <2> DEFINE content == Append(Bytes(Held), Head(get.body))
  <2>1. /\ get.body \in Texts /\ get.body # <<>> /\ get.pc = "stream" /\ ~get.cut
        /\ Held \in Texts /\ Bytes(Held) = Held
    BY DEF Chunk, HttpInv, HttpTypes, Gets, Held, TransferInv, Bytes, Files
  <2>2. /\ content \in Texts /\ Tail(get.body) \in Texts /\ content \o Tail(get.body) = Whole
        /\ IsPrefix(Held, content)
    BY <2>1, ChunkMoves DEF HttpInv, TransferInv
  <2>3. /\ IF get.resume THEN part' = content /\ target' = target ELSE target' = content /\ part' = part
        /\ UNCHANGED <<server, resource, changed, entry, status, token, raised, round>>
    BY <1>3 DEF Store, Chunk
  <2> HIDE DEF content
  <2>4. /\ get' \in Gets /\ get'.pc = "stream" /\ get'.result = get.result /\ get'.resume = get.resume
        /\ get'.found = get.found /\ get'.asked = get.asked /\ get'.start = get.start /\ get'.cut = get.cut
        /\ get'.body = Tail(get.body)
    <3>1. get \in Gets
      BY DEF HttpInv, HttpTypes
    <3>2. get.written + 1 \in Nat
      BY <3>1 DEF Gets
    <3> QED
      BY ONLY <1>3, <2>1, <2>2, <3>1, <3>2 DEF Gets
  <2>5. HttpTypes'
    BY <2>1, <2>2, <2>3, <2>4 DEF HttpInv, HttpTypes, Files
  <2>6. HandleInv'
    BY <2>1, <2>3, <2>4 DEF HttpInv, HandleInv, Running
  <2>7. Whole' = Whole /\ Held' = content
    BY <2>3, <2>4, WholeStays DEF Held, HttpInv, HttpTypes, Gets
  <2>8. TransferInv'
    BY <2>1, <2>2, <2>3, <2>4, <2>7 DEF TransferInv, HttpInv, HttpTypes
  <2>9. PartInv'
    <3> SUFFICES ASSUME get.resume PROVE IsPrefix(get.found, content) /\ IsPrefix(content, Whole)
      BY <2>3, <2>4, <2>7 DEF PartInv
    <3>1. Held = part /\ IsPrefix(get.found, Held) /\ get.found \in Texts
      BY <2>1 DEF Held, HttpInv, HttpTypes, Gets, PartInv
    <3> QED
      BY <2>1, <2>2, <3>1, PrefixTransitive, BeginningIsPrefix
  <2> QED
    BY <2>1, <2>4, <2>5, <2>6, <2>8, <2>9 DEF HttpInv, HttpTypes
<1> QED
  BY <1>1, <1>2, <1>3 DEF Chunk, Held

\* The answer is cut: what has been written is the beginning of what was to be written.
LEMMA CutStep == ASSUME HttpInv, CutShort PROVE HttpInv'
<1>1. /\ get' = [get EXCEPT !.body = <<>>, !.cut = TRUE] /\ get.pc = "stream" /\ get.body # <<>>
      /\ UNCHANGED <<server, resource, changed, target, part, entry, status, token, raised, round>>
  BY DEF CutShort
<1>2. /\ get' \in Gets /\ get'.pc = "stream" /\ get'.result = get.result /\ get'.resume = get.resume
      /\ get'.found = get.found /\ get'.asked = get.asked /\ get'.start = get.start
      /\ get'.cut = TRUE /\ get'.body = <<>>
  BY <1>1, TextsAreFiles DEF HttpInv, HttpTypes, Gets
<1>3. HttpTypes'
  BY <1>1, <1>2 DEF HttpInv, HttpTypes
<1>4. HandleInv'
  BY <1>1, <1>2 DEF HttpInv, HandleInv, Running
<1>5. Whole' = Whole /\ Held' = Held
  BY <1>1, <1>2, WholeStays DEF Held
<1>6. IsPrefix(Held, Whole)
  <2>1. Held \in Texts /\ get.body \in Texts /\ Held \o get.body = Whole
    BY <1>1, TextsAreFiles DEF HttpInv, HttpTypes, Gets, TransferInv, Held, Files
  <2> QED
    BY <2>1, BeginningIsPrefix
<1>7. TransferInv' /\ PartInv'
  BY <1>1, <1>2, <1>5, <1>6 DEF HttpInv, HttpTypes, TransferInv, PartInv
<1> QED
  BY <1>1, <1>2, <1>3, <1>4, <1>7 DEF HttpInv, HttpTypes

\* The stream has ended; what was downloaded is put in its place and checked.
LEMMA LandingStep == ASSUME HttpInv, StreamEnds \/ Replace \/ Verify PROVE HttpInv'
<1> USE TextsAreFiles
<1>1. ASSUME StreamEnds PROVE HttpInv'
  <2>1. /\ get' = [get EXCEPT !.pc = IF get.resume THEN "replace" ELSE "verify"]
        /\ get.pc = "stream" /\ get.body = <<>>
        /\ UNCHANGED <<server, resource, changed, target, part, entry, status, token, raised, round>>
    BY <1>1 DEF StreamEnds
  <2>2. /\ get' \in Gets /\ get'.pc = (IF get.resume THEN "replace" ELSE "verify")
        /\ get'.found = get.found /\ get'.asked = get.asked /\ get'.start = get.start
        /\ get'.cut = get.cut /\ get'.resume = get.resume /\ get'.result = get.result
    BY <2>1 DEF HttpInv, HttpTypes, Gets
  <2>3. HttpTypes' /\ HandleInv'
    BY <2>1, <2>2 DEF HttpInv, HttpTypes, HandleInv, Running
  <2>4. Whole' = Whole
    BY <2>1, <2>2, WholeStays
  <2>5. Held # NoFile /\ Reached(Held)
    <3>1. Held \in Texts /\ Held # NoFile
      BY <2>1 DEF HttpInv, HttpTypes, Held, TransferInv, Files
    <3>2. Held \o <<>> = Held
      BY <3>1, ConcatEmptySeq DEF Texts
    <3>3. IsPrefix(Held, Held)
      BY <3>1, <3>2, BeginningIsPrefix
    <3> QED
      BY <2>1, <3>1, <3>2, <3>3 DEF HttpInv, TransferInv, Reached
  <2>6. TransferInv' /\ PartInv'
    BY <2>1, <2>2, <2>4, <2>5 DEF HttpInv, HttpTypes, TransferInv, PartInv, Reached, Held
  <2> QED
    BY <2>1, <2>2, <2>3, <2>6 DEF HttpInv, HttpTypes
<1>2. ASSUME Replace PROVE HttpInv'
  <2>1. /\ get' = [get EXCEPT !.pc = "verify"] /\ get.pc = "replace" /\ target' = part /\ part' = NoFile
        /\ UNCHANGED <<server, resource, changed, entry, status, token, raised, round>>
    BY <1>2 DEF Replace
  <2>2. /\ get' \in Gets /\ get'.pc = "verify"
        /\ get'.found = get.found /\ get'.asked = get.asked /\ get'.start = get.start
        /\ get'.cut = get.cut /\ get'.resume = get.resume /\ get'.result = get.result
    BY <2>1 DEF HttpInv, HttpTypes, Gets
  <2>3. HttpTypes' /\ HandleInv'
    BY <2>1, <2>2 DEF HttpInv, HttpTypes, HandleInv, Running, Files
  <2>4. Whole' = Whole
    BY <2>1, <2>2, WholeStays
  <2>5. TransferInv' /\ PartInv'
    BY <2>1, <2>2, <2>4 DEF HttpInv, HttpTypes, TransferInv, PartInv, Reached
  <2> QED
    BY <2>1, <2>2, <2>3, <2>5 DEF HttpInv, HttpTypes
<1>3. ASSUME Verify PROVE HttpInv'
  <2>1. CASE get.expected # NoFile /\ target # get.expected
    BY <1>3, <2>1, FinishStep DEF Verify, HttpInv, HttpTypes, Files
  <2>2. CASE ~(get.expected # NoFile /\ target # get.expected)
    <3>1. /\ get' = [get EXCEPT !.pc = "over", !.result = "true"] /\ status' = [status EXCEPT ![round] = "done"]
          /\ get.pc = "verify"
          /\ UNCHANGED <<server, resource, changed, target, part, entry, token, raised, round>>
      BY <1>3, <2>2 DEF Verify, Finish, Return
    <3>2. /\ get' \in Gets /\ get'.pc = "over" /\ get'.result = "true" /\ get'.expected = get.expected
          /\ get'.found = get.found /\ get'.asked = get.asked /\ get'.start = get.start
          /\ get'.cut = get.cut /\ get'.resume = get.resume
      BY <3>1 DEF HttpInv, HttpTypes, Gets
    <3>3. round \in 1 .. MaxCalls
      BY <3>1, HttpAssumption DEF HttpInv, HttpTypes
    <3>4. HttpTypes'
      BY <3>1, <3>2, <3>3 DEF HttpInv, HttpTypes
    <3>5. HandleInv'
      BY <3>1, <3>2, <3>3 DEF HttpInv, HttpTypes, HandleInv, Running
    <3>6. Whole' = Whole
      BY <3>1, <3>2, WholeStays
    <3>7. TransferInv' /\ PartInv'
      BY <3>1, <3>2, <3>6 DEF HttpInv, TransferInv, PartInv, Reached
    <3> QED
      BY <2>2, <3>1, <3>2, <3>4, <3>5, <3>7 DEF HttpInv
  <2> QED
    BY <2>1, <2>2
<1> QED
  BY <1>1, <1>2, <1>3

\* The file cannot be opened, the connection fails, an exception escapes, or the process dies.
LEMMA BreakStep == ASSUME HttpInv, Unopened \/ Break \/ LandingRaises \/ Crash PROVE HttpInv'
<1>1. CASE Unopened \/ Break
  BY <1>1, FinishStep DEF Unopened, Break, HttpInv, HttpTypes
<1>2. CASE LandingRaises
  <2>1. /\ get' = [get EXCEPT !.pc = "over", !.result = "raised"] /\ raised' = raised \union {round}
        /\ get.pc \in {"replace", "verify"}
        /\ UNCHANGED <<server, resource, changed, target, part, entry, status, token, round>>
    BY <1>2 DEF LandingRaises, Return
  <2>2. /\ get' \in Gets /\ get'.result # "true" /\ TransferInv' /\ PartInv'
    BY <2>1, QuietStep DEF HttpInv, HttpTypes
  <2>3. get'.pc = "over" /\ round \in 1 .. MaxCalls
    BY <2>1, HttpAssumption DEF HttpInv, HttpTypes, Gets
  <2>4. HttpTypes'
    BY <2>1, <2>2, <2>3 DEF HttpInv, HttpTypes
  <2>5. HandleInv'
    <3>1. round \in Nat /\ \A c \in raised' : c <= round
      BY <2>1, <2>3, HttpAssumption DEF HttpInv, HandleInv
    <3> QED
      BY <2>1, <2>2, <2>3, <3>1 DEF HttpInv, HttpTypes, HandleInv, Running
  <2> QED
    BY <2>2, <2>4, <2>5 DEF HttpInv
<1>3. CASE Crash
  <2>1. /\ get' = [get EXCEPT !.pc = "over", !.result = "dead"] /\ status' = [c \in 1 .. MaxCalls |-> "none"]
        /\ get.pc # "over" /\ raised' = {}
        /\ UNCHANGED <<server, resource, changed, target, part, token, round>>
    BY <1>3 DEF Crash, Return
  <2>2. /\ get' \in Gets /\ get'.result # "true" /\ TransferInv' /\ PartInv'
    BY <2>1, QuietStep DEF HttpInv, HttpTypes
  <2>3. get'.pc = "over"
    BY <2>1 DEF HttpInv, HttpTypes, Gets
  <2>4. HttpTypes'
    BY <2>1, <2>2, <2>3 DEF HttpInv, HttpTypes
  <2>5. HandleInv'
    BY <2>1, <2>2, <2>3 DEF HandleInv, Running
  <2> QED
    BY <2>2, <2>4, <2>5 DEF HttpInv
<1> QED
  BY <1>1, <1>2, <1>3

\* Others replace the resource, cancel the call and clear the registry.
LEMMA OthersStep == ASSUME HttpInv, Moves \/ Cancel \/ ProgressClear \/ UNCHANGED httpVars PROVE HttpInv'
<1>1. /\ UNCHANGED <<server, target, part, get, status, raised, round>> /\ (Running => entry' = entry)
      /\ resource' \in Texts /\ changed' \in BOOLEAN
  <2>1. CASE Moves
    BY <2>1, TextsAreFiles DEF Moves
  <2>2. CASE Cancel \/ UNCHANGED httpVars
    BY <2>2 DEF Cancel, httpVars, HttpInv, HttpTypes
  <2>3. CASE ProgressClear
    <3>1. ~Running
      BY <2>3 DEF ProgressClear, ClearFinished, HttpInv, HttpTypes, Gets, HandleInv, Running
    <3> QED
      BY <2>3, <3>1 DEF ProgressClear, HttpInv, HttpTypes
  <2> QED
    BY <2>1, <2>2, <2>3
<1>2. HttpTypes' /\ HandleInv'
  BY <1>1 DEF HttpInv, HttpTypes, Gets, HandleInv, Running
<1>3. Whole' = Whole
  BY <1>1, WholeStays
<1> QED
  BY <1>1, <1>2, <1>3 DEF HttpInv, HttpTypes, TransferInv, PartInv, Reached, Held, ResumeLayout, Bytes

LEMMA HttpStarts == HttpInit => HttpInv
<1> SUFFICES ASSUME HttpInit PROVE HttpInv
  OBVIOUS
<1>1. HttpTypes
  <2>1. get \in Gets
    BY TextsAreFiles DEF HttpInit, NoCall, Gets, Files
  <2>2. get.pc = "over" /\ get.result = "none"
    BY DEF HttpInit, NoCall
  <2>3. status \in [1 .. MaxCalls -> {"none"}]
    BY DEF HttpInit
  <2>4. round \in 0 .. MaxCalls
    BY HttpAssumption DEF HttpInit
  <2> QED
    BY <2>1, <2>2, <2>3, <2>4, TextsAreFiles DEF HttpInit, HttpTypes, Files
<1>2. HandleInv
  BY DEF HttpInit, HandleInv, Running, NoCall
<1>3. TransferInv /\ PartInv
  <2>1. Len(<<>>) = 0
    OBVIOUS
  <2> QED
    BY <2>1 DEF HttpInit, TransferInv, PartInv, NoCall
<1> QED
  BY <1>1, <1>2, <1>3 DEF HttpInv, HttpInit, NoCall

\* What was found and the rest of it make up what the URL served.
LEMMA WholeOfAll == ASSUME HttpInv, Continued PROVE Whole = get.asked
<1>1. get.found \in Texts /\ get.asked \in Texts /\ get.start = Len(get.found)
  BY DEF HttpInv, HttpTypes, Gets, TransferInv
<1>2. IsPrefix(get.found, get.asked)
  BY <1>1, BeginningIsPrefix DEF Continued
<1>3. get.found \o SubSeq(get.asked, Len(get.found) + 1, Len(get.asked)) = get.asked
  BY <1>1, <1>2, PrefixAndRest
<1>4. CASE server.honours
  BY <1>1, <1>3, <1>4 DEF Whole, Served
<1>5. CASE ~server.honours
  <2>1. get.found = <<>> /\ <<>> \o get.asked = get.asked
    BY <1>1, <1>5, ConcatEmptySeq DEF Continued, Texts
  <2> QED
    BY <1>5, <2>1 DEF Whole, Served
<1> QED
  BY <1>4, <1>5

\* DownloadSound: for any two versions of a resource, any server and any number of calls, retries and
\* faults, True is answered for what was found followed by what was sent (the resource, whenever the one
\* was its beginning and the other was not cut) and with a checksum for the expected content only; an
\* interrupted call keeps what it found; and the progress handle lives as long as its call.
THEOREM DownloadsAreSound == HttpSpec => []DownloadSound
<1>1. HttpInv /\ [HttpNext]_httpVars => HttpInv'
  BY BeginStep, OpenFailsStep, OpenStep, ChunkStep, CutStep, LandingStep, BreakStep, OthersStep DEF HttpNext
<1>2. HttpInv => DownloadSound
  <2> SUFFICES ASSUME HttpInv PROVE DownloadExact /\ HandleFollows
    BY DEF DownloadSound
  <2>1. DownloadExact
    BY WholeOfAll DEF HttpInv, TransferInv, PartInv, Reached, DownloadExact
  <2>2. HandleFollows
    BY DEF HttpInv, HttpTypes, Gets, HandleInv, Running, HandleFollows
  <2> QED
    BY <2>1, <2>2
<1> QED
  BY <1>1, <1>2, HttpStarts, PTL DEF HttpSpec

-----------------------------------------------------------------------------
(* LocalStores *)

StoreSpec == StoreInit /\ [][StoreNext]_storeVars

Stages ==
    {"idle", "dead", "sidecar", "restore", "unlink", "copy", "hashed", "write", "replace", "acquire", "release"}

\* A content lies in one place, in the trash or out of it; whoever is about to restore over a file that is
\* there has had it put there since the look.
TrashInv ==
    /\ at \in [Clients -> Stages] /\ made \in Nat
    /\ here \in [Homes -> Nat] /\ hand \in [Clients -> Nat]
    /\ \A p \in Homes : here[p] <= made
    /\ \A p, q \in Homes : here[p] = here[q] /\ here[p] # 0 => p = q
    /\ \A e \in bin : e.content \in 1 .. made /\ e.place \in Homes
    /\ \A e, f \in bin : e.content = f.content => e = f
    /\ \A e \in bin, p \in Homes : here[p] # e.content
    /\ \A c \in Clients, e \in bin :
          at[c] = "restore" /\ hand[c] = e.content /\ here[e.place] # 0 => c \in surprised
    /\ lost = {}

\* Until two savers overlap there is one at a time, and its number and its save are ahead of all others.
VersionInv ==
    /\ at \in [Clients -> Stages] /\ number \in [Clients -> Nat] /\ saves \in Nat /\ overlapped \in BOOLEAN
    /\ IsFiniteSet(versions)
    /\ \A v \in versions : v.number \in Nat /\ v.saved \in Nat /\ v.saved <= saves
    /\ versions # {} => \E n \in Numbers : \A m \in Numbers : n >= m
    /\ ~ overlapped =>
          /\ \A c, d \in Clients : at[c] = "copy" /\ at[d] = "copy" => c = d
          /\ \A c \in Clients : at[c] = "copy" => \A v \in versions : v.saved < saves /\ v.number < number[c]
    /\ VersionsDistinct

Writing(c) == at[c] \in {"write", "replace"}

\* Inode i is a blob, a temporary file or a file being written, of digest b.
Refers(b, i) == blob[b] = i \/ temp[b] = i \/ \E c \in Clients : Writing(c) /\ digest[c] = b /\ fd[c] = i

BlobTypes ==
    /\ at \in [Clients -> Stages] /\ source \in Blobs
    /\ digest \in [Clients -> Blobs \union {None}] /\ fd \in [Clients -> Inodes \union {None}]
    /\ blob \in [Blobs -> Inodes \union {None}] /\ temp \in [Blobs -> Inodes \union {None}]
    /\ data \in [Inodes -> Blobs \union {None, "torn"}]
    /\ \A c \in Clients : (Putting(c) => digest[c] \in Blobs) /\ (Writing(c) => fd[c] \in Inodes)

\* No inode serves two digests, and none that is in use is empty.
InodesInv ==
    \A i \in Inodes :
        /\ \A b \in Blobs : Refers(b, i) => data[i] # None
        /\ \A a, b \in Blobs : Refers(a, i) /\ Refers(b, i) => a = b

\* As long as a digest is undisturbed one put at most is under way: it has the temporary file, and there
\* is no blob before it is renamed.
PutInv(b) ==
    /\ blob[b] # None => data[blob[b]] = b
    /\ \A c, d \in Clients : Putting(c) /\ Putting(d) /\ digest[c] = b /\ digest[d] = b => c = d
    /\ \A c \in Clients : Putting(c) /\ digest[c] = b =>
          /\ source = b
          /\ Writing(c) => temp[b] = fd[c] /\ blob[b] = None
          /\ at[c] = "replace" => data[fd[c]] = b

PutsInv == \A b \in Blobs \ disturbed : PutInv(b)

BlobInv == BlobTypes /\ InodesInv /\ PutsInv

LockInv == owned = locked /\ (owned = {} \/ \E x : owned = {x})

\* The store in use keeps its invariant, and the others are as at the start.
StoresInv ==
    /\ store \in {"trash", "versions", "blobs", "lock"}
    /\ IF store = "trash" THEN TrashInv ELSE TrashKeeps
    /\ IF store = "versions" THEN VersionInv ELSE VersionsDistinct
    /\ IF store = "blobs" THEN BlobInv ELSE BlobsMatch
    /\ IF store = "lock" THEN LockInv ELSE LockExclusive

LEMMA GoesType ==
    ASSUME at \in [Clients -> Stages], NEW c \in Clients, NEW s \in Stages, Goes(c, s)
    PROVE  at' \in [Clients -> Stages] /\ at'[c] = s /\ \A d \in Clients \ {c} : at'[d] = at[d]
  BY DEF Goes

(* The trash *)

\* Where a content of the trash came from
LEMMA PlaceIsKnown ==
    ASSUME TrashInv, NEW e \in bin
    PROVE  InBin(e.content) /\ PlaceOf(e.content) = e.place
<1>1. InBin(e.content)
  BY DEF InBin
<1>2. (CHOOSE f \in bin : f.content = e.content) = e
  <2> DEFINE f == CHOOSE g \in bin : g.content = e.content
  <2>1. f \in bin /\ f.content = e.content
    OBVIOUS
  <2> QED
    BY <2>1 DEF TrashInv
<1> QED
  BY <1>1, <1>2 DEF PlaceOf

\* Whoever is about to restore an entry to a place is aiming at it.
LEMMA AimingAt ==
    ASSUME TrashInv, NEW c \in Clients, NEW e \in bin, at[c] = "restore", hand[c] = e.content
    PROVE  c \in Aiming(e.place)
  BY PlaceIsKnown DEF Aiming

LEMMA MakeStep == ASSUME TrashInv, NEW p \in Homes, Make(p) PROVE TrashInv'
<1>1. \A c \in Clients, e \in bin : at[c] = "restore" /\ hand[c] = e.content => c \in Aiming(e.place)
  BY AimingAt
<1>2. \A e \in bin' : e \in bin /\ e.content \in 1 .. made'
  BY DEF Make, TrashInv
<1>3. \A c \in Clients, e \in bin' :
          at'[c] = "restore" /\ hand'[c] = e.content /\ here'[e.place] # 0 => c \in surprised'
  BY <1>1, <1>2 DEF Make, TrashInv
<1> QED
  BY <1>2, <1>3 DEF Make, TrashInv

LEMMA SendStep == ASSUME TrashInv, NEW c \in Clients, NEW p \in Homes, Send(c, p) PROVE TrashInv'
<1> DEFINE new == [content |-> here[p], place |-> p]
<1>1. /\ here[p] \in 1 .. made /\ made' = made /\ bin' = bin \union {new}
      /\ here' = [here EXCEPT ![p] = 0] /\ hand' = [hand EXCEPT ![c] = here[p]]
      /\ surprised' = surprised /\ lost' = lost
  BY DEF Send, TrashInv
<1>2. at' \in [Clients -> Stages] /\ at'[c] = "sidecar" /\ \A d \in Clients \ {c} : at'[d] = at[d]
  BY GoesType DEF Send, TrashInv, Stages
<1>3. /\ here' \in [Homes -> Nat] /\ hand' \in [Clients -> Nat]
      /\ \A q \in Homes : here'[q] <= made'
      /\ \A q, r \in Homes : here'[q] = here'[r] /\ here'[q] # 0 => q = r
  BY <1>1 DEF TrashInv
<1>4. \A e \in bin' : e.content \in 1 .. made' /\ e.place \in Homes
  BY <1>1 DEF TrashInv
<1>5. \A e, f \in bin' : e.content = f.content => e = f
  BY <1>1 DEF TrashInv
<1>6. \A e \in bin', q \in Homes : here'[q] # e.content
  BY <1>1 DEF TrashInv
<1>7. \A d \in Clients, e \in bin' :
          at'[d] = "restore" /\ hand'[d] = e.content /\ here'[e.place] # 0 => d \in surprised'
  BY <1>1, <1>2 DEF TrashInv
<1> QED
  BY <1>1, <1>2, <1>3, <1>4, <1>5, <1>6, <1>7 DEF TrashInv

LEMMA LookStep == ASSUME TrashInv, NEW c \in Clients, NEW n, Look(c, n) PROVE TrashInv'
<1>0. n \in Nat
  BY DEF Look, InBin, TrashInv
<1>1. at' \in [Clients -> Stages] /\ at'[c] = "restore" /\ \A d \in Clients \ {c} : at'[d] = at[d]
  BY GoesType DEF Look, TrashInv, Stages
<1>2. \A e \in bin : e.content = n => here[e.place] = 0
  BY PlaceIsKnown DEF Look, TargetFree
<1>3. \A d \in Clients, e \in bin' :
          at'[d] = "restore" /\ hand'[d] = e.content /\ here'[e.place] # 0 => d \in surprised'
  BY <1>1, <1>2 DEF Look, TrashInv
<1> QED
  BY <1>0, <1>1, <1>3 DEF Look, TrashInv

LEMMA PutBackStep == ASSUME TrashInv, NEW c \in Clients, PutBack(c) PROVE TrashInv'
<1>1. CASE ~InBin(hand[c])
  <2>1. at' \in [Clients -> Stages] /\ at'[c] = "idle" /\ \A d \in Clients \ {c} : at'[d] = at[d]
    BY <1>1, GoesType DEF PutBack, TrashInv, Stages
  <2> QED
    BY <1>1, <2>1 DEF PutBack, TrashInv
<1>2. CASE InBin(hand[c])
  <2>1. PICK e \in bin : e.content = hand[c] /\ PlaceOf(hand[c]) = e.place
    BY <1>2, PlaceIsKnown DEF InBin
  <2>2. at' \in [Clients -> Stages] /\ at'[c] = "unlink" /\ \A d \in Clients \ {c} : at'[d] = at[d]
    BY <1>2, GoesType DEF PutBack, TrashInv, Stages
  <2>3. /\ here' = [here EXCEPT ![e.place] = e.content] /\ hand' = hand /\ made' = made
        /\ bin' = {f \in bin : f.content # e.content} /\ e.place \in Homes /\ e.content \in 1 .. made
        /\ surprised' = surprised \union Aiming(e.place)
    BY <1>2, <2>1 DEF PutBack, TrashInv
  <2>4. lost' = {}
    BY <1>2, <2>1 DEF PutBack, TrashInv
  <2>5. \A d \in Clients, f \in bin : at[d] = "restore" /\ hand[d] = f.content => d \in Aiming(f.place)
    BY AimingAt
  <2>6. \A d \in Clients, f \in bin' :
            at'[d] = "restore" /\ hand'[d] = f.content /\ here'[f.place] # 0 => d \in surprised'
    BY <2>2, <2>3, <2>5 DEF TrashInv
  <2>7. /\ here' \in [Homes -> Nat] /\ hand' \in [Clients -> Nat]
        /\ \A q \in Homes : here'[q] <= made'
        /\ \A q, r \in Homes : here'[q] = here'[r] /\ here'[q] # 0 => q = r
    BY <2>3 DEF TrashInv
  <2>8. \A f \in bin', q \in Homes : here'[q] # f.content
    BY <2>3 DEF TrashInv
  <2> QED
    BY <2>2, <2>3, <2>4, <2>6, <2>7, <2>8 DEF TrashInv
<1> QED
  BY <1>1, <1>2

LEMMA TrashRest ==
    ASSUME TrashInv, NEW c \in Clients, Sidecar(c) \/ Unlink(c) \/ Empty(c) \/ (Dies(c) /\ UNCHANGED trashVars)
    PROVE  TrashInv'
<1>1. /\ at' \in [Clients -> Stages] /\ \A d \in Clients : at'[d] = "restore" => at[d] = "restore"
      /\ UNCHANGED <<here, hand, made, lost, surprised>> /\ bin' \subseteq bin
  <2>1. CASE Sidecar(c) \/ Unlink(c)
    BY <2>1, GoesType DEF Sidecar, Unlink, TrashInv, Stages
  <2>2. CASE Empty(c)
    BY <2>2 DEF Empty, TrashInv
  <2>3. CASE Dies(c) /\ UNCHANGED trashVars
    BY <2>3, GoesType DEF Dies, trashVars, TrashInv, Stages
  <2> QED
    BY <2>1, <2>2, <2>3
<1> QED
  BY <1>1 DEF TrashInv

LEMMA TrashStep == ASSUME TrashInv, Trash PROVE TrashInv'
  BY MakeStep, SendStep, LookStep, PutBackStep, TrashRest, StoreAssumption DEF Trash

(* The versions *)

\* The number that is chosen is above all the bucket has.
LEMMA NextIsHighest == ASSUME VersionInv PROVE NextVersion \in Nat /\ \A m \in Numbers : NextVersion > m
<1>1. Numbers \subseteq Nat
  BY DEF Numbers, VersionInv
<1>2. CASE versions = {}
  BY <1>2 DEF NextVersion, Numbers
<1>3. CASE versions # {}
  <2> DEFINE highest == CHOOSE n \in Numbers : \A m \in Numbers : n >= m
  <2>1. highest \in Numbers /\ \A m \in Numbers : highest >= m
    BY <1>3 DEF VersionInv
  <2>2. NextVersion = 1 + highest
    BY <1>3 DEF NextVersion
  <2> HIDE DEF highest
  <2> QED
    BY <1>1, <2>1, <2>2
<1> QED
  BY <1>2, <1>3

LEMMA ChooseNumberStep == ASSUME VersionInv, NEW c \in Clients, ChooseNumber(c) PROVE VersionInv'
<1>1. at' \in [Clients -> Stages] /\ at'[c] = "copy" /\ \A d \in Clients \ {c} : at'[d] = at[d]
  BY GoesType DEF ChooseNumber, VersionInv, Stages
<1>2. NextVersion \in Nat /\ \A v \in versions : NextVersion > v.number
  BY NextIsHighest DEF Numbers
<1>3. /\ number' = [number EXCEPT ![c] = NextVersion] /\ saves' = saves + 1 /\ versions' = versions
      /\ overlapped' = (overlapped \/ \E d \in Clients : at[d] = "copy")
  BY DEF ChooseNumber
<1>4. overlapped' \in BOOLEAN /\ (~ overlapped' => ~ overlapped /\ \A d \in Clients : at[d] # "copy")
  BY <1>3 DEF VersionInv
<1>5. number' \in [Clients -> Nat] /\ number'[c] = NextVersion /\ saves \in Nat /\ saves' \in Nat
  BY <1>2, <1>3 DEF VersionInv
<1>6. Numbers' = Numbers /\ (VersionsDistinct /\ ~ overlapped => VersionsDistinct')
  BY <1>3 DEF Numbers, VersionsDistinct
<1>7. ~ overlapped' =>
          /\ \A d, e \in Clients : at'[d] = "copy" /\ at'[e] = "copy" => d = e
          /\ \A d \in Clients : at'[d] = "copy" => \A v \in versions' : v.saved < saves' /\ v.number < number'[d]
  BY <1>1, <1>2, <1>3, <1>4, <1>5 DEF VersionInv
<1>8. \A v \in versions' : v.number \in Nat /\ v.saved \in Nat /\ v.saved <= saves'
  BY <1>3, <1>5 DEF VersionInv
<1>9. VersionsDistinct'
  BY <1>4, <1>6 DEF VersionInv, VersionsDistinct
<1> QED
  BY <1>1, <1>3, <1>4, <1>5, <1>6, <1>7, <1>8, <1>9 DEF VersionInv

LEMMA CopyStep == ASSUME VersionInv, NEW c \in Clients, Copy(c) PROVE VersionInv'
<1> DEFINE new == [number |-> number[c], saved |-> saves]
<1>1. at' \in [Clients -> Stages] /\ at'[c] = "idle" /\ \A d \in Clients \ {c} : at'[d] = at[d]
  BY GoesType DEF Copy, VersionInv, Stages
<1>2. versions' = versions \union {new} /\ UNCHANGED <<number, saves, overlapped>> /\ at[c] = "copy"
  BY DEF Copy
<1>3. new.number = number[c] /\ new.saved = saves /\ number[c] \in Nat /\ saves \in Nat
  BY DEF VersionInv
<1> HIDE DEF new
<1>4. IsFiniteSet(versions')
  BY <1>2, FS_AddElement DEF VersionInv
<1>5. \A v \in versions' : v.number \in Nat /\ v.saved \in Nat /\ v.saved <= saves'
  BY <1>2, <1>3 DEF VersionInv
<1>6. \E n \in Numbers' : \A m \in Numbers' : n >= m
  <2>1. Numbers' = Numbers \union {number[c]} /\ Numbers \subseteq Nat
    BY <1>2, <1>3 DEF Numbers, VersionInv
  <2>2. CASE versions = {}
    BY <1>3, <2>1, <2>2 DEF Numbers
  <2>3. CASE versions # {}
    <3>1. PICK n \in Numbers : \A m \in Numbers : n >= m
      BY <2>3 DEF VersionInv
    <3>2. CASE n >= number[c]
      BY <2>1, <3>1, <3>2
    <3>3. CASE number[c] > n
      BY <1>3, <2>1, <3>1, <3>3
    <3> QED
      BY <1>3, <2>1, <3>2, <3>3
  <2> QED
    BY <2>2, <2>3
<1>7. ~ overlapped' =>
          /\ \A d, e \in Clients : at'[d] = "copy" /\ at'[e] = "copy" => d = e
          /\ \A d \in Clients : at'[d] = "copy" => \A v \in versions' : v.saved < saves' /\ v.number < number'[d]
  BY <1>1, <1>2 DEF VersionInv
<1>8. VersionsDistinct'
  <2> SUFFICES ASSUME ~ overlapped PROVE VersionsDistinct'
    BY <1>2 DEF VersionsDistinct
  <2>1. \A v, w \in versions : (v.saved < w.saved) <=> (v.number < w.number)
    BY DEF VersionInv, VersionsDistinct
  <2>2. \A v \in versions : v.saved < new.saved /\ v.number < new.number /\ v.saved \in Nat /\ v.number \in Nat
    BY <1>2, <1>3 DEF VersionInv
  <2> QED
    BY <1>2, <1>3, <2>1, <2>2 DEF VersionsDistinct
<1> QED
  BY <1>1, <1>2, <1>4, <1>5, <1>6, <1>7, <1>8 DEF VersionInv

\* Whatever a prune leaves, the highest number is among it.
LEMMA PruneStep == ASSUME VersionInv, NEW c, NEW keep \in 0 .. 2, Prune(c, keep) PROVE VersionInv'
<1>1. versions' \subseteq versions /\ UNCHANGED <<at, number, saves, overlapped>>
  BY DEF Prune
<1>2. IsFiniteSet(versions')
  BY <1>1, FS_Subset DEF VersionInv
<1>3. versions' # {} => \E n \in Numbers' : \A m \in Numbers' : n >= m
  <2> SUFFICES ASSUME versions' # {} PROVE \E n \in Numbers' : \A m \in Numbers' : n >= m
    OBVIOUS
  <2>1. PICK v \in versions : \A w \in versions : v.number >= w.number
    BY <1>1 DEF VersionInv, Numbers
  <2>2. \A w \in versions : w.number \in Nat
    BY DEF VersionInv
  <2>3. PICK vs \in Victims(keep) : versions' = versions \ vs
    BY DEF Prune
  <2>4. CASE v \in versions'
    BY <1>1, <2>1, <2>4 DEF Numbers
  <2>5. CASE v \in vs
    <3>1. PICK w \in versions' : v.number <= w.number
      BY <2>3, <2>5 DEF Victims
    <3>2. \A u \in versions' : w.number >= u.number
      BY <1>1, <2>1, <2>2, <3>1
    <3> QED
      BY <3>1, <3>2 DEF Numbers
  <2> QED
    BY <2>3, <2>4, <2>5
<1>4. VersionsDistinct'
  BY <1>1 DEF VersionInv, VersionsDistinct
<1> QED
  BY <1>1, <1>2, <1>3, <1>4 DEF VersionInv

LEMMA NumberedStep == ASSUME VersionInv, Numbered PROVE VersionInv'
<1>1. ASSUME NEW c \in Clients, Dies(c), UNCHANGED versionVars PROVE VersionInv'
  <2>1. at' \in [Clients -> Stages] /\ \A d \in Clients : at'[d] = "copy" => at[d] = "copy"
    BY <1>1, GoesType DEF Dies, VersionInv, Stages
  <2> QED
    BY <1>1, <2>1 DEF versionVars, VersionInv, VersionsDistinct, Numbers
<1> QED
  BY <1>1, ChooseNumberStep, CopyStep, PruneStep, StoreAssumption DEF Numbered

(* The content store *)

\* A client leaves, of its own or another digest, and at most removes names.
LEMMA LeavingStep ==
    ASSUME BlobInv, NEW c \in Clients, NEW s \in {"idle", "dead"}, Goes(c, s),
           UNCHANGED <<source, data, digest, fd, disturbed>>,
           blob' \in [Blobs -> Inodes \union {None}], temp' \in [Blobs -> Inodes \union {None}],
           \A b \in Blobs : blob'[b] \in {None, blob[b]} /\ temp'[b] \in {None, temp[b]},
           \A b \in Blobs : ~ (Putting(c) /\ digest[c] = b) => temp'[b] = temp[b]
    PROVE  BlobInv'
<1>1. at' \in [Clients -> Stages] /\ at'[c] = s /\ \A d \in Clients \ {c} : at'[d] = at[d]
  BY GoesType DEF BlobInv, BlobTypes, Stages
<1>2. \A d \in Clients : (Putting(d)' => Putting(d) /\ d # c) /\ (Writing(d)' => Writing(d))
  BY <1>1 DEF Putting, Writing
<1>3. BlobTypes'
  BY <1>1, <1>2 DEF BlobInv, BlobTypes
<1>4. \A b \in Blobs, i \in Inodes : Refers(b, i)' => Refers(b, i)
  BY <1>2, StoreAssumption DEF Refers
<1>5. InodesInv'
  BY <1>4 DEF BlobInv, InodesInv
<1>6. PutsInv'
  <2> SUFFICES ASSUME NEW b \in Blobs \ disturbed
               PROVE  PutInv(b)'
    BY DEF PutsInv
  <2>1. PutInv(b)
    BY DEF BlobInv, PutsInv
  <2>2. blob'[b] # None => data[blob'[b]] = b
    BY <1>2, <2>1 DEF PutInv
  <2>3. \A d \in Clients : Putting(d)' /\ digest[d] = b => at'[d] = at[d] /\ temp'[b] = temp[b]
    BY <1>1, <1>2, <2>1 DEF PutInv
  <2> QED
    BY <1>2, <2>1, <2>2, <2>3 DEF PutInv
<1> QED
  BY <1>3, <1>5, <1>6 DEF BlobInv

LEMMA HashStep == ASSUME BlobInv, NEW c \in Clients, Hash(c) PROVE BlobInv'
<1>1. at' \in [Clients -> Stages] /\ at'[c] = "hashed" /\ \A d \in Clients \ {c} : at'[d] = at[d]
  BY GoesType DEF Hash, BlobInv, BlobTypes, Stages
<1>2. /\ digest' = [digest EXCEPT ![c] = source] /\ UNCHANGED <<source, blob, temp, data, fd>> /\ at[c] = "idle"
      /\ disturbed' = IF \E d \in Clients : Putting(d) /\ digest[d] = source
                      THEN disturbed \union {source} ELSE disturbed
  BY DEF Hash
<1>3. /\ digest' \in [Clients -> Blobs \union {None}] /\ digest'[c] = source /\ source \in Blobs
      /\ \A d \in Clients \ {c} : digest'[d] = digest[d]
  BY <1>2 DEF BlobInv, BlobTypes
<1>4. /\ \A d \in Clients : Writing(d)' <=> Writing(d)
      /\ \A d \in Clients \ {c} : Putting(d)' <=> Putting(d)
      /\ ~ Writing(c)
  BY <1>1, <1>2 DEF Putting, Writing
<1>5. BlobTypes'
  BY <1>1, <1>2, <1>3, <1>4 DEF BlobInv, BlobTypes
<1>6. \A b \in Blobs, i \in Inodes : Refers(b, i)' <=> Refers(b, i)
  BY <1>2, <1>3, <1>4 DEF Refers
<1>7. InodesInv'
  BY <1>2, <1>6 DEF BlobInv, InodesInv
<1>8. PutsInv'
  <2> SUFFICES ASSUME NEW b \in Blobs \ disturbed'
               PROVE  PutInv(b)'
    BY <1>2 DEF PutsInv
  <2>1. PutInv(b)
    BY <1>2 DEF BlobInv, PutsInv
  <2>2. b = source => \A d \in Clients : ~ (Putting(d) /\ digest[d] = b)
    BY <1>2
  <2> QED
    BY <1>2, <1>1, <1>3, <1>4, <2>1, <2>2 DEF PutInv
<1> QED
  BY <1>5, <1>7, <1>8 DEF BlobInv

LEMMA OpenBlobStep == ASSUME BlobInv, NEW c \in Clients, OpenBlob(c) PROVE BlobInv'
<1> DEFINE own == digest[c]
<1>0. own \in Blobs /\ Putting(c) /\ at[c] = "hashed" /\ blob[own] = None
  BY DEF OpenBlob, Putting, BlobInv, BlobTypes
<1>1. at' \in [Clients -> Stages] /\ at'[c] = "write" /\ \A d \in Clients \ {c} : at'[d] = at[d]
  BY GoesType DEF OpenBlob, BlobInv, BlobTypes, Stages
<1>2. PICK i \in Inodes :
          /\ IF temp[own] # None THEN i = temp[own] ELSE data[i] = None
          /\ temp' = [temp EXCEPT ![own] = i] /\ data' = [data EXCEPT ![i] = "torn"]
          /\ fd' = [fd EXCEPT ![c] = i]
          /\ UNCHANGED <<blob, source, digest, disturbed>>
  BY DEF OpenBlob, OpenTemp
<1>3. /\ temp' \in [Blobs -> Inodes \union {None}] /\ temp'[own] = i /\ \A b \in Blobs \ {own} : temp'[b] = temp[b]
      /\ fd' \in [Clients -> Inodes \union {None}] /\ fd'[c] = i /\ \A d \in Clients \ {c} : fd'[d] = fd[d]
      /\ data' \in [Inodes -> Blobs \union {None, "torn"}] /\ data'[i] # None
      /\ \A j \in Inodes \ {i} : data'[j] = data[j]
  BY <1>0, <1>2, StoreAssumption DEF BlobInv, BlobTypes
<1>4. \A d \in Clients : (Putting(d)' <=> Putting(d)) /\ (d # c => (Writing(d)' <=> Writing(d)))
  BY <1>0, <1>1 DEF Putting, Writing
<1>5. BlobTypes'
  BY <1>0, <1>1, <1>2, <1>3, <1>4 DEF BlobInv, BlobTypes
<1>6. \A b \in Blobs : Refers(b, i) => b = own
  <2>1. CASE temp[own] # None
    BY <1>0, <1>2, <2>1 DEF Refers, BlobInv, InodesInv
  <2>2. CASE temp[own] = None
    BY <1>2, <2>2 DEF BlobInv, InodesInv
  <2> QED
    BY <2>1, <2>2
<1>7. \A b \in Blobs, j \in Inodes : Refers(b, j)' => Refers(b, j) \/ (b = own /\ j = i)
  BY <1>2, <1>3, <1>4 DEF Refers
<1>8. InodesInv'
  BY <1>3, <1>6, <1>7 DEF BlobInv, InodesInv
<1>9. PutsInv'
  <2> SUFFICES ASSUME NEW b \in Blobs \ disturbed
               PROVE  PutInv(b)'
    BY <1>2 DEF PutsInv
  <2>1. PutInv(b)
    BY DEF BlobInv, PutsInv
  <2>2. blob[b] # None => data'[blob[b]] = b
    <3>1. blob[b] # i
      BY <1>0, <1>6, StoreAssumption DEF Refers
    <3> QED
      BY <1>3, <2>1, <3>1 DEF BlobInv, BlobTypes, PutInv
  <2>3. ASSUME NEW d \in Clients, Putting(d), digest[d] = b
        PROVE  /\ source = b
               /\ Writing(d)' => temp'[b] = fd'[d] /\ blob[b] = None
               /\ at'[d] = "replace" => data'[fd'[d]] = b
    <3>1. CASE d = c
      BY <1>0, <1>1, <1>3, <2>1, <2>3, <3>1 DEF PutInv
    <3>2. CASE d # c
      <4>1. b # own
        BY <1>0, <2>1, <2>3, <3>2 DEF PutInv
      <4>2. Writing(d) => fd[d] # i
        BY <1>6, <2>3, <4>1 DEF Refers
      <4>3. at[d] = "replace" => Writing(d) /\ fd[d] \in Inodes
        BY DEF Writing, BlobInv, BlobTypes
      <4> QED
        BY <1>1, <1>3, <1>4, <2>1, <2>3, <3>2, <4>1, <4>2, <4>3 DEF PutInv
    <3> QED
      BY <3>1, <3>2
  <2> QED
    BY <1>2, <1>4, <2>1, <2>2, <2>3 DEF PutInv
<1> QED
  BY <1>5, <1>8, <1>9 DEF BlobInv

LEMMA WriteStep == ASSUME BlobInv, NEW c \in Clients, Write(c) PROVE BlobInv'
<1> DEFINE own == digest[c]
           i == fd[c]
<1>0. own \in Blobs /\ i \in Inodes /\ Putting(c) /\ Writing(c) /\ at[c] = "write" /\ source \in Blobs
  BY DEF Write, Putting, Writing, BlobInv, BlobTypes
<1>1. at' \in [Clients -> Stages] /\ at'[c] = "replace" /\ \A d \in Clients \ {c} : at'[d] = at[d]
  BY GoesType DEF Write, BlobInv, BlobTypes, Stages
<1>2. data' = [data EXCEPT ![i] = source] /\ UNCHANGED <<source, blob, temp, digest, fd, disturbed>>
  BY DEF Write
<1>3. /\ data' \in [Inodes -> Blobs \union {None, "torn"}] /\ data'[i] = source /\ source # None
      /\ \A j \in Inodes \ {i} : data'[j] = data[j]
  BY <1>0, <1>2, StoreAssumption DEF BlobInv, BlobTypes
<1>4. \A d \in Clients : (Putting(d)' <=> Putting(d)) /\ (Writing(d)' <=> Writing(d))
  BY <1>0, <1>1 DEF Putting, Writing
<1>5. BlobTypes'
  BY <1>1, <1>2, <1>3, <1>4 DEF BlobInv, BlobTypes
<1>6. \A b \in Blobs : Refers(b, i) => b = own
  BY <1>0 DEF Refers, BlobInv, InodesInv
<1>7. \A b \in Blobs, j \in Inodes : Refers(b, j)' <=> Refers(b, j)
  BY <1>2, <1>4 DEF Refers
<1>8. InodesInv'
  BY <1>3, <1>7 DEF BlobInv, InodesInv
<1>9. PutsInv'
  <2> SUFFICES ASSUME NEW b \in Blobs \ disturbed
               PROVE  PutInv(b)'
    BY <1>2 DEF PutsInv
  <2>1. PutInv(b)
    BY DEF BlobInv, PutsInv
  <2>2. blob[b] # None => data'[blob[b]] = b
    <3>1. blob[b] # i
      <4> SUFFICES ASSUME blob[b] = i PROVE FALSE
        OBVIOUS
      <4>1. b = own
        BY <1>6 DEF Refers
      <4> QED
        BY <1>0, <2>1, <4>1, StoreAssumption DEF PutInv
    <3> QED
      BY <1>3, <2>1, <3>1 DEF BlobInv, BlobTypes, PutInv
  <2>3. ASSUME NEW d \in Clients, Putting(d), digest[d] = b
        PROVE  /\ source = b
               /\ Writing(d)' => temp[b] = fd[d] /\ blob[b] = None
               /\ at'[d] = "replace" => data'[fd[d]] = b
    <3>1. CASE d = c
      BY <1>0, <1>3, <2>1, <2>3, <3>1 DEF PutInv
    <3>2. CASE d # c
      <4>1. b # own
        BY <1>0, <2>1, <2>3, <3>2 DEF PutInv
      <4>2. Writing(d) => fd[d] # i
        BY <1>6, <2>3, <4>1 DEF Refers
      <4>3. at[d] = "replace" => Writing(d) /\ fd[d] \in Inodes
        BY DEF Writing, BlobInv, BlobTypes
      <4> QED
        BY <1>1, <1>3, <1>4, <2>1, <2>3, <3>2, <4>2, <4>3 DEF PutInv
    <3> QED
      BY <3>1, <3>2
  <2> QED
    BY <1>2, <1>4, <2>1, <2>2, <2>3 DEF PutInv
<1> QED
  BY <1>5, <1>8, <1>9 DEF BlobInv

LEMMA EditSourceStep == ASSUME BlobInv, EditSource PROVE BlobInv'
<1>1. /\ source' \in Blobs /\ UNCHANGED <<at, blob, temp, data, digest, fd>>
      /\ disturbed' = disturbed \union {digest[c] : c \in {d \in Clients : Putting(d)}}
  BY DEF EditSource
<1>2. \A c \in Clients : (Putting(c)' <=> Putting(c)) /\ (Writing(c)' <=> Writing(c))
  BY <1>1 DEF Putting, Writing
<1>3. BlobTypes'
  BY <1>1, <1>2 DEF BlobInv, BlobTypes
<1>4. InodesInv'
  BY <1>1, <1>2 DEF BlobInv, InodesInv, Refers
<1>5. PutsInv'
  BY <1>1, <1>2 DEF BlobInv, PutsInv, PutInv
<1> QED
  BY <1>3, <1>4, <1>5 DEF BlobInv

\* The temporary file becomes the blob.
LEMMA ReplaceBlobStep == ASSUME BlobInv, NEW c \in Clients, ReplaceBlob(c) PROVE BlobInv'
<1> DEFINE own == digest[c]
<1>0. own \in Blobs /\ Putting(c) /\ Writing(c)
  BY DEF ReplaceBlob, Putting, Writing, BlobInv, BlobTypes
<1>1. CASE temp[own] = None
  BY <1>1, LeavingStep DEF ReplaceBlob, BlobInv, BlobTypes
<1>2. CASE temp[own] # None
  <2>1. at' \in [Clients -> Stages] /\ at'[c] = "idle" /\ \A d \in Clients \ {c} : at'[d] = at[d]
    BY GoesType DEF ReplaceBlob, BlobInv, BlobTypes, Stages
  <2>2. /\ blob' = [blob EXCEPT ![own] = temp[own]] /\ temp' = [temp EXCEPT ![own] = None]
        /\ UNCHANGED <<source, data, digest, fd, disturbed>> /\ at[c] = "replace"
    BY <1>2 DEF ReplaceBlob
  <2>3. /\ blob' \in [Blobs -> Inodes \union {None}] /\ blob'[own] = temp[own]
        /\ temp' \in [Blobs -> Inodes \union {None}] /\ temp'[own] = None
        /\ \A b \in Blobs \ {own} : blob'[b] = blob[b] /\ temp'[b] = temp[b]
    BY <1>0, <2>2 DEF BlobInv, BlobTypes
  <2>4. \A d \in Clients : (Putting(d)' <=> Putting(d) /\ d # c) /\ (Writing(d)' <=> Writing(d) /\ d # c)
    BY <2>1 DEF Putting, Writing
  <2>5. BlobTypes'
    BY <2>1, <2>2, <2>3, <2>4 DEF BlobInv, BlobTypes
  <2>6. \A b \in Blobs, i \in Inodes : Refers(b, i)' => Refers(b, i)
    BY <1>0, <2>2, <2>3, <2>4, StoreAssumption DEF Refers
  <2>7. InodesInv'
    BY <2>2, <2>6 DEF BlobInv, InodesInv
  <2>8. PutsInv'
    <3> SUFFICES ASSUME NEW b \in Blobs \ disturbed PROVE PutInv(b)'
      BY <2>2 DEF PutsInv
    <3>1. PutInv(b)
      BY DEF BlobInv, PutsInv
    <3>2. CASE b = own
      <4>1. data[temp[b]] = b
        BY <1>0, <2>2, <3>1, <3>2 DEF PutInv
      <4>2. \A d \in Clients : ~ (Putting(d)' /\ digest[d] = b)
        BY <1>0, <2>4, <3>1, <3>2 DEF PutInv
      <4> QED
        BY <2>2, <2>3, <3>2, <4>1, <4>2 DEF PutInv
    <3>3. CASE b # own
      BY <2>1, <2>2, <2>3, <2>4, <3>1, <3>3 DEF PutInv
    <3> QED
      BY <3>2, <3>3
  <2> QED
    BY <2>5, <2>7, <2>8 DEF BlobInv
<1> QED
  BY <1>1, <1>2

LEMMA ContentStep == ASSUME BlobInv, Content PROVE BlobInv'
<1>1. ASSUME NEW c \in Clients, Present(c) \/ (Dies(c) /\ UNCHANGED blobVars) PROVE BlobInv'
  BY <1>1, LeavingStep DEF Present, Dies, blobVars, BlobInv, BlobTypes
<1>2. ASSUME NEW c \in Clients, WriteFails(c) PROVE BlobInv'
  <2>1. digest[c] \in Blobs /\ Putting(c)
    BY <1>2 DEF WriteFails, Putting, BlobInv, BlobTypes
  <2>2. /\ temp' \in [Blobs -> Inodes \union {None}]
        /\ \A b \in Blobs : temp'[b] \in {None, temp[b]} /\ (b # digest[c] => temp'[b] = temp[b])
    BY <1>2, <2>1 DEF WriteFails, BlobInv, BlobTypes
  <2> QED
    BY <1>2, <2>1, <2>2, LeavingStep DEF WriteFails, BlobInv, BlobTypes
<1>3. ASSUME NEW c \in Clients, NEW b \in Blobs, Delete(c, b) PROVE BlobInv'
  <2>1. Goes(c, "idle")
    BY <1>3 DEF Delete, Goes, BlobInv, BlobTypes
  <2>2. blob' \in [Blobs -> Inodes \union {None}] /\ \A a \in Blobs : blob'[a] \in {None, blob[a]}
    BY <1>3 DEF Delete, BlobInv, BlobTypes
  <2> QED
    BY <1>3, <2>1, <2>2, LeavingStep DEF Delete, BlobInv, BlobTypes
<1> QED
  BY <1>1, <1>2, <1>3, EditSourceStep, HashStep, OpenBlobStep, WriteStep, ReplaceBlobStep, StoreAssumption
  DEF Content

(* The lock file *)

\* An instance takes the lock only when no open file holds it.
LEMMA LockStep == ASSUME LockInv, Lock PROVE LockInv'
<1>1. PICK c \in Clients :
          \/ Enter(c, "acquire") \/ Enter(c, "release")
          \/ AlreadyHeld(c) \/ Poll(c) \/ TimeOut(c) \/ Release(c) \/ LockCrash(c)
  BY DEF Lock
<1>2. CASE UNCHANGED <<owned, locked>>
  BY <1>2 DEF LockInv
<1>3. CASE Poll(c)
  <2>1. owned' = {Instance[c]} /\ locked' = {Instance[c]}
    BY <1>3 DEF Poll, TryLock, LockInv
  <2> QED
    BY <2>1 DEF LockInv
<1>4. CASE owned' = owned \ {Instance[c]} /\ locked' = locked \ {Instance[c]}
  <2>1. owned' = owned \/ owned' = {}
    BY <1>4 DEF LockInv
  <2> QED
    BY <1>4, <2>1 DEF LockInv
<1> QED
  BY <1>1, <1>2, <1>3, <1>4 DEF Enter, AlreadyHeld, TimeOut, Release, LockCrash

LEMMA LockOfOne == LockInv => LockExclusive
<1> SUFFICES ASSUME LockInv PROVE LockExclusive
  OBVIOUS
<1>1. CASE owned = {}
  <2>1. Cardinality(owned) = 0
    BY <1>1, FS_EmptySet
  <2> QED
    BY <2>1 DEF LockInv, LockExclusive
<1>2. CASE \E x : owned = {x}
  <2>1. Cardinality(owned) = 1
    BY <1>2, FS_Singleton
  <2> QED
    BY <2>1 DEF LockInv, LockExclusive
<1> QED
  BY <1>1, <1>2 DEF LockInv

(* The four together *)

LEMMA StoresAgree == StoresInv => StoresKeep
<1>1. TrashInv => TrashKeeps
  BY DEF TrashInv, TrashKeeps
<1>2. VersionInv => VersionsDistinct
  BY DEF VersionInv
<1>3. BlobInv => BlobsMatch
  BY DEF BlobInv, PutsInv, PutInv, BlobsMatch
<1> QED
  BY <1>1, <1>2, <1>3, LockOfOne DEF StoresInv, StoresKeep

LEMMA StoresStart == StoreInit => StoresInv
<1> SUFFICES ASSUME StoreInit PROVE StoresInv
  OBVIOUS
<1>1. at \in [Clients -> Stages] /\ \A c \in Clients : at[c] = "idle"
  BY DEF StoreInit, Stages
<1>2. TrashInv
  BY <1>1 DEF StoreInit, TrashInv
<1>3. VersionInv
  BY <1>1, FS_EmptySet DEF StoreInit, VersionInv, VersionsDistinct
<1>4. BlobInv
  <2>1. source \in Blobs
    BY StoreAssumption DEF StoreInit
  <2>2. \A c \in Clients : ~ Putting(c) /\ ~ Writing(c)
    BY <1>1 DEF Putting, Writing
  <2>3. BlobTypes
    BY <1>1, <2>1, <2>2 DEF StoreInit, BlobTypes
  <2>4. InodesInv
    BY <2>2, StoreAssumption DEF StoreInit, InodesInv, Refers
  <2>5. PutsInv
    BY <2>2 DEF StoreInit, PutsInv, PutInv
  <2> QED
    BY <2>3, <2>4, <2>5 DEF BlobInv
<1>5. LockInv
  BY DEF StoreInit, LockInv
<1>6. TrashKeeps /\ VersionsDistinct /\ BlobsMatch /\ LockExclusive
  BY <1>2, <1>3, <1>4, <1>5, LockOfOne
  DEF TrashInv, TrashKeeps, VersionInv, BlobInv, PutsInv, PutInv, BlobsMatch
<1>7. store \in {"trash", "versions", "blobs", "lock"}
  BY DEF StoreInit
<1> QED
  BY <1>2, <1>3, <1>4, <1>5, <1>6, <1>7 DEF StoresInv

LEMMA StoresStep == StoresInv /\ [StoreNext]_storeVars => StoresInv'
<1>1. UNCHANGED trashVars /\ TrashKeeps => TrashKeeps'
  BY DEF trashVars, TrashKeeps
<1>2. UNCHANGED versionVars /\ VersionsDistinct => VersionsDistinct'
  BY DEF versionVars, VersionsDistinct
<1>3. UNCHANGED blobVars /\ BlobsMatch => BlobsMatch'
  BY DEF blobVars, BlobsMatch
<1>4. UNCHANGED lockVars /\ LockExclusive => LockExclusive'
  BY DEF lockVars, LockExclusive
<1> SUFFICES ASSUME StoresInv, [StoreNext]_storeVars PROVE StoresInv'
  OBVIOUS
<1>5. CASE store = "trash" /\ Trash /\ UNCHANGED <<store, versionVars, blobVars, lockVars>>
  BY <1>2, <1>3, <1>4, <1>5, TrashStep DEF StoresInv
<1>6. CASE store = "versions" /\ Numbered /\ UNCHANGED <<store, trashVars, blobVars, lockVars>>
  BY <1>1, <1>3, <1>4, <1>6, NumberedStep DEF StoresInv
<1>7. CASE store = "blobs" /\ Content /\ UNCHANGED <<store, trashVars, versionVars, lockVars>>
  BY <1>1, <1>2, <1>4, <1>7, ContentStep DEF StoresInv
<1>8. CASE store = "lock" /\ Lock /\ UNCHANGED <<store, trashVars, versionVars, blobVars>>
  BY <1>1, <1>2, <1>3, <1>8, LockStep DEF StoresInv
<1>9. CASE UNCHANGED storeVars
  <2>1. UNCHANGED <<store, at, trashVars, versionVars, blobVars, lockVars>>
    BY <1>9 DEF storeVars
  <2>2. TrashInv => TrashInv'
    BY <2>1 DEF TrashInv, trashVars
  <2>3. VersionInv => VersionInv'
    BY <2>1 DEF VersionInv, VersionsDistinct, Numbers, versionVars
  <2>4. BlobInv => BlobInv'
    BY <2>1 DEF BlobInv, BlobTypes, InodesInv, Refers, PutsInv, PutInv, Putting, Writing, blobVars
  <2>5. LockInv => LockInv'
    BY <2>1 DEF LockInv, lockVars
  <2> QED
    BY <1>1, <1>2, <1>3, <1>4, <2>1, <2>2, <2>3, <2>4, <2>5 DEF StoresInv
<1> QED
  BY <1>5, <1>6, <1>7, <1>8, <1>9 DEF StoreNext

\* StoresKeep: for any number of clients, of places, of contents and of calls that interleave or die, no
\* restore destroys a file that was there, undisturbed versions are in order, an undisturbed blob holds
\* what its digest names, and one instance at most holds the lock.
THEOREM StoresAreKept == StoreSpec => []StoresKeep
  BY StoresStart, StoresStep, StoresAgree, PTL DEF StoreSpec

-----------------------------------------------------------------------------
(* IntegrityMonitor *)

\* What is known of file p: unless it is of a time that has passed, it has the content of today.
Known(file, p) ==
    /\ IsFile(file) /\ file.stamp <= clock
    /\ file.stamp # Unknown /\ tree[p] # Absent /\ tree[p].stamp = file.stamp => file.sum = tree[p].sum

Snapshot(files) == files = [p \in Paths |-> files[p]] /\ \A p \in Paths : Known(files[p], p)

Alerts == told \union {{}, {<<"nothing">>}, {<<"error">>}}

KindOk(kind) == kind.scope \subseteq Paths /\ (kind.does = "verify" => Snapshot(baseline))

HashFields == {"stage", "kind", "infos", "disturbed", "todo", "seen"}

RepairFields ==
    {"stage", "kind", "seen", "infos", "disturbed", "changes", "announce", "at", "half", "done", "todo"}

\* While nobody disturbs it, a pass sees what it has listed.
HashInv ==
    /\ pass = [f \in HashFields |-> pass[f]] /\ pass.stage = "hash"
    /\ KindOk(pass.kind) /\ Snapshot(pass.infos) /\ Snapshot(pass.seen)
    /\ ~ pass.disturbed =>
          /\ pass.infos = Within(tree, pass.kind.scope)
          /\ \A p \in Paths : IF p \in pass.todo THEN tree[p] # Absent /\ p \in pass.kind.scope
                                                   ELSE pass.seen[p] = pass.infos[p]

\* What it concludes is the difference; what it does not announce is known.
RepairInv ==
    /\ pass = [f \in RepairFields |-> pass[f]] /\ pass.stage = "repair"
    /\ pass.kind.scope \subseteq Paths /\ Snapshot(baseline) /\ Snapshot(pass.seen)
    /\ pass.infos = [p \in Paths |-> pass.infos[p]]
    /\ pass.changes = DetectChanges(Within(baseline, pass.kind.scope), pass.seen)
    /\ ~ pass.disturbed => pass.seen = pass.infos /\ \A p \in Paths \ pass.kind.scope : pass.infos[p] = Absent
    /\ pass.announce \/ pass.changes = {} \/ Drift(pass.changes) \in told
    /\ ~ToldAgain

TreeInv ==
    clock \in Nat /\ tree = [p \in Paths |-> tree[p]] /\ \A p \in Paths : IsFile(tree[p]) /\ tree[p].stamp <= clock

VerdictFields ==
    {"drift", "disturbed", "scope", "infos", "done", "announce", "before", "after", "failed", "again"}

\* Unless a failure was noted since, what the latest pass has found is what is remembered.
AlertsSound ==
    /\ verdict = Quiet \/ verdict = [f \in VerdictFields |-> verdict[f]]
    /\ (verdict # Quiet /\ ~verdict.failed) => announced = Drift(verdict.drift)
    /\ DriftIsTold /\ KnownStaysQuiet

MonitorInv ==
    /\ TreeInv
    /\ baseline = NoBaseline \/ Snapshot(baseline)
    /\ \A s \in reports : Snapshot(s)
    /\ pass = Idle \/ HashInv \/ RepairInv
    /\ announced \in Alerts
    /\ ReportExact /\ AlertsSound

\* Who is mentioned
LEMMA InMentioned ==
    ASSUME NEW changes, NEW p
    PROVE  p \in Mentioned(changes) <=>
               \E c \in changes : c.path = p \/ (c.kind = "renamed" /\ c.previous = p)
  BY DEF Mentioned

\* A file that both snapshots hold is mentioned when its content, its stamp or its mode differs.
LEMMA CompareMentions ==
    ASSUME NEW p, NEW before, NEW after, before # Absent, after # Absent, NEW q
    PROVE  q \in Mentioned(Compare(p, before, after)) <=> q = p /\ Truly(before, after)
<1>1. \A c \in Compare(p, before, after) : c.path = p /\ c.kind # "renamed"
  BY DEF Compare, Change
<1>2. Compare(p, before, after) # {} <=>
          ContentDiffers(before, after) \/ Differs(before, after, "stamp") \/ Differs(before, after, "mode")
  BY DEF Compare
<1>3. Truly(before, after) <=>
          ContentDiffers(before, after) \/ Differs(before, after, "stamp") \/ Differs(before, after, "mode")
  BY DEF Truly, ContentDiffers, Differs
<1> QED
  BY <1>1, <1>2, <1>3, InMentioned

\* What is gone and what is new is all mentioned, a pair that makes a rename at once.
LEMMA PairMentions ==
    ASSUME NEW before, NEW after, NEW gone, NEW new, NEW q
    PROVE  q \in Mentioned(Pair(before, after, gone, new)) <=> q \in gone \union new
<1> DEFINE left(e) == SameContent(before, gone, e)
           came(e) == SameContent(after, new, e)
           follows(g, n) == left(before[g]) = {g} /\ came(before[g]) = {n}
           renamed(g) == \E n \in new : follows(g, n)
           arrived(n) == \E g \in gone : left(after[n]) = {g} /\ came(after[n]) = {n}
           pairs == {Change("renamed", pair[2], pair[1], before[pair[1]], after[pair[2]]) :
                        pair \in {k \in gone \X new : follows(k[1], k[2])}}
           deletions == {Change("deleted", g, 0, before[g], Absent) : g \in {x \in gone : ~renamed(x)}}
           creations == {Change("created", n, 0, Absent, after[n]) : n \in {x \in new : ~arrived(x)}}
<1>1. Pair(before, after, gone, new) = pairs \union deletions \union creations
  BY DEF Pair
<1>2. \A g \in gone, n \in new : left(after[n]) = {g} /\ came(after[n]) = {n} => follows(g, n)
  BY DEF SameContent
<1>3. \A g \in gone, n \in new : follows(g, n) =>
          \E c \in pairs : c.kind = "renamed" /\ c.path = n /\ c.previous = g
  <2> TAKE g \in gone, n \in new
  <2> HAVE follows(g, n)
  <2> DEFINE k == <<g, n>>
             c == Change("renamed", k[2], k[1], before[k[1]], after[k[2]])
  <2>1. k \in gone \X new /\ k[1] = g /\ k[2] = n
    OBVIOUS
  <2>2. c \in pairs
    <3> HIDE DEF k, left, came
    <3> QED
      BY <2>1
  <2>3. c.kind = "renamed" /\ c.path = n /\ c.previous = g
    BY <2>1 DEF Change
  <2> QED
    BY <2>2, <2>3
<1>4. \A c \in pairs : c.kind = "renamed" /\ c.path \in new /\ c.previous \in gone
  BY DEF Change
<1>5. /\ \A c \in deletions : c.kind = "deleted" /\ c.path \in gone
      /\ \A g \in gone : ~ renamed(g) => \E c \in deletions : c.path = g
  <2> HIDE DEF renamed
  <2>1. \A g : Change("deleted", g, 0, before[g], Absent).kind = "deleted"
               /\ Change("deleted", g, 0, before[g], Absent).path = g
    BY DEF Change
  <2>2. \A g \in gone : ~ renamed(g) => Change("deleted", g, 0, before[g], Absent) \in deletions
    OBVIOUS
  <2> QED
    BY <2>1, <2>2
<1>6. /\ \A c \in creations : c.kind = "created" /\ c.path \in new
      /\ \A n \in new : ~ arrived(n) => \E c \in creations : c.path = n
  <2> HIDE DEF arrived
  <2>1. \A n : Change("created", n, 0, Absent, after[n]).kind = "created"
               /\ Change("created", n, 0, Absent, after[n]).path = n
    BY DEF Change
  <2>2. \A n \in new : ~ arrived(n) => Change("created", n, 0, Absent, after[n]) \in creations
    OBVIOUS
  <2> QED
    BY <2>1, <2>2
<1> HIDE DEF pairs, deletions, creations, left, came
<1>7. q \in gone => \E c \in pairs \union deletions : c.path = q \/ (c.kind = "renamed" /\ c.previous = q)
  BY <1>3, <1>5
<1>8. q \in new => \E c \in pairs \union creations : c.path = q
  BY <1>2, <1>3, <1>6
<1> QED
  BY <1>1, <1>4, <1>5, <1>6, <1>7, <1>8, InMentioned

\* DetectChanges mentions exactly the files that truly differ.
LEMMA MentionedExactly ==
    ASSUME NEW before, NEW after, DOMAIN before = Paths, DOMAIN after = Paths
    PROVE  Mentioned(DetectChanges(before, after)) = {p \in Paths : Truly(before[p], after[p])}
<1> DEFINE held(files) == {p \in DOMAIN files : files[p] # Absent}
           both == held(before) \intersect held(after)
           gone == held(before) \ held(after)
           new == held(after) \ held(before)
           kept == (UNION {Compare(p, before[p], after[p]) : p \in both})
<1>1. DetectChanges(before, after) = kept \union Pair(before, after, gone, new)
  BY DEF DetectChanges
<1>2. \A q : q \in Mentioned(kept) <=> q \in both /\ Truly(before[q], after[q])
  <2> TAKE q
  <2>1. \A c : c \in kept <=> \E p \in both : c \in Compare(p, before[p], after[p])
    OBVIOUS
  <2>2. \A p \in both : q \in Mentioned(Compare(p, before[p], after[p])) <=> q = p /\ Truly(before[p], after[p])
    BY CompareMentions
  <2> HIDE DEF kept, both
  <2>3. q \in Mentioned(kept) <=> \E p \in both : q \in Mentioned(Compare(p, before[p], after[p]))
    BY <2>1, InMentioned
  <2> QED
    BY <2>2, <2>3
<1>3. \A q : q \in Mentioned(Pair(before, after, gone, new)) <=> q \in gone \union new
  BY PairMentions
<1>4. \A q \in Paths : Truly(before[q], after[q]) <=>
          q \in gone \union new \/ (q \in both /\ Truly(before[q], after[q]))
  BY DEF Truly, Differs, Absent
<1> HIDE DEF kept
<1>5. \A q : q \in Mentioned(DetectChanges(before, after)) <=>
          q \in Mentioned(kept) \/ q \in Mentioned(Pair(before, after, gone, new))
  BY <1>1, InMentioned
<1> QED
  BY <1>2, <1>3, <1>4, <1>5
\* A file is replaced by one of this moment, changes its mode, goes, or is left alone.
FileMoves(p) ==
    \/ tree'[p] \in {tree[p], Absent}
    \/ IsFile(tree'[p]) /\ tree'[p].stamp = clock' /\ clock' > clock
    \/ IsFile(tree'[p]) /\ tree[p] # Absent /\ tree'[p].stamp = tree[p].stamp /\ tree'[p].sum = tree[p].sum

LEMMA AbsentIsFile == IsFile(Absent) /\ Absent.stamp = Unknown /\ Unknown = -1
  BY DEF IsFile, Absent, Unknown

\* Then what was known is still known.
LEMMA KnowledgeLasts ==
    ASSUME TreeInv, clock' \in Nat, clock' >= clock, tree' = [p \in Paths |-> tree'[p]], \A p \in Paths : FileMoves(p)
    PROVE  TreeInv' /\ \A files : Snapshot(files) => Snapshot(files)'
<1>1. TreeInv'
  <2>1. ASSUME NEW p \in Paths PROVE IsFile(tree'[p]) /\ tree'[p].stamp <= clock'
    <3>1. IsFile(tree[p]) /\ tree[p].stamp \in Int /\ tree[p].stamp <= clock /\ clock \in Nat
      BY DEF TreeInv, IsFile
    <3>2. FileMoves(p)
      OBVIOUS
    <3> QED
      BY <3>1, <3>2, AbsentIsFile DEF FileMoves
  <2> QED
    BY <2>1 DEF TreeInv
<1>2. ASSUME NEW file, NEW p \in Paths, Known(file, p) PROVE Known(file, p)'
  <2>1. file.stamp \in Int /\ file.stamp <= clock /\ IsFile(file) /\ clock \in Nat
    BY <1>2 DEF Known, IsFile, TreeInv
  <2>2. ASSUME file.stamp # Unknown, tree'[p] # Absent, tree'[p].stamp = file.stamp PROVE file.sum = tree'[p].sum
    <3>1. tree'[p] = tree[p] \/ (tree[p] # Absent /\ tree'[p].stamp = tree[p].stamp /\ tree'[p].sum = tree[p].sum)
      BY <2>1, <2>2 DEF FileMoves
    <3> QED
      BY <1>2, <2>2, <3>1 DEF Known
  <2> QED
    BY <2>1, <2>2 DEF Known
<1> QED
  BY <1>1, <1>2 DEF Snapshot

\* What a repair does not touch
LEMMA RepairMoves ==
    ASSUME RepairInv, NEW ok,
           StepDone(ok) \/ pass' = [pass EXCEPT !.half = TRUE] \/ pass' = [pass EXCEPT !.disturbed = TRUE]
    PROVE  /\ pass' = [f \in RepairFields |-> pass'[f]]
           /\ \A f \in RepairFields \ {"disturbed", "half", "done", "todo"} : pass'[f] = pass[f]
           /\ pass'.disturbed \in {pass.disturbed, TRUE}
<1>1. pass = [f \in RepairFields |-> pass[f]]
  BY DEF RepairInv
<1> QED
  BY <1>1 DEF StepDone, RepairFields
\* A step of a repair
LEMMA RepairStaysSound ==
    ASSUME MonitorInv, RepairInv, TreeInv', \A files : Snapshot(files) => Snapshot(files)',
           NEW ok, StepDone(ok) \/ pass' = [pass EXCEPT !.half = TRUE] \/ pass' = [pass EXCEPT !.disturbed = TRUE],
           UNCHANGED <<baseline, announced, reports, told, verdict>>
    PROVE  MonitorInv'
<1>1. /\ pass' = [f \in RepairFields |-> pass'[f]] /\ pass'.disturbed \in {pass.disturbed, TRUE}
      /\ pass'.stage = "repair" /\ pass'.kind = pass.kind /\ pass'.seen = pass.seen /\ pass'.infos = pass.infos
      /\ pass'.changes = pass.changes /\ pass'.announce = pass.announce
  <2>1. \A f \in {"stage", "kind", "seen", "infos", "changes", "announce"} : pass'[f] = pass[f]
    BY RepairMoves DEF RepairFields
  <2> QED
    BY <2>1, RepairMoves DEF RepairInv
<1>2. RepairInv'
  <2>1. Snapshot(baseline)' /\ Snapshot(pass.seen)'
    BY <1>1 DEF RepairInv
  <2>2. ~ToldAgain'
    BY <1>1 DEF RepairInv, ToldAgain
  <2> QED
    BY <1>1, <2>1, <2>2 DEF RepairInv
<1>3. (baseline = NoBaseline \/ Snapshot(baseline))' /\ (\A s \in reports : Snapshot(s))'
  BY DEF MonitorInv, NoBaseline
<1>4. (announced \in Alerts)' /\ ReportExact' /\ AlertsSound'
  BY DEF MonitorInv, Alerts, ReportExact, AlertsSound, DriftIsTold, KnownStaysQuiet
<1> QED
  BY <1>2, <1>3, <1>4 DEF MonitorInv

LEMMA RepairStep ==
    ASSUME MonitorInv, Quarantine \/ QuarantineRemove \/ Refuse \/ Restore \/ RestoreCheck
    PROVE  MonitorInv'
<1>1. RepairInv
  <2>1. pass.stage = "repair"
    BY DEF Quarantine, QuarantineRemove, Refuse, Restore, RestoreCheck, Repairing
  <2> QED
    BY <2>1 DEF MonitorInv, HashInv, Idle
<1>2. /\ UNCHANGED <<baseline, announced, reports, told, verdict>>
      /\ \E ok : StepDone(ok) \/ pass' = [pass EXCEPT !.half = TRUE]
  BY DEF Quarantine, QuarantineRemove, Refuse, Restore, RestoreCheck
<1>3. /\ clock' \in Nat /\ clock' >= clock /\ tree' = [p \in Paths |-> tree'[p]]
      /\ \A p \in Paths : FileMoves(p)
  <2>1. clock \in Nat /\ tree = [p \in Paths |-> tree[p]]
    BY DEF MonitorInv, TreeInv
  <2>2. CASE clock' = clock /\ tree' = tree
    BY <2>1, <2>2 DEF FileMoves
  <2>3. CASE clock' = clock /\ \E q : tree' = [tree EXCEPT ![q] = Absent]
    BY <2>1, <2>3 DEF FileMoves
  <2>4. CASE clock' = clock + 1 /\ \E q, c, z : tree' = [tree EXCEPT ![q] =
                 [sum |-> c, size |-> z, stamp |-> clock', mode |-> 0]]
    <3>1. PICK q, c, z : tree' = [tree EXCEPT ![q] = [sum |-> c, size |-> z, stamp |-> clock', mode |-> 0]]
      BY <2>4
    <3> DEFINE file == [sum |-> c, size |-> z, stamp |-> clock', mode |-> 0]
    <3>2. IsFile(file) /\ file.stamp = clock'
      BY <2>1, <2>4 DEF IsFile
    <3> HIDE DEF file
    <3>3. \A p \in Paths : tree'[p] = tree[p] \/ tree'[p] = file
      BY <2>1, <3>1 DEF file
    <3> QED
      BY <2>1, <2>4, <3>1, <3>2, <3>3 DEF FileMoves
  <2>5. CASE Quarantine
    BY <2>2, <2>3, <2>5 DEF Quarantine
  <2>6. CASE QuarantineRemove
    BY <2>3, <2>6 DEF QuarantineRemove
  <2>7. CASE Restore
    BY <2>2, <2>4, <2>7 DEF Restore
  <2> QED
    BY <2>2, <2>5, <2>6, <2>7 DEF Refuse, RestoreCheck
<1>4. TreeInv' /\ \A files : Snapshot(files) => Snapshot(files)'
  BY <1>3, KnowledgeLasts DEF MonitorInv
<1> QED
  BY <1>1, <1>2, <1>4, RepairStaysSound

\* A user changes the tree.
LEMMA EditStep == ASSUME MonitorInv, NEW p \in Paths, Edit(p) PROVE MonitorInv'
<1>1. clock \in Nat /\ clock' = clock + 1 /\ tree = [q \in Paths |-> tree[q]] /\ IsFile(tree[p])
  BY DEF MonitorInv, TreeInv, Edit
<1>2. tree' = [q \in Paths |-> tree'[q]] /\ \A q \in Paths : FileMoves(q)
  <2>1. CASE \E c \in Contents : tree' = [tree EXCEPT ![p] = [sum |-> c, size |-> Size[c], stamp |-> clock', mode |-> 0]]
    <3>1. PICK c \in Contents :
              tree' = [tree EXCEPT ![p] = [sum |-> c, size |-> Size[c], stamp |-> clock', mode |-> 0]]
      BY <2>1
    <3> DEFINE file == [sum |-> c, size |-> Size[c], stamp |-> clock', mode |-> 0]
    <3>2. IsFile(file) /\ file.stamp = clock'
      BY <1>1 DEF IsFile
    <3>3. tree' = [q \in Paths |-> tree'[q]] /\ \A q \in Paths : tree'[q] = tree[q] \/ tree'[q] = file
      BY <1>1, <3>1
    <3> HIDE DEF file
    <3> QED
      BY <1>1, <3>2, <3>3 DEF FileMoves
  <2>2. CASE tree' = [tree EXCEPT ![p] = Absent]
    BY <1>1, <2>2 DEF FileMoves
  <2>3. CASE tree[p] # Absent /\ tree' = [tree EXCEPT ![p].mode = 1 - @]
    <3> DEFINE file == [tree[p] EXCEPT !.mode = 1 - @]
    <3>1. IsFile(file) /\ file.stamp = tree[p].stamp /\ file.sum = tree[p].sum
      BY <1>1 DEF IsFile
    <3>2. tree' = [q \in Paths |-> tree'[q]] /\ tree'[p] = file /\ \A q \in Paths \ {p} : tree'[q] = tree[q]
      BY <1>1, <2>3
    <3> HIDE DEF file
    <3> QED
      BY <2>3, <3>1, <3>2 DEF FileMoves
  <2>4. CASE \E q \in Paths \ {p} : tree' = [tree EXCEPT ![q] = [tree[p] EXCEPT !.stamp = clock'], ![p] = Absent]
    <3> DEFINE file == [tree[p] EXCEPT !.stamp = clock']
    <3>1. IsFile(file) /\ file.stamp = clock'
      BY <1>1 DEF IsFile
    <3>2. tree' = [q \in Paths |-> tree'[q]] /\ \A q \in Paths : tree'[q] \in {tree[q], Absent} \/ tree'[q] = file
      BY <1>1, <2>4
    <3> HIDE DEF file
    <3> QED
      BY <1>1, <3>1, <3>2 DEF FileMoves
  <2> QED
    BY <2>1, <2>2, <2>3, <2>4 DEF Edit
<1>3. TreeInv' /\ \A files : Snapshot(files) => Snapshot(files)'
  BY <1>1, <1>2, KnowledgeLasts DEF MonitorInv
<1>4. UNCHANGED <<baseline, announced, reports, told, verdict>>
  BY DEF Edit
<1>5. (baseline = NoBaseline \/ Snapshot(baseline))' /\ (\A s \in reports : Snapshot(s))'
  BY <1>3, <1>4 DEF MonitorInv, NoBaseline
<1>6. (announced \in Alerts)' /\ ReportExact' /\ AlertsSound'
  BY <1>4 DEF MonitorInv, Alerts, ReportExact, AlertsSound, DriftIsTold, KnownStaysQuiet
<1>7. CASE pass = Idle
  BY <1>3, <1>5, <1>6, <1>7 DEF Edit, Disturb, Idle, MonitorInv
<1>8. CASE RepairInv
  <2>1. pass' = [pass EXCEPT !.disturbed = TRUE]
    BY <1>8 DEF Edit, Disturb, RepairInv
  <2> QED
    BY <1>3, <1>4, <1>8, <2>1, RepairStaysSound
<1>9. CASE HashInv
  <2>1. pass' = [pass EXCEPT !.disturbed = TRUE]
    BY <1>9 DEF Edit, Disturb, HashInv
  <2>2. /\ pass' = [f \in HashFields |-> pass'[f]] /\ pass'.disturbed = TRUE
        /\ pass'.stage = "hash" /\ pass'.kind = pass.kind /\ pass'.infos = pass.infos /\ pass'.seen = pass.seen
    BY <1>9, <2>1 DEF HashInv, HashFields
  <2>3. KindOk(pass.kind)' /\ Snapshot(pass.infos)' /\ Snapshot(pass.seen)'
    BY <1>3, <1>4, <1>9, <2>2 DEF HashInv, KindOk
  <2>4. HashInv'
    BY <2>2, <2>3 DEF HashInv
  <2> QED
    BY <1>3, <1>5, <1>6, <2>4 DEF MonitorInv
<1> QED
  BY <1>7, <1>8, <1>9 DEF MonitorInv
\* What has nothing to do with the tree, the pass or the alerts
LEMMA NothingMoves ==
    ASSUME MonitorInv, UNCHANGED <<tree, clock, baseline, pass, announced, reports, told, verdict>>
    PROVE  MonitorInv'
<1>1. TreeInv' /\ \A files : Snapshot(files)' <=> Snapshot(files)
  BY DEF MonitorInv, TreeInv, Snapshot, Known
<1>2. HashInv => HashInv'
  BY <1>1 DEF HashInv, KindOk, Within
<1>3. RepairInv => RepairInv'
  BY <1>1 DEF RepairInv, ToldAgain
<1> QED
  BY <1>1, <1>2, <1>3 DEF MonitorInv, Alerts, ReportExact, AlertsSound, DriftIsTold, KnownStaysQuiet, NoBaseline

\* The tree stays; so does what is known.
LEMMA TreeStays ==
    ASSUME MonitorInv, UNCHANGED <<tree, clock>>
    PROVE  TreeInv' /\ \A files : Snapshot(files) => Snapshot(files)'
  BY DEF MonitorInv, TreeInv, Snapshot, Known

LEMMA PassesAreOk == ASSUME NEW kind \in Passes PROVE kind.scope \subseteq Paths /\ (kind.does # "verify" => kind.deep)
  BY IntegrityAssumption DEF Passes

LEMMA BeginPassStep == ASSUME MonitorInv, NEW kind \in Passes, BeginPass(kind) PROVE MonitorInv'
<1>1. CASE kind.does = "verify" /\ baseline = NoBaseline
  BY <1>1, NothingMoves DEF BeginPass
<1>2. CASE ~ (kind.does = "verify" /\ baseline = NoBaseline)
  <2> DEFINE infos == Within(tree, kind.scope)
             listed == {p \in Paths : infos[p] # Absent}
             trusted == IF kind.deep THEN {} ELSE QuickMatches(infos, baseline)
             seen == [p \in Paths |-> IF p \in trusted THEN [infos[p] EXCEPT !.sum = baseline[p].sum] ELSE Absent]
  <2>1. /\ pass' = [stage |-> "hash", kind |-> kind, infos |-> infos, disturbed |-> FALSE,
                    todo |-> listed \ trusted, seen |-> seen]
        /\ UNCHANGED <<tree, clock, baseline, announced, reports, told, verdict>>
    BY <1>2 DEF BeginPass
  <2>2. TreeInv /\ TreeInv' /\ \A files : Snapshot(files) => Snapshot(files)'
    BY <2>1, TreeStays DEF MonitorInv
  <2>3. kind.scope \subseteq Paths /\ (kind.does # "verify" => kind.deep)
    BY PassesAreOk
  <2>4. infos = [p \in Paths |-> infos[p]] /\ \A p \in Paths : infos[p] = tree[p] \/ infos[p] = Absent
    BY DEF Within
  <2>5. Snapshot(infos)
    <3>1. \A p \in Paths : Known(tree[p], p) /\ Known(Absent, p)
      BY <2>2, AbsentIsFile DEF Known, TreeInv
    <3> QED
      BY <2>4, <3>1 DEF Snapshot
  <2>6. \A p \in trusted : /\ p \in Paths /\ infos[p] # Absent /\ Snapshot(baseline)
                           /\ baseline[p].sum = infos[p].sum
    <3> SUFFICES ASSUME NEW p \in trusted
                 PROVE  p \in Paths /\ infos[p] # Absent /\ Snapshot(baseline) /\ baseline[p].sum = infos[p].sum
      OBVIOUS
    <3>1. ~ kind.deep /\ p \in Paths /\ infos[p] # Absent /\ SameStamp(infos[p], baseline[p])
      BY DEF QuickMatches
    <3>2. Snapshot(baseline)
      BY <1>2, <2>3, <3>1 DEF MonitorInv
    <3>3. infos[p] = tree[p]
      BY <2>4, <3>1
    <3> HIDE DEF infos, trusted
    <3> QED
      BY <3>1, <3>2, <3>3 DEF Snapshot, Known, SameStamp
  <2>7. \A p \in Paths : seen[p] = IF p \in trusted THEN infos[p] ELSE Absent
    <3> SUFFICES ASSUME NEW p \in trusted, p \in Paths PROVE [infos[p] EXCEPT !.sum = baseline[p].sum] = infos[p]
      OBVIOUS
    <3>1. IsFile(infos[p]) /\ baseline[p].sum = infos[p].sum
      BY <2>5, <2>6 DEF Snapshot, Known
    <3> HIDE DEF infos
    <3> QED
      BY <3>1 DEF IsFile
  <2>8. Snapshot(seen)
    <3>1. seen = [p \in Paths |-> seen[p]]
      OBVIOUS
    <3>2. \A p \in Paths : Known(infos[p], p) /\ Known(Absent, p)
      BY <2>2, <2>5, AbsentIsFile DEF Snapshot, Known, TreeInv
    <3> HIDE DEF infos, seen, trusted
    <3> QED
      BY <2>7, <3>1, <3>2 DEF Snapshot
  <2>9. HashInv'
    <3> DEFINE todo == listed \ trusted
    <3>1. \A p \in Paths : IF p \in todo THEN tree[p] # Absent /\ p \in kind.scope ELSE seen[p] = infos[p]
      <4>1. \A p \in Paths : p \in listed => tree[p] # Absent /\ p \in kind.scope
        BY DEF Within
      <4>2. \A p \in Paths \ listed : infos[p] = Absent
        OBVIOUS
      <4> HIDE DEF infos, seen, trusted, listed
      <4> QED
        BY <2>6, <2>7, <4>1, <4>2
    <3>2. /\ pass' = [f \in HashFields |-> pass'[f]] /\ pass'.stage = "hash" /\ pass'.kind = kind
          /\ pass'.infos = infos /\ pass'.seen = seen /\ pass'.todo = todo
      <4> HIDE DEF infos, seen, trusted, listed
      <4> QED
        BY <2>1 DEF HashFields
    <3>3. kind.does = "verify" => Snapshot(baseline)
      BY <1>2 DEF MonitorInv
    <3>4. Within(tree, pass.kind.scope)' = infos
      BY <2>1, <3>2 DEF Within
    <3> HIDE DEF infos, seen, todo
    <3>5. KindOk(pass.kind)' /\ Snapshot(pass.infos)' /\ Snapshot(pass.seen)'
      BY <2>1, <2>2, <2>3, <2>5, <2>8, <3>2, <3>3 DEF KindOk
    <3> QED
      BY <2>1, <3>1, <3>2, <3>4, <3>5 DEF HashInv
  <2>10. (announced \in Alerts)' /\ ReportExact' /\ AlertsSound'
    BY <2>1 DEF MonitorInv, Alerts, ReportExact, AlertsSound, DriftIsTold, KnownStaysQuiet
  <2>11. (baseline = NoBaseline \/ Snapshot(baseline))' /\ (\A s \in reports : Snapshot(s))'
    BY <2>1, <2>2 DEF MonitorInv, NoBaseline
  <2> QED
    BY <2>2, <2>9, <2>10, <2>11 DEF MonitorInv
<1> QED
  BY <1>1, <1>2

LEMMA HashFileStep == ASSUME MonitorInv, NEW p \in Paths, HashFile(p) PROVE MonitorInv'
<1> DEFINE new == IF tree[p] = Absent THEN Absent ELSE [pass.infos[p] EXCEPT !.sum = tree[p].sum, !.mode = tree[p].mode]
<1>1. /\ pass' = [pass EXCEPT !.todo = @ \ {p}, !.seen[p] = new] /\ p \in pass.todo
      /\ UNCHANGED <<tree, clock, baseline, announced, reports, told, verdict>> /\ pass.stage = "hash"
  BY DEF HashFile
<1>2. TreeInv /\ TreeInv' /\ \A files : Snapshot(files) => Snapshot(files)'
  BY <1>1, TreeStays DEF MonitorInv
<1>3. HashInv
  BY <1>1 DEF MonitorInv, RepairInv, Idle
<1>4. Known(pass.infos[p], p) /\ IsFile(tree[p]) /\ Known(Absent, p)
  <2>1. Snapshot(pass.infos)
    BY <1>3 DEF HashInv
  <2>2. Known(pass.infos[p], p)
    BY <2>1 DEF Snapshot
  <2>3. IsFile(tree[p]) /\ clock \in Nat
    BY <1>2 DEF TreeInv
  <2> QED
    BY <2>2, <2>3, AbsentIsFile DEF Known
<1>5. Known(new, p)
  BY <1>4 DEF Known, IsFile
<1>6. ~ pass.disturbed => new = pass.infos[p]
  <2> SUFFICES ASSUME ~ pass.disturbed PROVE new = pass.infos[p]
    OBVIOUS
  <2>1. tree[p] # Absent /\ pass.infos[p] = tree[p]
    BY <1>1, <1>3 DEF HashInv, Within
  <2> QED
    BY <1>4, <2>1 DEF IsFile
<1> HIDE DEF new
<1>7. /\ pass' = [f \in HashFields |-> pass'[f]] /\ pass'.stage = "hash" /\ pass'.kind = pass.kind
      /\ pass'.infos = pass.infos /\ pass'.disturbed = pass.disturbed /\ pass'.todo = pass.todo \ {p}
      /\ pass'.seen = [pass.seen EXCEPT ![p] = new]
  BY <1>1, <1>3 DEF HashInv, HashFields
<1>8. Snapshot(pass'.seen)
  BY <1>3, <1>5, <1>7 DEF HashInv, Snapshot
<1>9. HashInv'
  <2>1. KindOk(pass.kind)' /\ Snapshot(pass.infos)' /\ Snapshot(pass.seen)'
    BY <1>1, <1>2, <1>3, <1>7, <1>8 DEF HashInv, KindOk
  <2>2. \A q \in Paths : pass'.seen[q] = IF q = p THEN new ELSE pass.seen[q]
    BY <1>3, <1>7 DEF HashInv, Snapshot
  <2>3. Within(tree, pass.kind.scope)' = Within(tree, pass.kind.scope)
    BY <1>1, <1>7 DEF Within
  <2>4. ~ pass'.disturbed =>
            /\ pass'.infos = Within(tree, pass.kind.scope)'
            /\ \A q \in Paths : IF q \in pass'.todo THEN tree'[q] # Absent /\ q \in pass'.kind.scope
                                                     ELSE pass'.seen[q] = pass'.infos[q]
    <3> SUFFICES ASSUME ~ pass'.disturbed
                 PROVE  /\ pass'.infos = Within(tree, pass.kind.scope)'
                        /\ \A q \in Paths : IF q \in pass'.todo THEN tree'[q] # Absent /\ q \in pass'.kind.scope
                                                                 ELSE pass'.seen[q] = pass'.infos[q]
      OBVIOUS
    <3>1. /\ pass.infos = Within(tree, pass.kind.scope) /\ new = pass.infos[p]
          /\ \A q \in Paths : IF q \in pass.todo THEN tree[q] # Absent /\ q \in pass.kind.scope
                                                  ELSE pass.seen[q] = pass.infos[q]
      BY <1>3, <1>6, <1>7 DEF HashInv
    <3>2. pass'.infos = Within(tree, pass.kind.scope)'
      BY <1>7, <2>3, <3>1
    <3>3. ASSUME NEW q \in Paths
          PROVE  IF q \in pass'.todo THEN tree'[q] # Absent /\ q \in pass'.kind.scope
                                    ELSE pass'.seen[q] = pass'.infos[q]
      BY <1>1, <1>7, <2>2, <3>1
    <3> QED
      BY <3>2, <3>3
  <2> QED
    BY <1>7, <2>1, <2>4 DEF HashInv
<1>10. (announced \in Alerts)' /\ ReportExact' /\ AlertsSound'
  BY <1>1 DEF MonitorInv, Alerts, ReportExact, AlertsSound, DriftIsTold, KnownStaysQuiet
<1>11. (baseline = NoBaseline \/ Snapshot(baseline))' /\ (\A s \in reports : Snapshot(s))'
  BY <1>1, <1>2 DEF MonitorInv, NoBaseline
<1> QED
  BY <1>2, <1>9, <1>10, <1>11 DEF MonitorInv
\* A pass fails, a baseline is stored or a report accepted, and a failure is recorded.
LEMMA RecordsStep ==
    ASSUME MonitorInv,
           BreakPass \/ StoreBaseline \/ AcceptReport \/ \E i \in DOMAIN failing : JudgeFailure(i) \/ NoteFailure(i)
    PROVE  MonitorInv'
<1>1. UNCHANGED <<tree, clock>>
  BY DEF BreakPass, StoreBaseline, AcceptReport, JudgeFailure, NoteFailure
<1>2. TreeInv' /\ \A files : Snapshot(files) => Snapshot(files)'
  BY <1>1, TreeStays
<1>3. CASE BreakPass
  <2>1. pass' = Idle /\ UNCHANGED <<baseline, announced, reports, told, verdict>>
    BY <1>3 DEF BreakPass
  <2> QED
    BY <1>2, <2>1 DEF MonitorInv, Alerts, ReportExact, AlertsSound, DriftIsTold, KnownStaysQuiet, NoBaseline
<1>4. ASSUME Snapshot(baseline'), announced' = {<<"nothing">>}, pass' = Idle, verdict' = Quiet,
             reports' = reports
      PROVE  MonitorInv'
  <2>1. Snapshot(baseline)'
    BY <1>2, <1>4
  <2>2. (announced \in Alerts)' /\ ReportExact' /\ AlertsSound' /\ (\A s \in reports : Snapshot(s))'
    BY <1>2, <1>4 DEF MonitorInv, Alerts, ReportExact, AlertsSound, DriftIsTold, KnownStaysQuiet
  <2> QED
    BY <1>2, <1>4, <2>1, <2>2 DEF MonitorInv
<1>5. CASE StoreBaseline
  <2>1. HashInv
    BY <1>5 DEF StoreBaseline, MonitorInv, RepairInv, Idle
  <2> QED
    BY <1>4, <1>5, <2>1 DEF StoreBaseline, HashInv
<1>6. CASE AcceptReport
  <2>1. pass = Idle
    BY <1>6 DEF AcceptReport, MonitorInv, HashInv, RepairInv
  <2> QED
    BY <1>4, <1>6, <2>1 DEF AcceptReport, MonitorInv
<1>7. CASE \E i \in DOMAIN failing : JudgeFailure(i)
  BY <1>7, NothingMoves DEF JudgeFailure
<1>8. CASE \E i \in DOMAIN failing : NoteFailure(i)
  <2>1. /\ announced' = {<<"error">>} /\ UNCHANGED <<tree, clock, baseline, pass, reports, told>>
        /\ verdict' = IF verdict = Quiet THEN Quiet ELSE [verdict EXCEPT !.failed = TRUE]
    BY <1>8 DEF NoteFailure
  <2>2. \A files : Snapshot(files)' <=> Snapshot(files)
    BY <2>1 DEF Snapshot, Known
  <2>3. HashInv => HashInv'
    BY <2>1, <2>2 DEF HashInv, KindOk, Within
  <2>4. IF verdict = Quiet THEN verdict' = Quiet
        ELSE /\ verdict' = [f \in VerdictFields |-> verdict'[f]] /\ verdict'.failed
             /\ \A f \in VerdictFields \ {"failed"} : verdict'[f] = verdict[f]
    BY <2>1 DEF MonitorInv, AlertsSound, VerdictFields
  <2>5. IF verdict = Quiet THEN verdict' = Quiet
        ELSE /\ verdict'.failed /\ verdict'.drift = verdict.drift /\ verdict'.disturbed = verdict.disturbed
             /\ verdict'.scope = verdict.scope /\ verdict'.infos = verdict.infos
             /\ verdict'.before = verdict.before /\ verdict'.again = verdict.again
    BY <2>4 DEF VerdictFields
  <2>6. RepairInv => RepairInv'
    BY <2>1, <2>2, <2>5 DEF RepairInv, ToldAgain
  <2>7. ReportExact'
    BY <2>5 DEF MonitorInv, ReportExact
  <2>8. AlertsSound'
    <3>1. AlertsSound
      BY DEF MonitorInv
    <3>2. DriftIsTold' /\ KnownStaysQuiet'
      <4>1. CASE verdict = Quiet
        BY <2>5, <4>1 DEF DriftIsTold, KnownStaysQuiet
      <4>2. CASE verdict # Quiet
        <5>1. verdict'.drift = verdict.drift /\ verdict'.again = verdict.again /\ told' = told
          BY <2>1, <2>5, <4>2
        <5>2. Drift(verdict.drift)' = Drift(verdict.drift)
          BY <5>1 DEF Drift
        <5>3. (verdict.drift # {} => Drift(verdict.drift) \in told) /\ ~verdict.again
          BY <3>1, <4>2 DEF AlertsSound, DriftIsTold, KnownStaysQuiet
        <5> QED
          BY <5>1, <5>2, <5>3 DEF DriftIsTold, KnownStaysQuiet
      <4> QED
        BY <4>1, <4>2
    <3>3. verdict' = Quiet \/ (verdict' = [f \in VerdictFields |-> verdict'[f]] /\ verdict'.failed)
      BY <2>4
    <3>4. (verdict = Quiet \/ verdict = [f \in VerdictFields |-> verdict[f]])'
      BY <3>3
    <3>5. ((verdict # Quiet /\ ~verdict.failed) => announced = Drift(verdict.drift))'
      BY <3>3
    <3> QED
      BY <3>2, <3>4, <3>5 DEF AlertsSound
  <2>9. (baseline = NoBaseline \/ Snapshot(baseline))' /\ (\A s \in reports : Snapshot(s))'
    BY <2>1, <2>2 DEF MonitorInv, NoBaseline
  <2>10. (pass = Idle \/ HashInv \/ RepairInv)' /\ (announced \in Alerts)'
    BY <2>1, <2>3, <2>6 DEF MonitorInv, Idle, Alerts
  <2> QED
    BY <1>2, <2>7, <2>8, <2>9, <2>10 DEF MonitorInv
<1> QED
  BY <1>3, <1>5, <1>6, <1>7, <1>8

\* A known signature that is not empty is a drift that was told.
LEMMA KnownIsTold ==
    ASSUME NEW changes, Signature(changes) \in Alerts
    PROVE  changes = {} \/ Drift(changes) \in told
<1>1. Drift(changes) = Signature(changes)
  BY DEF Drift, Signature
<1>2. Signature(changes) = {} => changes = {}
  BY DEF Signature
<1>3. \A c : <<c.kind, c.path, c.previous, c.after.sum>> \notin {<<"nothing">>, <<"error">>}
  <2> TAKE c
  <2>1. Len(<<c.kind, c.path, c.previous, c.after.sum>>) = 4 /\ Len(<<"nothing">>) = 1 /\ Len(<<"error">>) = 1
    OBVIOUS
  <2> QED
    BY <2>1
<1>4. Signature(changes) \notin {{<<"nothing">>}, {<<"error">>}}
  BY <1>3 DEF Signature
<1> QED
  BY <1>1, <1>2, <1>4 DEF Alerts

LEMMA ConcludeStep == ASSUME MonitorInv, Conclude PROVE MonitorInv'
<1> DEFINE changes == DetectChanges(Within(baseline, pass.kind.scope), pass.seen)
           announce == pass.kind.repeat \/ Signature(changes) # announced
<1>1. UNCHANGED <<tree, clock, baseline, announced, reports, told, verdict>>
  BY DEF Conclude
<1>2. TreeInv' /\ \A files : Snapshot(files) => Snapshot(files)'
  BY <1>1, TreeStays
<1>3. HashInv /\ pass.todo = {} /\ pass.kind.does = "verify"
  BY DEF Conclude, MonitorInv, RepairInv, Idle
<1>4. \E now, todo :
          pass' = [stage |-> "repair", kind |-> pass.kind, seen |-> pass.seen, infos |-> pass.infos,
                   disturbed |-> pass.disturbed, changes |-> changes, announce |-> announce,
                   at |-> now, half |-> FALSE, done |-> <<>>, todo |-> todo]
  BY DEF Conclude
<1> HIDE DEF changes, announce
<1>5. /\ pass' = [f \in RepairFields |-> pass'[f]] /\ pass'.stage = "repair" /\ pass'.kind = pass.kind
      /\ pass'.infos = pass.infos /\ pass'.seen = pass.seen /\ pass'.disturbed = pass.disturbed
      /\ pass'.changes = changes /\ pass'.announce = announce
  BY <1>4 DEF RepairFields
<1>6. announce \/ changes = {} \/ Drift(changes) \in told
  <2>1. CASE Signature(changes) = announced
    BY <2>1, KnownIsTold DEF MonitorInv
  <2>2. CASE Signature(changes) # announced
    BY <2>2 DEF announce
  <2> QED
    BY <2>1, <2>2
<1>7. (pass.announce \/ pass.changes = {} \/ Drift(pass.changes) \in told)'
  BY <1>1, <1>5, <1>6 DEF Drift
<1>8. Snapshot(baseline) /\ Snapshot(pass.seen) /\ Snapshot(pass.infos) /\ pass.kind.scope \subseteq Paths
  BY <1>3 DEF HashInv, KindOk
<1>9. ~ pass.disturbed => pass.seen = pass.infos /\ \A p \in Paths \ pass.kind.scope : pass.infos[p] = Absent
  <2> SUFFICES ASSUME ~ pass.disturbed
               PROVE  pass.seen = pass.infos /\ \A p \in Paths \ pass.kind.scope : pass.infos[p] = Absent
    OBVIOUS
  <2>1. pass.infos = Within(tree, pass.kind.scope) /\ \A p \in Paths : pass.seen[p] = pass.infos[p]
    BY <1>3 DEF HashInv
  <2>2. pass.seen = pass.infos
    BY <1>8, <2>1 DEF Snapshot
  <2> QED
    BY <2>1, <2>2 DEF Within
<1>10. RepairInv'
  <2>1. Snapshot(baseline)' /\ Snapshot(pass.seen)' /\ pass.infos = [p \in Paths |-> pass.infos[p]]
    BY <1>1, <1>2, <1>5, <1>8 DEF Snapshot
  <2>2. (pass.changes = DetectChanges(Within(baseline, pass.kind.scope), pass.seen))'
    BY <1>1, <1>5 DEF changes, Within
  <2>3. ~ToldAgain'
    <3>1. (verdict # Quiet /\ ~verdict.failed) => announced = Drift(verdict.drift)
      BY DEF MonitorInv, AlertsSound
    <3>2. announce => pass.kind.repeat \/ Drift(changes) # announced
      BY DEF announce, Drift, Signature
    <3> QED
      BY <1>1, <1>5, <3>1, <3>2 DEF ToldAgain, Drift
  <2> QED
    BY <1>5, <1>7, <1>8, <1>9, <2>1, <2>2, <2>3 DEF RepairInv
<1>11. (announced \in Alerts)' /\ ReportExact' /\ AlertsSound'
  BY <1>1 DEF MonitorInv, Alerts, ReportExact, AlertsSound, DriftIsTold, KnownStaysQuiet
<1>12. (baseline = NoBaseline \/ Snapshot(baseline))' /\ (\A s \in reports : Snapshot(s))'
  BY <1>1, <1>2 DEF MonitorInv, NoBaseline
<1> QED
  BY <1>2, <1>10, <1>11, <1>12 DEF MonitorInv

LEMMA EndPassStep == ASSUME MonitorInv, EndPass PROVE MonitorInv'
<1>1. RepairInv
  BY DEF EndPass, MonitorInv, HashInv, Idle
<1>2. /\ UNCHANGED <<tree, clock, baseline>> /\ pass' = Idle
      /\ reports' \subseteq reports \union {Merged}
      /\ announced' = Signature(pass.changes)
      /\ told' = IF pass.changes # {} /\ pass.announce THEN told \union {Drift(pass.changes)} ELSE told
      /\ verdict' = [drift |-> pass.changes, disturbed |-> pass.disturbed, scope |-> pass.kind.scope,
                     infos |-> pass.infos, done |-> pass.done, announce |-> pass.announce,
                     before |-> baseline, after |-> tree, failed |-> FALSE, again |-> ToldAgain]
  BY DEF EndPass
<1>3. TreeInv' /\ \A files : Snapshot(files) => Snapshot(files)'
  BY <1>2, TreeStays
<1>4. pass.changes = {} \/ Drift(pass.changes) \in told'
  BY <1>1, <1>2 DEF RepairInv
<1>5. AlertsSound'
  <2>1. verdict' = [f \in VerdictFields |-> verdict'[f]]
    BY <1>2 DEF VerdictFields
  <2>2. verdict'.drift = pass.changes /\ verdict'.again = ToldAgain
    BY <1>2
  <2>3. announced' = Drift(verdict.drift)'
    BY <1>2, <2>2 DEF Drift, Signature
  <2>4. DriftIsTold' /\ KnownStaysQuiet'
    BY <1>1, <1>4, <2>2 DEF DriftIsTold, KnownStaysQuiet, Drift, RepairInv
  <2> QED
    BY <2>1, <2>3, <2>4 DEF AlertsSound
<1>6. (announced \in Alerts)'
  BY <1>2, <1>4 DEF Alerts, Drift, Signature
<1>7. Snapshot(Merged)
  BY <1>1 DEF RepairInv, Snapshot, Merged
<1>8. ReportExact'
  <2> DEFINE before == Within(baseline, pass.kind.scope)
  <2> SUFFICES ASSUME ~ pass.disturbed
               PROVE  Mentioned(pass.changes) = {p \in pass.kind.scope : Truly(baseline[p], pass.infos[p])}
    BY <1>2 DEF ReportExact, Mentioned, Truly, Differs
  <2>1. /\ pass.changes = DetectChanges(before, pass.infos) /\ pass.kind.scope \subseteq Paths
        /\ DOMAIN pass.infos = Paths
        /\ \A p \in Paths \ pass.kind.scope : pass.infos[p] = Absent
    BY <1>1 DEF RepairInv
  <2>2. DOMAIN before = Paths /\ \A p \in Paths : before[p] = IF p \in pass.kind.scope THEN baseline[p] ELSE Absent
    BY DEF Within
  <2> HIDE DEF before
  <2>3. Mentioned(pass.changes) = {p \in Paths : Truly(before[p], pass.infos[p])}
    BY <2>1, <2>2, MentionedExactly
  <2>4. ~ Truly(Absent, Absent)
    BY DEF Truly, Differs
  <2> QED
    BY <2>1, <2>2, <2>3, <2>4
<1>9. (baseline = NoBaseline \/ Snapshot(baseline))' /\ (\A s \in reports : Snapshot(s))'
  <2>1. \A s \in reports' : Snapshot(s)
    BY <1>2, <1>7 DEF MonitorInv
  <2> QED
    BY <1>2, <1>3, <2>1 DEF MonitorInv, NoBaseline
<1> QED
  BY <1>2, <1>3, <1>5, <1>6, <1>8, <1>9 DEF MonitorInv

LEMMA MonitorStarts == Init => MonitorInv
<1> SUFFICES ASSUME NEW setup \in Setups,
                    tree = setup.tree,
                    baseline = (CASE setup.stored = "none" -> NoBaseline
                                  [] setup.stored = "legacy" -> FromLegacy(setup.tree)
                                  [] setup.stored = "present" -> setup.tree),
                    pass = Idle, announced = {<<"nothing">>}, reports = {}, clock = 1,
                    told = {}, verdict = Quiet
             PROVE  MonitorInv
  BY DEF Init
<1>1. /\ setup.stored \in {"none", "legacy", "present"} /\ tree = [p \in Paths |-> tree[p]]
      /\ \A p \in Paths : tree[p] # Absent => IsFile(tree[p]) /\ tree[p].stamp <= 1
  BY IntegrityAssumption
<1>2. TreeInv
  BY <1>1, AbsentIsFile DEF TreeInv
<1>3. Snapshot(tree)
  BY <1>2 DEF TreeInv, Snapshot, Known
<1>4. Snapshot(FromLegacy(tree))
  <2>1. ASSUME NEW p \in Paths PROVE Known(FromLegacy(tree)[p], p)
    <3>1. FromLegacy(tree)[p] = Absent \/ FromLegacy(tree)[p] = Bare(tree[p].sum)
      BY DEF FromLegacy
    <3>2. ASSUME NEW file, file = Absent \/ file = Bare(tree[p].sum) PROVE Known(file, p)
      BY <3>2, AbsentIsFile DEF Known, IsFile, Bare, Unknown
    <3> QED
      BY <3>1, <3>2
  <2>2. FromLegacy(tree) = [p \in Paths |-> FromLegacy(tree)[p]]
    BY DEF FromLegacy
  <2> QED
    BY <2>1, <2>2 DEF Snapshot
<1>5. baseline = NoBaseline \/ Snapshot(baseline)
  BY <1>1, <1>3, <1>4
<1> QED
  BY <1>2, <1>5 DEF MonitorInv, Alerts, ReportExact, AlertsSound, DriftIsTold, KnownStaysQuiet

\* MonitorSound: for any files, watchers, policies and setups, however often the tree changes under a pass,
\* an undisturbed pass reports exactly the files that differ, no drift it finds stays untold, and no watcher tells again what
\* the pass before it found.
THEOREM MonitorsAreSound == Spec => []MonitorSound
<1>1. MonitorInv /\ [Next]_vars => MonitorInv'
  <2> SUFFICES ASSUME MonitorInv, [Next]_vars PROVE MonitorInv'
    OBVIOUS
  <2>1. CASE UNCHANGED vars
    BY <2>1, NothingMoves DEF vars
  <2> QED
    BY <2>1, BeginPassStep, HashFileStep, EditStep, RecordsStep, ConcludeStep, RepairStep, EndPassStep DEF Next
<1>2. MonitorInv => MonitorSound
  BY DEF MonitorInv, AlertsSound, MonitorSound
<1> QED
  BY <1>1, <1>2, MonitorStarts, PTL DEF Spec
=============================================================================

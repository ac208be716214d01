----------------------------- MODULE HttpDownload -----------------------------
(* download_file of remote/http_download.py, with the progress handle it      *)
(* registers (core/progress.py): calls on one file name, one after the other, *)
(* that may fail, be cancelled from another thread or die with the process.   *)
(*                                                                            *)
(* The resource is a sequence of chunks.  The server may ignore Range and may *)
(* leave out content-length, in which case a stream that is cut looks like    *)
(* one that ended; the resource may be replaced while a .part of the old one  *)
(* lies on the disk.                                                          *)
EXTENDS Integers, Sequences, SequencesExt

CONSTANTS
    Versions,   \* the resource as it is, and as it may become: sequences of chunks
    MaxBytes,   \* max_bytes, in chunks
    MaxTries,   \* max_attempts of _open_stream
    MaxCalls, MaxFaults, \* bounds
    Chunks

NoFile == <<"absent">>

ASSUME HttpAssumption ==
    /\ Versions \in [1 .. 2 -> Seq(Chunks)] /\ "absent" \notin Chunks
    /\ MaxCalls \in Nat /\ MaxBytes \in Nat

VARIABLES
    server,     \* [honours: it honours Range, sized: it sends content-length]
    resource,   \* what the URL serves
    changed,    \* history: the resource has been replaced
    target,     \* the file file_name, or NoFile
    part,       \* file_name.part, or NoFile
    get,        \* the call of download_file in progress, or the last one, with what it found in
                \* .part, what the URL served when the call was answered, and whether that was cut
    entry,      \* the registry's entry: the call it belongs to, 0 when there is none
    status,     \* status[c]: the reporter of call c
    token,      \* the cancellation token of the current call is set
    raised,     \* history: the calls that ended in an exception
    round, faults

httpVars == <<server, resource, changed, target, part, get, entry, status, token, raised, round, faults>>

NoCall == [pc |-> "over", resume |-> FALSE, expected |-> NoFile, start |-> 0, tries |-> 0,
           body |-> <<>>, written |-> 0, result |-> "none", found |-> <<>>, asked |-> <<>>, cut |-> FALSE]

HttpInit ==
    /\ server \in [honours : BOOLEAN, sized : BOOLEAN]
    /\ resource = Versions[1]
    /\ changed = FALSE
    /\ target = NoFile
    /\ part = NoFile
    /\ get = NoCall
    /\ entry = 0
    /\ status = [c \in 1 .. MaxCalls |-> "none"]
    /\ token = FALSE
    /\ raised = {}
    /\ round = 0
    /\ faults = 0

Bytes(file) == IF file = NoFile THEN <<>> ELSE file

\* The call returns.
Return(value) == get' = [get EXCEPT !.pc = "over", !.result = value]

\* reporter.finish, and the call returns
Finish(value, s) == Return(value) /\ status' = [status EXCEPT ![round] = s]

\* Bug: what is there is written over.
WriteOver(resume) == <<>>

\* What the opened file holds: it is truncated unless there is something to go on from.
OpenedWith(resume) == IF resume THEN Bytes(part) ELSE <<>>

\* _resume_layout: what there is to go on from
ResumeLayout(resume) == IF resume THEN Bytes(part) ELSE <<>>

\* download_file, of an accepted URL
Begin(resume, expected) ==
    /\ get.pc = "over" /\ round < MaxCalls
    /\ round' = round + 1
    /\ get' = [NoCall EXCEPT !.pc = "open", !.resume = resume, !.expected = expected,
                           !.start = Len(ResumeLayout(resume)), !.found = ResumeLayout(resume)]
    /\ token' = FALSE
    /\ UNCHANGED <<server, resource, changed, target, part, entry, status, raised, faults>>

\* _open_stream: a transient error is tried again, up to MaxTries attempts.
OpenFails ==
    /\ get.pc = "open" /\ faults < MaxFaults
    /\ faults' = faults + 1
    /\ IF get.tries + 1 < MaxTries THEN get' = [get EXCEPT !.tries = @ + 1] ELSE Return("false")
    /\ UNCHANGED <<server, resource, changed, target, part, entry, status, token, raised, round>>

\* Nothing left to send from this byte on: 416, which raise_for_status turns into an error.
Unsatisfiable == server.honours /\ get.start > 0 /\ get.start >= Len(resource)

OpenRefused ==
    /\ get.pc = "open" /\ Unsatisfiable
    /\ Return("false")
    /\ UNCHANGED <<server, resource, changed, target, part, entry, status, token, raised, round, faults>>

\* What the server sends: the rest, or all of it if it ignores Range
Served(text) == IF server.honours THEN SubSeq(text, get.start + 1, Len(text)) ELSE text

TotalSize == get.start + IF server.sized THEN Len(Served(resource)) ELSE 0

\* _reject_oversize
Oversize ==
    /\ get.pc = "open" /\ ~Unsatisfiable /\ TotalSize > MaxBytes
    /\ Return("false")
    /\ UNCHANGED <<server, resource, changed, target, part, entry, status, token, raised, round, faults>>

\* The file is opened in the directory of the target.
Store(content) ==
    IF get.resume THEN part' = content /\ UNCHANGED target ELSE target' = content /\ UNCHANGED part

\* _make_reporter, and the file is opened
Open ==
    /\ get.pc = "open" /\ ~Unsatisfiable /\ TotalSize <= MaxBytes
    /\ get' = [get EXCEPT !.pc = "stream", !.body = Served(resource), !.written = get.start,
                         !.asked = resource]
    /\ Store(OpenedWith(get.resume))
    /\ entry' = round
    /\ status' = [status EXCEPT ![round] = "running"]
    /\ UNCHANGED <<server, resource, changed, token, raised, round, faults>>

\* ... or it cannot be opened.
Unopened ==
    /\ get.pc = "open" /\ ~Unsatisfiable /\ TotalSize <= MaxBytes /\ faults < MaxFaults
    /\ faults' = faults + 1
    /\ entry' = round
    /\ Finish("false", "error")
    /\ UNCHANGED <<server, resource, changed, target, part, token, raised, round>>

\* _stream_to_disk, one chunk: cancelled, too long, or written
Chunk ==
    /\ get.pc = "stream" /\ get.body # <<>>
    /\ \/ token /\ Finish("false", "cancelled") /\ UNCHANGED <<target, part>>
       \/ /\ ~token /\ get.written + 1 > MaxBytes
          /\ Finish("false", "aborted") /\ UNCHANGED <<target, part>>
       \/ /\ ~token /\ get.written + 1 <= MaxBytes
          /\ get' = [get EXCEPT !.body = Tail(@), !.written = @ + 1]
          /\ Store(Append(Bytes(IF get.resume THEN part ELSE target), Head(get.body)))
          /\ UNCHANGED status
    /\ UNCHANGED <<server, resource, changed, entry, token, raised, round, faults>>

\* _run_stream: the connection or the disk fails.
Break ==
    /\ get.pc = "stream" /\ faults < MaxFaults
    /\ faults' = faults + 1
    /\ Finish("false", "error")
    /\ UNCHANGED <<server, resource, changed, target, part, entry, token, raised, round>>

\* The connection is lost in an answer without content-length: the iteration just ends.
CutShort ==
    /\ get.pc = "stream" /\ get.body # <<>> /\ ~server.sized /\ faults < MaxFaults
    /\ faults' = faults + 1
    /\ get' = [get EXCEPT !.body = <<>>, !.cut = TRUE]
    /\ UNCHANGED <<server, resource, changed, target, part, entry, status, token, raised, round>>

StreamEnds ==
    /\ get.pc = "stream" /\ get.body = <<>>
    /\ get' = [get EXCEPT !.pc = IF get.resume THEN "replace" ELSE "verify"]
    /\ UNCHANGED <<server, resource, changed, target, part, entry, status, token, raised, round, faults>>

\* os.replace
Replace ==
    /\ get.pc = "replace"
    /\ target' = part
    /\ part' = NoFile
    /\ get' = [get EXCEPT !.pc = "verify"]
    /\ UNCHANGED <<server, resource, changed, entry, status, token, raised, round, faults>>

\* _verify_and_finalize: a file with the wrong checksum is removed, if the system lets it.
Verify ==
    /\ get.pc = "verify"
    /\ IF get.expected # NoFile /\ target # get.expected
       THEN target' \in {NoFile, target} /\ Finish("false", "checksum_failed")
       ELSE UNCHANGED target /\ Finish("true", "done")
    /\ UNCHANGED <<server, resource, changed, part, entry, token, raised, round, faults>>

\* os.replace and verify_checksum are outside every try: the call ends, its reporter does not.
LandingRaises ==
    /\ get.pc = "replace" \/ (get.pc = "verify" /\ get.expected # NoFile)
    /\ faults < MaxFaults
    /\ faults' = faults + 1
    /\ Return("raised")
    /\ raised' = raised \union {round}
    /\ UNCHANGED <<server, resource, changed, target, part, entry, status, token, round>>

-----------------------------------------------------------------------------
(* Around the call *)

\* The process dies, and the registry with it.
Crash ==
    /\ get.pc # "over" /\ faults < MaxFaults
    /\ faults' = faults + 1
    /\ Return("dead")
    /\ entry' = 0
    /\ status' = [c \in 1 .. MaxCalls |-> "none"]
    /\ raised' = {}
    /\ UNCHANGED <<server, resource, changed, target, part, token, round>>

\* The resource is replaced.
Moves ==
    /\ ~changed
    /\ resource' = Versions[2]
    /\ changed' = TRUE
    /\ UNCHANGED <<server, target, part, get, entry, status, token, raised, round, faults>>

\* ProgressRegistry.cancel of the entry: it may belong to a call that is over.
Cancel ==
    /\ entry # 0 /\ entry = round /\ ~token
    /\ token' = TRUE
    /\ UNCHANGED <<server, resource, changed, target, part, get, entry, status, raised, round, faults>>

\* clear_finished: the entry's reporter has a finished_at.
ClearFinished == entry # 0 /\ status[entry] # "running"

ProgressClear ==
    /\ ClearFinished
    /\ entry' = 0
    /\ UNCHANGED <<server, resource, changed, target, part, get, status, token, raised, round, faults>>

HttpNext ==
    \/ \E r \in BOOLEAN, e \in {NoFile, Versions[1]} : Begin(r, e)
    \/ OpenFails \/ OpenRefused \/ Oversize \/ Open \/ Unopened \/ Chunk \/ Break \/ CutShort
    \/ StreamEnds \/ Replace \/ Verify \/ LandingRaises \/ Crash \/ Moves \/ Cancel \/ ProgressClear

-----------------------------------------------------------------------------

\* What the call set out to leave: what it found, and after it what it was sent
Whole == get.found \o Served(get.asked)

\* What was found is the beginning of what the URL serves, and the server sent the rest.
Continued == get.found = <<>> \/ (server.honours /\ IsPrefix(get.found, get.asked))

\* "continue where it stopped", with any server, resource and fault: True is answered for what was
\* found followed by what was sent, and with a checksum for the expected content only.  That is the
\* resource, unless an answer without content-length was cut or the .part was of something else (the
\* server ignored Range, the resource was replaced): without a checksum True is answered then as well.
\* A call that is interrupted keeps what it found, and adds only what was sent next.
DownloadExact ==
    get.pc = "over" =>
        /\ get.result = "true" =>
               /\ get.expected # NoFile => target = get.expected
               /\ IsPrefix(target, Whole)
               /\ ~get.cut => target = Whole
               /\ ~get.cut /\ Continued => target = get.asked
        /\ get.resume /\ part # NoFile => IsPrefix(get.found, part) /\ IsPrefix(part, Whole)

\* "so it can be polled or cancelled": a download is in the registry under its name as long as
\* it runs, and its reporter ends with the call, as the call did.  Only the reporter of a call that
\* ended in an exception of os.replace or of the checksum (http_download.py:240-243) goes on running.
HandleFollows ==
    /\ get.pc \in {"stream", "replace", "verify"} => entry = round /\ status[round] = "running"
    /\ get.pc = "over" /\ get.result = "true" => status[round] = "done"
    /\ get.pc = "over" => \A c \in 1 .. MaxCalls : status[c] = "running" <=> c \in raised

\* A download is what was asked for, and can be followed and cancelled as long as it runs.
DownloadSound == DownloadExact /\ HandleFollows
=============================================================================

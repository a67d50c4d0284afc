---------------------------- MODULE Descriptors ----------------------------
(***************************************************************************)
(* What file handles promise: every process has a map from small numbers   *)
(* to open objects, which are opened devices and the two ends of pipes.    *)
(* Processes share objects through fork and dup, and pipes carry bytes     *)
(* from their write end to their read end in order.                        *)
(***************************************************************************)
EXTENDS Naturals, Sequences

CONSTANTS
  Procs,       \* processes
  Handles,     \* handle numbers
  Registry,    \* device names, in the order of their numbers
  Serials,     \* numbers that tell openings of a device apart
  PipeSize,    \* bytes a pipe holds
  Chunks,      \* byte sequences that are written
  Nothing      \* no object

VARIABLES
  view,        \* view[p][h]: the object behind handle h of process p
  made,        \* objects opened so far
  content,     \* content[i]: the bytes in pipe i
  got          \* what the latest step has read

vars == <<view, made, content, got>>

Init ==
  /\ view = [p \in Procs |-> [h \in Handles |-> Nothing]]
  /\ made = {}
  /\ content = <<>> /\ got = <<>>

Lesser(m, n) == IF m < n THEN m ELSE n

Free(p) == {h \in Handles : view[p][h] = Nothing}

Lowest(p, h) == h \in Free(p) /\ \A g \in Free(p) : h <= g

(* No other process's handles change.                                      *)
Only(p) == view' = [view EXCEPT ![p] = view'[p]]

(* The lowest free handle becomes an object that nobody has.               *)
Open(p, h, object) ==
  /\ object \notin made /\ made' = made \cup {object}
  /\ view'[p] = [view[p] EXCEPT ![h] = object]

(* Two handles become the ends of a new, empty pipe.                       *)
Pipe(p, r, w) ==
  LET i == Len(content) + 1
  IN  /\ content' = Append(content, <<>>)
      /\ made' = made \cup {<<"read", i>>, <<"write", i>>}
      /\ view'[p] = [view[p] EXCEPT ![r] = <<"read", i>>, ![w] = <<"write", i>>]

Close(p, h) == view'[p] = [view[p] EXCEPT ![h] = Nothing]

Dup(p, h, t) ==
  /\ view[p][h] # Nothing
  /\ view'[p] = [view[p] EXCEPT ![t] = view[p][h]]

(* The child p has what its parent q has.                                  *)
Fork(q, p) ==
  /\ Free(p) = Handles
  /\ view'[p] = view[q]

(* A prefix of the chunk goes into the pipe, as far as there is room.      *)
Write(p, h, i, chunk) ==
  /\ view[p][h] = <<"write", i>>
  /\ content' = [content EXCEPT ![i] =
                   @ \o SubSeq(chunk, 1, Lesser(Len(chunk), PipeSize - Len(@)))]

(* The oldest bytes leave the pipe, and are what is read.                  *)
Read(p, h, i, n) ==
  LET count == Lesser(n, Len(content[i]))
  IN  /\ view[p][h] = <<"read", i>>
      /\ got' = SubSeq(content[i], 1, count)
      /\ content' = [content EXCEPT ![i] = SubSeq(@, count + 1, Len(@))]

(* The device ZERO has as many zeros as are read.                          *)
ReadZeros(p, h, n) ==
  /\ \E i \in Serials : view[p][h] = <<"device", "ZERO", i>>
  /\ got' = [k \in 1 .. n |-> "0"]
  /\ UNCHANGED content

(* Asked, a pipe tells how many bytes are in it, a device its number; the  *)
(* answer is counted in zeros.                                             *)
Ask(p, h) ==
  /\ UNCHANGED content
  /\ \E n \in 0 .. PipeSize \cup DOMAIN Registry :
       /\ got' = [k \in 1 .. n |-> "0"]
       /\ \/ \E i \in DOMAIN content : view[p][h] = <<"read", i>> /\ n = Len(content[i])
          \/ n \in DOMAIN Registry /\ \E i \in Serials : view[p][h] = <<"device", Registry[n], i>>

(* Bytes move through handles.                                             *)
Transfer(p, h) ==
  \/ got' = <<>> /\ \E i \in DOMAIN content, chunk \in Chunks : Write(p, h, i, chunk)
  \/ \E n \in 1 .. PipeSize :
       (\E i \in DOMAIN content : Read(p, h, i, n)) \/ ReadZeros(p, h, n)
  \/ Ask(p, h)

(* The handles of a process change among objects there are.                *)
Rearrange(p) ==
  \/ \E h \in Handles : Close(p, h) \/ \E t \in Handles : Dup(p, h, t)
  \/ \E q \in Procs : Fork(q, p)

(* Objects are opened at the lowest free handles.                          *)
OpenDevice(p) ==
  \E h \in Handles, k \in DOMAIN Registry, i \in Serials :
    Lowest(p, h) /\ Open(p, h, <<"device", Registry[k], i>>)

MakePipe(p) ==
  \E r, w \in Handles :
    /\ Lowest(p, r) /\ w \in Free(p) \ {r} /\ \A g \in Free(p) \ {r} : w <= g
    /\ Pipe(p, r, w)

Next ==
  \/ UNCHANGED <<view, made>> /\ \E p \in Procs, h \in Handles : Transfer(p, h)
  \/ /\ got' = <<>>
     /\ \E p \in Procs :
          /\ Only(p)
          /\ \/ UNCHANGED <<made, content>> /\ Rearrange(p)
             \/ UNCHANGED content /\ OpenDevice(p)
             \/ MakePipe(p)

Spec == Init /\ [][Next]_vars

----------------------------------------------------------------------------
(* Where an implementation may stop: of the first so many handles at most  *)
(* one is free, or some handle is open.                                    *)
NearlyFull(p, most) == \A g, h \in Free(p) \cap 0 .. most - 1 : g = h

HasOpen(p) == Free(p) # Handles
=============================================================================

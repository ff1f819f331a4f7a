----------------------------- MODULE MCAdmission -----------------------------
(***************************************************************************)
(* Admission for TLC: the Pods, annotations and specs that tell its cases  *)
(* apart.  Two caches, paths over the segments a, a-b and c.               *)
(***************************************************************************)
EXTENDS Admission, TLC

CONSTANTS c1, c2

A == <<97>>
AB == <<97, 45, 98>>
C == <<99>>
Abs(segments) == [abs |-> TRUE, segments |-> segments]

\* A good spec of each mode, one of the local mode with a token, and one spec per
\* rule of the validator.
Local == [csi |-> TRUE, size |-> "positive", repo |-> TRUE,
          secret |-> "absent", quantity |-> "missing"]
Shared == [Local EXCEPT !.csi = FALSE, !.secret = "both", !.quantity = "positive"]
MCSpecs ==
  {Local, Shared, [Local EXCEPT !.secret = "both"],
   [Shared EXCEPT !.size = "missing"], [Local EXCEPT !.size = "malformed"],
   [Shared EXCEPT !.size = "zero"], [Local EXCEPT !.repo = FALSE],
   [Shared EXCEPT !.secret = "nameOnly"], [Shared EXCEPT !.secret = "keyOnly"],
   [Shared EXCEPT !.quantity = "malformed"], [Shared EXCEPT !.quantity = "zero"]}

Bare(containers) ==
  [annotated |-> FALSE, mounts |-> <<>>, target |-> Omitted, label |-> FALSE,
   volumes |-> {}, waits |-> {}, containers |-> containers]
Main(mounts) == [name |-> "main", mounts |-> mounts]
Side(mounts) == [name |-> "side", mounts |-> mounts]

\* Two containers; none; a mount of the user's at /a; a volume of the user's with
\* Praesto's name, and one that Praesto would have added.
MCBases ==
  LET taken(kind) == {[name |-> 0, kind |-> kind, cache |-> c1]}
      pods == Bare(<<Main(<<>>), Side(<<>>)>>)
  IN  {pods, Bare(<<>>),
       Bare(<<Main(<<[volume |-> -1, path |-> Abs(<<A>>), readOnly |-> FALSE]>>)>>),
       [pods EXCEPT !.volumes = taken("other")], [pods EXCEPT !.volumes = taken("csi")]}

Ask(mounts, target) == [annotated |-> TRUE, mounts |-> mounts, target |-> target]
For(c, path) == [cache |-> c, path |-> path]

\* No annotation and an empty one; one mount, in every container and on every
\* kind of path; two that are apart, equal once cleaned, and nested; three of which
\* two are nested, with the third sorted between them, after them and before them.
MCRequests ==
  LET none == [Ask(<<>>, Omitted) EXCEPT !.annotated = FALSE]
      a(c) == For(c, Abs(<<A>>))
      ab(c) == For(c, Abs(<<AB>>))
      ac(c) == For(c, Abs(<<A, C>>))
      aa(c) == For(c, Abs(<<A, <<>>, Dot>>))
      bad == {[abs |-> FALSE, segments |-> <<A>>], Abs(<<A, DotDot, C>>), Abs(<<<<>>>>)}
  IN  {none, Ask(<<>>, Omitted), Ask(<<For(NoName, Abs(<<A>>))>>, Omitted)}
        \cup {Ask(<<a(c1)>>, t) : t \in {Omitted, Blank, "main", "side", "nobody"}}
        \cup {Ask(<<For(c1, path)>>, Omitted) : path \in bad}
        \cup {Ask(<<aa(c2)>>, Omitted), Ask(<<ac(c1)>>, Omitted)}
        \cup {Ask(<<a(c1), x>>, Omitted) : x \in {aa(c2), ab(c2), ac(c2)}}
        \cup {Ask(<<ab(c2), a(c1)>>, Omitted)}
        \cup {Ask(<<ac(c1), a(c2), x>>, Omitted) :
                x \in {ab(c1), For(c1, Abs(<<C>>))}}
        \cup {Ask(<<For(c1, Abs(<<C, A>>)), a(c2), For(c1, Abs(<<C>>))>>, Omitted)}
=============================================================================

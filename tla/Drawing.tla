------------------------------ MODULE Drawing ------------------------------
(***************************************************************************)
(* The binary format of "draw" events (db/event/schema.rs): a whiteboard   *)
(* drawing is sent as JSON, compacted, stored, and turned back into JSON,  *)
(* which a client may edit and send again, any number of times.            *)
(*                                                                         *)
(* A number is its value in hundredths: n is the float nearest to n / 100. *)
(* The fields both formats copy are one value, `copied`; the ones only the *)
(* general format copies (text, image, circle, line) are another, `shape`. *)
(* An Option is a sequence of at most one element.                         *)
(***************************************************************************)
EXTENDS Integers, Sequences, FiniteSets

CONSTANTS
  Drawings,   \* the drawings clients make
  I32MAX,     \* i32::MAX and u32::MAX; numbers are only compared with them
  U32MAX

\* The fields of EventSchema that are told apart; a path is an Option.
Part == [label : STRING, c : Seq(Int)]

DrawingOK(d) ==
  /\ DOMAIN d = {"kind", "copied", "shadow", "shape", "no_scale_cache", "num", "path"}
  /\ d.path \in Seq(Seq(Part)) /\ Len(d.path) <= 1

ASSUME DrawingAssumption ==
  I32MAX \in Nat /\ U32MAX \in Nat /\ \A d \in Drawings : DrawingOK(d)

VARIABLES
  original,   \* history: the drawing as it was first sent
  drawing,    \* the drawing as the client has it
  stored,     \* binary_data, an Option
  reply       \* the answer to the last event.create, "none" before it

vars == <<original, drawing, stored, reply>>

None == <<>>
Some(v) == <<v>>

Kind == {"path", "image", "rect", "circle", "textbox", "WhiteboardLine", "triangle",
         "WhiteboardArrowLine", "WhiteboardCircle", "activeSelection", "line"}

NumField == {"top", "left", "height", "width", "angle", "skew_x", "skew_y",
             "stroke_dash_offset"}

U16MAX == 65535
U8MAX == 255

-----------------------------------------------------------------------------
(* Numbers: trunc(f * 100.0) in f32 arithmetic, and its conversions. *)

\* a / b rounded to an integer, a tie to the even one
RoundEven(a, b) ==
  LET q == a \div b
      r == a % b
  IN IF 2 * r > b \/ (2 * r = b /\ q % 2 = 1) THEN q + 1 ELSE q

\* f32 has 24 bits: n / 100 = m / 2^k with m of 24 bits.
Exponent(n) ==
  CHOOSE k \in 0..30 :
    /\ 2^k * n >= 100 * 2^23
    /\ 2^k <= (100 * 2^24 - 1) \div n

\* The product's 24 bits leave 6 or 7 of m * 100 out; trunc drops a fraction.
Times100(n) ==
  IF n = 0 THEN 0 ELSE
    LET a == IF n < 0 THEN -n ELSE n
        k == Exponent(a)
        product == 100 * RoundEven(a * 2^k, 100)
        ulp == IF product < 2^30 THEN 64 ELSE 128
        t == (RoundEven(product, ulp) * ulp) \div 2^k
    IN IF n < 0 THEN -t ELSE t

\* f32tu32, f32tu16, f32tu8: `as u64` turns a negative number into 0.
f32tu(n, max) ==
  LET h == Times100(n)
      u == IF h < 0 THEN 0 ELSE h
  IN IF u < max THEN Some(u) ELSE None

f32ti32(n) ==
  LET h == Times100(n) IN IF h < I32MAX /\ h > -I32MAX - 1 THEN Some(h) ELSE None

\* `as i16` keeps the low 16 bits.
AsI16(h) == ((h + 2^15) % 2^16) - 2^15

\* The bounds are i32's.
f32ti16(n) ==
  LET h == Times100(n) IN IF h < I32MAX /\ h > -I32MAX - 1 THEN Some(AsI16(h)) ELSE None

\* The field's conversion in CompactPathEvent::try_from_event
Compacted(field, n) ==
  CASE field \in {"top", "left"} -> f32ti32(n)
    [] field \in {"height", "width"} -> f32tu(n, U32MAX)
    [] field = "angle" -> f32tu(n, U16MAX)
    [] field \in {"skew_x", "skew_y"} -> f32ti16(n)
    [] field = "stroke_dash_offset" -> f32tu(n, U8MAX)

\* Faulty variant: no field is divided by 100 again.
ExpandedRaw(field, v) == 100 * v

\* The field's conversion in CompactPathEvent::into_event: the others are divided
\* by 100 again.
Expanded(field, v) == IF field = "stroke_dash_offset" THEN 100 * v ELSE v

-----------------------------------------------------------------------------
(* Paths: a sequence of parts, each a label and its coordinates x, y, ... *)

\* The coordinates a part of each label has.
Arity == [M |-> 2, L |-> 2, Q |-> 4, z |-> 0]

\* The axis of a part's j-th coordinate
Axis(j) == IF j % 2 = 1 THEN "x" ELSE "y"

Coordinates(path, axis) ==
  UNION {{path[i].c[j] : j \in {j \in DOMAIN path[i].c : Axis(j) = axis}} : i \in DOMAIN path}

MinOf(S) == CHOOSE a \in S : \A b \in S : a <= b
MaxOf(S) == CHOOSE a \in S : \A b \in S : a >= b

\* The smallest coordinate and the length of an axis; no part uses them if there
\* is no coordinate.
Extent(path, axis) ==
  LET S == Coordinates(path, axis)
  IN IF S = {} THEN [min |-> 0, length |-> 0]
               ELSE [min |-> MinOf(S), length |-> MaxOf(S) - MinOf(S)]

\* None for an unknown label or a missing coordinate; more coordinates than the
\* label has are ignored.
decode_path(path) ==
  IF \A i \in DOMAIN path :
       path[i].label \in DOMAIN Arity /\ Len(path[i].c) >= Arity[path[i].label]
  THEN Some([i \in DOMAIN path |->
               [path[i] EXCEPT !.c = SubSeq(@, 1, Arity[path[i].label])]])
  ELSE None

\* Faulty variant: the nearest step of the box, not the one below.
normNearest(x, e, short) ==
  IF e.length = 0 THEN 0 ELSE (10000 * (x - e.min) + e.length \div 2) \div e.length

\* trunc((x - min) / length * 10000): 0 / 0 is NaN, which `as u64` turns into 0.
\* short: f64 arithmetic came out below a whole number.
norm(x, e, short) ==
  IF e.length = 0 THEN 0
  ELSE LET d == 10000 * (x - e.min)
       IN (d \div e.length) - (IF short THEN 1 ELSE 0)

\* short: the coordinates, with their axis, whose quotient comes out below.
CompactPart(part, extent, short) ==
  [part EXCEPT !.c = [j \in DOMAIN part.c |->
     norm(part.c[j], extent[Axis(j)], <<Axis(j), part.c[j]>> \in short)]]

\* No quotient reaches u16::MAX.  min_x and min_y become f32, off by no more than
\* a sixteenth of a hundredth, `off`, when they are below 2^19 hundredths.
compress_path(path, short, off) ==
  LET decoded == decode_path(path)
  IN IF decoded = None THEN None
     ELSE LET extent == [x |-> Extent(decoded[1], "x"), y |-> Extent(decoded[1], "y")]
          IN Some([parts |-> [i \in DOMAIN decoded[1] |-> CompactPart(decoded[1][i], extent, short)],
                   extent |-> extent, off |-> off])

\* Faulty variant: the quotient stands for 16 bits.
denormU16(k, e, off) == e.min + (k * e.length) \div U16MAX

\* min + k / 10000 * length, then two_decimal_places: the nearest hundredth, a tie
\* away from zero
denorm(k, e, off) ==
  LET t == 625 * off + k * e.length
      up == IF e.min + t \div 10000 >= 0 THEN 5000 ELSE 4999
  IN e.min + (t + up) \div 10000

\* decompress_path and path_to_json
decompress_path(p) ==
  [i \in DOMAIN p.parts |->
     [p.parts[i] EXCEPT !.c = [j \in DOMAIN p.parts[i].c |->
        denorm(p.parts[i].c[j], p.extent[Axis(j)], p.off[Axis(j)])]]]

-----------------------------------------------------------------------------
(* The two formats. *)

\* CompactPathEvent::try_from_event, in the order of its fields; the fields in
\* `shape` are left out.
try_from_event(d, short, off) ==
  LET num == [f \in NumField |-> Compacted(f, d.num[f])]
      path == IF d.path = None THEN None ELSE compress_path(d.path[1], short, off)
  IN CASE \E f \in NumField : num[f] = None -> [error |-> "LosingPrecision"]
       [] d.path = None -> [error |-> "MissingPath"]
       [] d.path # None /\ path = None -> [error |-> "LosingPrecision"]
       [] OTHER -> [error |-> "none", format |-> "Path",
                    kind |-> d.kind, copied |-> d.copied, shadow |-> d.shadow,
                    no_scale_cache |-> IF d.no_scale_cache = None THEN TRUE ELSE d.no_scale_cache[1],
                    num |-> [f \in NumField |-> num[f][1]], path |-> path[1]]

\* CompactEventSchema::from_event: everything is copied, a path part by part.
from_event(d) == [error |-> "none", format |-> "Other", event |-> d]

\* json_as_str reads a missing field and a null alike.
Deserialized(d) == [d EXCEPT !.shadow = IF @ = "missing" THEN "null" ELSE @]

\* CompactEvent::from_json: what is no EventSchema is an error.
from_json(d, short, off) ==
  IF d.kind \notin Kind THEN [error |-> "NoSchema"]
  ELSE IF d.kind = "path" THEN try_from_event(Deserialized(d), short, off)
                          ELSE from_event(Deserialized(d))

\* CompactEvent::into_json
into_json(s) ==
  IF s.format = "Other" THEN s.event
  ELSE [kind |-> s.kind, copied |-> s.copied, shadow |-> s.shadow, shape |-> None,
        no_scale_cache |-> Some(s.no_scale_cache),
        num |-> [f \in NumField |-> Expanded(f, s.num[f])],
        path |-> Some(decompress_path(s.path))]

-----------------------------------------------------------------------------
Init ==
  /\ original \in Drawings
  /\ drawing = original
  /\ stored = None
  /\ reply = "none"

\* The path that compress_path works on, empty if it does not come to that.
PathOf(d) ==
  LET decoded == IF d.path = None THEN None ELSE decode_path(d.path[1])
  IN IF d.kind # "path" \/ decoded = None THEN <<>> ELSE decoded[1]

\* The coordinates where f64 arithmetic may come out below a whole number; 0 and 1
\* are exact.
Inexact(d) ==
  UNION {LET e == Extent(PathOf(d), a)
         IN {<<a, x>> : x \in {x \in Coordinates(PathOf(d), a) \ {e.min, e.min + e.length} :
               (10000 * (x - e.min)) % e.length = 0}} : a \in {"x", "y"}}

\* How far f32 may take min_x and min_y; quarters are exact.
Offs(d) ==
  {off \in [{"x", "y"} -> {-1, 0, 1}] :
     \A a \in {"x", "y"} : Extent(PathOf(d), a).min % 25 = 0 => off[a] = 0}

\* event.create of a persistent "draw" event: InsertQuery::new compacts it.
Save ==
  /\ stored = None
  /\ reply \in {"none", "ok"}
  /\ \E short \in SUBSET Inexact(drawing), off \in Offs(drawing) :
       LET s == from_json(drawing, short, off)
       IN IF s.error = "none"
          THEN stored' = Some(s) /\ reply' = "ok"
          ELSE UNCHANGED stored /\ reply' = "InvalidEvent"
  /\ UNCHANGED <<original, drawing>>

\* The row is read (RawObject into Object), and the client has the drawing.
Load ==
  /\ stored # None
  /\ drawing' = into_json(stored[1])
  /\ stored' = None
  /\ UNCHANGED <<original, reply>>

Next == Save \/ Load

Spec == Init /\ [][Next]_vars

-----------------------------------------------------------------------------
\* The Rust type of each field of CompactPathEvent
FieldType(f) ==
  CASE f \in {"top", "left"} -> -I32MAX - 1 .. I32MAX
    [] f \in {"height", "width"} -> 0..U32MAX
    [] f = "angle" -> 0..U16MAX
    [] f \in {"skew_x", "skew_y"} -> -2^15 .. 2^15 - 1
    [] f = "stroke_dash_offset" -> 0..U8MAX

\* What is stored fits the types it is stored in.
Fits ==
  (stored # None /\ stored[1].format = "Path") =>
    /\ \A f \in NumField : stored[1].num[f] \in FieldType(f)
    /\ \A i \in DOMAIN stored[1].path.parts :
         \A j \in DOMAIN stored[1].path.parts[i].c :
           stored[1].path.parts[i].c[j] \in 0..U16MAX

\* How far a number may be from n, in hundredths, for any number of round trips:
\* each loses a hundredth where f32 arithmetic comes out below a whole number, and
\* there are at most four such numbers in a row.
Drift == 4

Near(a, b) == a - b <= Drift /\ b - a <= Drift

\* The numbers of a drawing, stored and read any number of times, stay where they
\* were up to Drift: the ones of either sign of top and left, and the ones that fit
\* the unsigned or 16-bit fields of the path format.
NumbersKept ==
  /\ Fits
  /\ \A f \in NumField \ {"stroke_dash_offset"} :
       LET n == original.num[f]
       IN \/ Near(drawing.num[f], n)
          \/ f \notin {"top", "left"} /\ n < 0
          \/ f \in {"skew_x", "skew_y"} /\ n >= 2^15

\* A path comes back with the parts it had and its bounding box does not move; a
\* path of less than 43.75 by 43.75 comes back as it was.
PathKept ==
  original.kind = "path" /\ PathOf(original) # <<>> =>
    /\ Len(PathOf(drawing)) = Len(PathOf(original))
    /\ \A a \in {"x", "y"} : Extent(PathOf(drawing), a) = Extent(PathOf(original), a)
    /\ (\A a \in {"x", "y"} : Extent(PathOf(original), a).length < 4375)
         => PathOf(drawing) = PathOf(original)

\* The shape of a drawing survives, whatever its size and however often it is stored:
\* that of a stroke up to the grid its points are put on, and the fields the two formats
\* share; any other drawing comes back as it was sent, its missing shadow as null.
ShapeKept ==
  /\ PathKept
  /\ original.kind # "path" => Deserialized(drawing) = Deserialized(original)
  /\ drawing.copied = original.copied

\* Storing a drawing over and over comes to rest: every round trip takes a point of
\* a stroke towards the corner of its box or leaves it where it is, never back and
\* forth between two places.
DriftsOneWay ==
  [][LET p == PathOf(drawing)
         q == PathOf(drawing')
     IN \A i \in DOMAIN p : \A j \in DOMAIN p[i].c : q[i].c[j] <= p[i].c[j]]_drawing

-----------------------------------------------------------------------------
(* The inductive invariant behind ShapeKept and DriftsOneWay. *)

\* What is stored is the client's drawing, compacted.
StoredFrom(d) ==
  stored # None =>
    \E short \in SUBSET Inexact(d), off \in Offs(d) :
      /\ from_json(d, short, off).error = "none"
      /\ stored = Some(from_json(d, short, off))

ShapeInv ==
  /\ DrawingOK(original) /\ DrawingOK(drawing)
  /\ drawing.kind = original.kind
  /\ StoredFrom(drawing)
  /\ ShapeKept
=============================================================================

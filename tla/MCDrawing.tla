----------------------------- MODULE MCDrawing -----------------------------
(* Instances of Drawing for TLC. *)
EXTENDS Drawing

\* A path of three points with a bend at (x, y), its box at (left, top).
Stroke(left, top, x, y, width, height) ==
  <<[label |-> "M", c |-> <<left, top>>],
    [label |-> "Q", c |-> <<left + x, top + y, left + width, top + height>>],
    [label |-> "L", c |-> <<left + (y % (width + 1)), top>>],
    [label |-> "z", c |-> <<>>]>>

Plain ==
  [kind |-> "path", copied |-> "c1", shadow |-> "missing", shape |-> Some("s1"),
   no_scale_cache |-> None, num |-> [f \in NumField |-> 0],
   path |-> Some(Stroke(-50, 0, 1, 2, 7, 7))]

Numbers ==
  [f \in NumField |->
     CASE f \in {"top", "left"} -> (-130..1000) \cup {99999, 100000, 100001}
       [] f = "height" -> {-1, 2, 53, 212, 199999, 200000}
       [] f = "width" -> {-1, 2, 53, 212, 199999, 200000}
       [] f = "angle" -> (-2..240) \cup (65530..65540)
       [] f \in {"skew_x", "skew_y"} -> (-500..-400) \cup (32760..32775)
       [] OTHER -> 0..260]

\* Small boxes, whose paths stay as they are, and large ones, whose points move;
\* where every quotient is a whole number, only close to the box's corner.
Paths ==
  {Stroke(l, t, x, y, w, 4374) : l \in {-655, 4711}, t \in {0, 53}, x \in {1, 58, 96},
     y \in {0, 1, 2, 3, 29, 57, 58, 100, 433, 2187, 4373}, w \in {97, 1600, 4374}}
  \cup {Stroke(-655, 53, x, y, w, h) : x \in 1..3, y \in {2, 4}, w \in {10000, 25000}, h \in {4374, 15000}}
  \cup {Stroke(-655, 53, 1234, 4321, 12347, 54321), Stroke(7, 7, 0, 0, 0, 0)}

Malformed ==
  {<<>>, <<[label |-> "z", c |-> <<>>]>>, <<[label |-> "C", c |-> <<1, 2>>]>>,
   <<[label |-> "M", c |-> <<1>>]>>, <<[label |-> "L", c |-> <<1, 2, 3>>]>>}

MCDrawings ==
  UNION {{[Plain EXCEPT !.num[f] = n] : n \in Numbers[f]} : f \in NumField}
  \cup {[Plain EXCEPT !.path = Some(p)] : p \in Paths \cup Malformed}
  \cup {[Plain EXCEPT !.path = None], [Plain EXCEPT !.kind = "ellipse"]}
  \cup {[Plain EXCEPT !.kind = k, !.shadow = s, !.num["stroke_dash_offset"] = n] :
          k \in {"rect", "textbox"}, s \in {"null", "json"}, n \in {-5, 212}}
=============================================================================

----------------------------- MODULE GpuRaster -----------------------------
(***************************************************************************)
(* Coverage and texel addressing of the reference rasterizer: which pixels  *)
(* of a surface Rasterizer::RasterizeTriangle shades for a triangle, and    *)
(* which texel of a swizzled texture TextureSampler reads.                  *)
(*                                                                         *)
(* Vertices are in the 28.4 fixed-point coordinates the code converts them  *)
(* to; colours, depth and blending are left out.                            *)
(***************************************************************************)
EXTENDS Integers, Sequences

CONSTANTS
    Screen,       \* the surface is Screen pixels wide and high
    Grid,         \* the vertex coordinates tried, in sixteenths of a pixel
    TextureSizes, \* the texture widths and heights tried
    Scissors      \* the scissor rectangles tried: <<x, y, width, height>>

VARIABLES
    quad,         \* the corners a, b, c, d: triangles abc and abd share ab
    scissor,      \* state.scissor, or <<>> when it is disabled
    texture,      \* the dimensions of the texture
    shaded,       \* how often each pixel was shaded
    todo          \* triangles of the draw still to be rasterised

rasterVars == <<quad, scissor, texture, shaded, todo>>

Square == (0..(Screen - 1)) \X (0..(Screen - 1))
Centre(p) == <<16 * p[1] + 8, 16 * p[2] + 8>>

\* Twice the signed area of u, v, w: delta_fixed, and the edge functions e_bc,
\* e_ca and e_ab with the pixel centre for w.
Edge(u, v, w) == (v[1] - u[1]) * (w[2] - u[2]) - (v[2] - u[2]) * (w[1] - u[1])

\* Mutant: every edge counts as a top-left edge.
TopLeftAlways(u, v) == TRUE

\* The top-left rule: horizontal and pointing right, or going up.
TopLeft(u, v) == (v[2] = u[2] /\ v[1] > u[1]) \/ v[2] < u[2]

Passes(u, v, p) ==
    IF TopLeft(u, v) THEN Edge(u, v, Centre(p)) >= 0 ELSE Edge(u, v, Centre(p)) > 0

Floor16(x) == x \div 16
Ceil16(x) == -((-x) \div 16)
Lowest(t, i) == CHOOSE x \in {t[k][i] : k \in 1..3} : \A k \in 1..3 : x <= t[k][i]
Highest(t, i) == CHOOSE x \in {t[k][i] : k \in 1..3} : \A k \in 1..3 : x >= t[k][i]

\* The bounding box of the triangle, cut to the surface and to the scissor.
InBounds(t, p) ==
    /\ \A i \in 1..2 : Floor16(Lowest(t, i)) <= p[i] /\ p[i] <= Ceil16(Highest(t, i))
    /\ scissor = <<>> \/ \A i \in 1..2 : /\ scissor[i] <= p[i]
                                         /\ p[i] <= scissor[i] + scissor[i + 2] - 1

\* RasterizeTriangle: winding is normalised, degenerate triangles are dropped.
Covered(a, b, c) ==
    LET t == IF Edge(a, b, c) < 0 THEN <<a, c, b>> ELSE <<a, b, c>>
    IN  IF Edge(a, b, c) = 0 THEN {}
        ELSE {p \in Square : /\ InBounds(t, p)
                             /\ Passes(t[2], t[3], p)
                             /\ Passes(t[3], t[1], p)
                             /\ Passes(t[1], t[2], p)}

\* The loop of Nv2a3dContext::Draw over the triangles of a draw.
RasterizeTriangle ==
    /\ todo # <<>>
    /\ LET hit == Covered(quad[1], quad[2], quad[Head(todo)])
       IN  shaded' = [p \in Square |-> IF p \in hit THEN shaded[p] + 1 ELSE shaded[p]]
    /\ todo' = Tail(todo)
    /\ UNCHANGED <<quad, scissor, texture>>

\* Bit i of x.
Bit(x, i) == (x \div 2^i) % 2

\* The number of halvings that bring a dimension down to one.
Log2Floor(n) == CHOOSE k \in 0..n : 2^k <= n /\ n < 2^(k + 1)

\* ComputeSwizzleOffset: the bits of x and y alternate while both dimensions
\* have bits left; then those of the larger one follow.
ComputeSwizzleOffset(x, y, width, height) ==
    LET w == Log2Floor(width)
        h == Log2Floor(height)
        less(i, n) == IF i < n THEN i ELSE n
        \* the bit position of bit i of x, and of bit i of y
        atX(i) == i + less(i, h)
        atY(i) == i + less(i + 1, w)
        xs[i \in 0..w] == IF i = 0 THEN 0 ELSE xs[i - 1] + Bit(x, i - 1) * 2^atX(i - 1)
        ys[i \in 0..h] == IF i = 0 THEN 0 ELSE ys[i - 1] + Bit(y, i - 1) * 2^atY(i - 1)
    IN  xs[w] + ys[h]

Points == Grid \X Grid
QuadStart == << <<0, 0>>, <<0, 0>>, <<0, 0>>, <<0, 0>> >>

\* The third and the fourth corner lie on opposite sides of the edge from the first
\* to the second, which the two triangles share.
OppositeSides(q) ==
    LET s == Edge(q[1], q[2], q[3])
        o == Edge(q[1], q[2], q[4])
    IN  (s > 0 /\ o < 0) \/ (s < 0 /\ o > 0)

\* A draw of two triangles, and a texture: every two that share an edge with the
\* smallest texture, any two on one diagonal with a scissor, every texture with one quad.
RasterInit ==
    /\ \/ /\ quad \in {q \in Points \X Points \X Points \X Points : OppositeSides(q)}
          /\ texture = <<1, 1>> /\ scissor = <<>>
       \/ /\ quad \in {q \in Points \X Points \X Points \X Points :
                         q[1] = <<0, 0>> /\ q[2] = <<24, 24>>}
          /\ texture = <<1, 1>> /\ scissor \in Scissors
       \/ /\ quad = QuadStart
          /\ texture \in TextureSizes \X TextureSizes /\ scissor = <<>>
    /\ shaded = [p \in Square |-> 0]
    /\ todo = <<3, 4>>

RasterSpec == RasterInit /\ [][RasterizeTriangle]_rasterVars

-----------------------------------------------------------------------------
(* Properties.                                                              *)

InScissor(p) ==
    scissor = <<>> \/ \A i \in 1..2 : scissor[i] <= p[i] /\ p[i] < scissor[i] + scissor[i + 2]

Between(x, u, v) == (u <= x /\ x <= v) \/ (v <= x /\ x <= u)

\* A centre on the open segment from u to v.
OnEdge(p, u, v) ==
    LET c == Centre(p)
    IN  /\ Edge(u, v, c) = 0 /\ c # u /\ c # v
        /\ Between(c[1], u[1], v[1]) /\ Between(c[2], u[2], v[2])

\* Two triangles that meet in an edge leave neither a seam nor a pixel shaded
\* twice: with c and d on opposite sides of ab, no pixel is shaded by both, and
\* a pixel whose centre lies on the edge is shaded by one of them, in either
\* winding and within any scissor (RasterizeTriangle's top-left rule).
SharedEdgeDrawnOnce ==
    (todo = <<>> /\ OppositeSides(quad)) =>
        \A p \in Square :
          /\ shaded[p] <= 1
          /\ ~InScissor(p) => shaded[p] = 0
          /\ (InScissor(p) /\ OnEdge(p, quad[1], quad[2])) => shaded[p] = 1

IsPowerOfTwo(n) == n = 2^Log2Floor(n)

\* A swizzled texel lies in the range ValidateStage checked, for every size it
\* accepts, and two texels share an address only in a texture whose dimensions
\* are not powers of two (ComputeSwizzleOffset).
SwizzleStaysInTexture ==
    LET Texels == (0..(texture[1] - 1)) \X (0..(texture[2] - 1))
        At(t)  == ComputeSwizzleOffset(t[1], t[2], texture[1], texture[2])
    IN  quad = QuadStart =>
          /\ \A t \in Texels : At(t) < texture[1] * texture[2]
          /\ (IsPowerOfTwo(texture[1]) /\ IsPowerOfTwo(texture[2])) =>
               \A t, u \in Texels : At(t) = At(u) => t = u

\* What a draw touches it touches once: a pixel on a shared edge, and the address of a
\* swizzled texel.
DrawnAndFetchedOnce == SharedEdgeDrawnOnce /\ SwizzleStaysInTexture
=============================================================================

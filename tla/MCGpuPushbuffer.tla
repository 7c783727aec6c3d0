-------------------------- MODULE MCGpuPushbuffer --------------------------
(***************************************************************************)
(* GpuPushbuffer on a surface of 3 by 1 pixels with thirteen pushbuffers.  *)
(***************************************************************************)
EXTENDS GpuPushbuffer

Packet(first, vals) == [op |-> "Method", first |-> first, same |-> FALSE, vals |-> vals]
Repeat(first, vals) == [op |-> "Method", first |-> first, same |-> TRUE, vals |-> vals]
Jump(target) == [op |-> "Jump", target |-> target]

\* Clears and shows a frame.
ShowFrame == << Packet(kMethodClearColor, <<"grey", 1>>), Packet(kMethodFlip, <<0>>) >>
\* A rectangle in one packet, then one that moves it out of the surface with
\* the methods in the order of their offsets.
RectThenTooWide ==
    << Packet(kMethodRectX, <<0, 0, 2, 1, "red", 1>>),
       Packet(kMethodRectX, <<2, 0, 2, 1, "blue", 1>>) >>
\* Moves the rectangle, and draws it in a packet of its own.
MoveRect == << Packet(kMethodRectX, <<1>>), Repeat(kMethodRectDraw, <<1, 1>>) >>
\* A rectangle, a method that does not exist, a packet no one decodes.
SetThenUnknown ==
    << Packet(kMethodRectColor, <<"green", 1, 1>>), [op |-> "Unknown"] >>
\* Triangles, with vertices and texture where the guest put them.
Scene(vertices, texture) ==
    << Packet(kMethod3dVertexOffset, <<vertices>>), Packet(kMethod3dVertexFormat, <<"float3">>),
       Packet(kMethod3dTextureOffset, <<texture>>),
       Packet(kMethod3dTextureSize, <<"4x4">>), Packet(kMethod3dTextureControl, <<"enabled">>),
       Packet(kMethod3dDrawArrays, <<3>>), Packet(kMethodFlip, <<0>>) >>
SetFormat == << Packet(kMethod3dTextureFormat, <<"rgba">>),
                Packet(kMethod3dBeginEnd, <<"TriangleStrip">>),
                Packet(kMethod3dIndexFormat, <<"index16">>) >>
Vertices3 == << Packet(kMethod3dVertexOffset, <<"mapped">>), Packet(kMethod3dVertexFormat, <<"float3">>) >>
DrawMore == Vertices3 \o << Repeat(kMethod3dDrawElements16, <<4>>),
                            Packet(kMethod3dDrawElements32, <<3, 5>>) >>
\* Triangles after triangles, to the end of the vertex budget and past it.
DrawOn == Vertices3 \o [i \in 1..3 |-> Packet(kMethod3dDrawArrays, <<6>>)]
\* A loop, which comes to its jump a second time while there are words left, and a
\* jump that leaves the buffer.
JumpBack == << Packet(kMethodSetObject, <<"Synthetic2D">>), Jump(1), Packet(kMethodRectX, <<0, 0, 1>>) >>
Skip == << Jump(3), Packet(kMethodSetObject, <<"NoSuchClass">>) >>

MCBuffers ==
    {ShowFrame, RectThenTooWide, MoveRect, SetThenUnknown, SetFormat, DrawMore, DrawOn,
     JumpBack, Skip}
    \cup {Scene("mapped", "mapped"), Scene("mapped", "partlyMapped"), Scene("unmapped", "mapped"),
          Scene("beyond4G", "mapped")}

MCLimits == [words |-> 40, packets |-> 20, methods |-> 30, jumps |-> 3, vertices |-> 6,
             triangles |-> 6]
=============================================================================

------------------------------ MODULE MCDecoder ------------------------------
\* Two chunked frames, the lines between them, and one line of each faulty kind.
EXTENDS Decoder

Obj(type, variant, fields, odd) ==
  [type |-> type, variant |-> variant, fields |-> fields, odd |-> odd]

\* Frames, two of them of a later omp, and objects that lack what their type needs.
Agent == Obj("agent_start", "", {}, {})
Reply == Obj("response", "", {"id", "command", "success"}, {"data"})
Later == Obj("extension_ui_request", "pick_color", {"id"}, {})
Event == Obj("message_update", "video_end", {"assistantMessageEvent", "message"}, {"contentIndex"})
NoTitle == Obj("extension_ui_request", "select", {"id", "options"}, {"title"})
BadReply == Obj("response", "", {"command", "success"}, {"id"})
Half == NotAnObject

Plain(size, text) == [size |-> size, text |-> text, chunk |-> NoChunk]

Chunk(id, index, count, declared, data, text) ==
  [size |-> 2, text |-> text,
   chunk |-> [wellFormed |-> TRUE, id |-> id, index |-> index, count |-> count,
              declared |-> declared, data |-> data]]

\* Frames at the limit and below, and lines that feed or decode_frame refuses.
MCPlain == {Plain(5, Agent), Plain(2, Reply), Plain(6, Agent), Plain(2, Later),
            Plain(2, NoTitle), Plain(2, BadReply), Plain(1, Half)}

\* Frame a in two chunks, frame b in three, with good and bad endings.
MCChunk == {Chunk("a", 0, 2, 5, 3, Half), Chunk("a", 1, 2, 5, 2, Agent),
            Chunk("a", 1, 2, 5, 1, Agent),   Chunk("a", 1, 2, 5, 2, BadReply),
            Chunk("b", 1, 2, 5, 2, Agent),   Chunk("b", 0, 3, 7, 3, Half),
            Chunk("b", 1, 3, 7, 3, Half), Chunk("b", 2, 3, 7, 1, Event),
            Chunk("b", 2, 3, 7, 2, Agent),   Chunk("b", 0, 3, 5, 3, Half),
            Chunk("b", 1, 3, 5, 3, Half)}

\* Chunks over a limit.
MCFaulty == {Chunk("a", 0, 4, 5, 2, Agent), Chunk("a", 0, 2, 8, 2, Agent),
             Chunk("a", 0, 2, 4, 2, Agent), Chunk("a", 1, 2, 5, 4, Agent)}

MCLine == MCPlain \cup MCChunk \cup MCFaulty
=============================================================================

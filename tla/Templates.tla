----------------------------- MODULE Templates -----------------------------
(***************************************************************************)
(* The templatizer: how templatizer::page cuts a mapped template into      *)
(* chunks, and how the chunks put a page together from buffers, without    *)
(* copying.  Text is abstracted to its length and to where it comes from.  *)
(*                                                                         *)
(* A template is what the regular expression of page::load makes of it: a  *)
(* sequence of items in the order of the text, each either text between    *)
(* two matches, ${cmd arg} ("full") or $arg ("short", with an empty cmd).  *)
(***************************************************************************)
EXTENDS Naturals, Sequences, SequencesExt

NoText == ""

Text(len)           == [is |-> "text",  cmd |-> NoText, arg |-> NoText, len |-> len]
Full(cmd, arg, len) == [is |-> "full",  cmd |-> cmd,    arg |-> arg,    len |-> len]
Short(arg, len)     == [is |-> "short", cmd |-> NoText, arg |-> arg,    len |-> len]

\* Text lies between matches: there is some, and no other text next to it.
Words == STRING \cup {NoText}
Item  == [is : {"text"}, cmd : {NoText}, arg : {NoText}, len : Nat \ {0}]
         \cup [is : {"full"}, cmd : STRING \ {NoText}, arg : Words, len : Nat \ {0}]
         \cup [is : {"short"}, cmd : {NoText}, arg : STRING, len : Nat \ {0}]
IsTemplate(src) == /\ src \in Seq(Item)
                   /\ \A i \in 2..Len(src) : src[i - 1].is = "text" => src[i].is # "text"

\* The lengths of a sequence of items, chunks or buffers, added up.
Length(s) ==
    LET total[i \in 0..Len(s)] == IF i = 0 THEN 0 ELSE total[i - 1] + s[i].len
    IN  total[Len(s)]

\* The modules that register themselves with default_module_registrar.
Commands == {"var", "toupper", "tolower", "time", "date", "debug"}
\* module_registrar::module, which throws for any other command.
HasModule(command) == command \in Commands
\* The commands that ask the model.
Asking   == {"var", "toupper", "tolower", "debug"}

-----------------------------------------------------------------------------
(* page::load *)

\* A raw chunk lies in the mapping, from pos on.
Raw(pos, len)         == [cmd |-> "raw", arg |-> NoText, pos |-> pos, len |-> len]
ModuleChunk(cmd, arg) == [cmd |-> cmd, arg |-> arg, pos |-> 0, len |-> 0]

\* The regular expression matches what is no text.
IsMatch(src, i)  == src[i].is # "text"
Position(src, i) == Length(SubSeq(src, 1, i - 1))

\* Once round the loop, from what is loaded so far.
LoadMatch(src, so_far, i) ==
    LET item    == src[i]
        pos     == Position(src, i)
        command == IF item.cmd = NoText THEN "var" ELSE item.cmd
        raw     == IF pos >= so_far.old_pos THEN <<Raw(so_far.old_pos, pos - so_far.old_pos)>>
                                            ELSE <<>>
    IN  IF so_far.state # "ok" THEN so_far
        ELSE IF ~HasModule(command) THEN [so_far EXCEPT !.state = "parse_error"]
        ELSE [state   |-> "ok",
              old_pos |-> IF raw = <<>> THEN so_far.old_pos ELSE pos + item.len,
              chunks  |-> so_far.chunks \o raw \o <<ModuleChunk(command, item.arg)>>]

\* The loop: what is loaded after the matches among the first i items.
NothingLoaded == [state |-> "ok", old_pos |-> 0, chunks |-> <<>>]
LoadMatches(src) ==
    LET so_far[i \in 0..Len(src)] ==
            IF i = 0 THEN NothingLoaded
            ELSE IF IsMatch(src, i) THEN LoadMatch(src, so_far[i - 1], i) ELSE so_far[i - 1]
    IN  so_far

\* Mutant of LoadTail: the last raw chunk is forgotten.
LoadTail_forgotten(src, loaded) == loaded.chunks

\* "Remember to index the last raw chunk".
LoadTail(src, loaded) ==
    IF loaded.old_pos < Length(src)
    THEN Append(loaded.chunks, Raw(loaded.old_pos, Length(src) - loaded.old_pos))
    ELSE loaded.chunks

\* The page, or that it cannot be parsed.  An empty file has no chunks.
Load(src) ==
    LET loaded == LoadMatches(src)[Len(src)]
    IN  [state  |-> loaded.state,
         chunks |-> IF loaded.state = "ok" THEN LoadTail(src, loaded) ELSE <<>>]

-----------------------------------------------------------------------------
(* page::generate *)

\* A buffer: who owns the bytes, what they show, and how many they are.
Buffer(owner, shows, len) == [owner |-> owner, shows |-> shows, len |-> len]

\* model::variable throws for a name it has not.
Generates(chunk, model) == chunk.cmd \in Asking => chunk.arg \in DOMAIN model

\* The chunks: each generates its buffers.  The value of a variable, whichever
\* owns it ...
Value(owner, chunk, model) == <<Buffer(owner, <<chunk.cmd, chunk.arg, 0>>, model[chunk.arg])>>
Part(owner, chunk, k, len) == Buffer(owner, <<chunk.cmd, chunk.arg, k>>, len)

raw_chunk(chunk)        == <<Buffer("object", <<"raw", NoText, chunk.pos>>, chunk.len)>>
var_chunk(chunk, model) == Value("model", chunk, model)

\* Mutant of toupper_chunk: the changed copy is not cached.
toupper_chunk_temporary(chunk, model) == Value("temporary", chunk, model)

\* ... a changed copy of it, in the strings cache ...
toupper_chunk(chunk, model) == Value("strings", chunk, model)
tolower_chunk(chunk, model) == Value("strings", chunk, model)
\* ... the clock ...
time_chunk(chunk) == <<Part("strings", chunk, 0, 5)>>
date_chunk(chunk) == <<Part("strings", chunk, 0, 10)>>
\* ... and "DEBUG (length = " and the like, which are temporary strings; the
\* length it shows has one digit, as the values here are short.
debug_chunk(chunk, model) ==
    <<Part("temporary", chunk, 1, 16), Part("strings", chunk, 2, 1),
      Part("temporary", chunk, 3, 4), Part("model", chunk, 4, model[chunk.arg]),
      Part("temporary", chunk, 5, 1)>>

\* chunk::generate.
Generate(chunk, model) ==
    CASE chunk.cmd = "raw"     -> raw_chunk(chunk)
      [] chunk.cmd = "var"     -> var_chunk(chunk, model)
      [] chunk.cmd = "toupper" -> toupper_chunk(chunk, model)
      [] chunk.cmd = "tolower" -> tolower_chunk(chunk, model)
      [] chunk.cmd = "time"    -> time_chunk(chunk)
      [] chunk.cmd = "date"    -> date_chunk(chunk)
      [] chunk.cmd = "debug"   -> debug_chunk(chunk, model)

\* page::generate, for a model that has all variables.
GeneratePage(chunks, model) ==
    FlattenSeq([i \in DOMAIN chunks |-> Generate(chunks[i], model)])

-----------------------------------------------------------------------------
(* What a page should show, read off the template. *)

RenderedItem(src, i, model) ==
    LET item == src[i]
        cmd  == IF item.is = "short" THEN "var" ELSE item.cmd
        Shown(k, len) == [shows |-> <<cmd, item.arg, k>>, len |-> len]
    IN  CASE item.is = "text" -> <<[shows |-> <<"raw", NoText, Position(src, i)>>, len |-> item.len]>>
          [] item.is # "text" /\ cmd \in {"var", "toupper", "tolower"} -> <<Shown(0, model[item.arg])>>
          [] cmd = "time"  -> <<Shown(0, 5)>>
          [] cmd = "date"  -> <<Shown(0, 10)>>
          [] cmd = "debug" -> <<Shown(1, 16), Shown(2, 1), Shown(3, 4),
                                Shown(4, model[item.arg]), Shown(5, 1)>>

\* Pieces of no length do not show.
Visible(pieces) ==
    FlattenSeq([i \in DOMAIN pieces |-> IF pieces[i].len > 0 THEN <<pieces[i]>> ELSE <<>>])

\* What pieces show, whoever owns the bytes.
Bare(pieces) == [k \in DOMAIN pieces |-> [shows |-> pieces[k].shows, len |-> pieces[k].len]]

Rendered(src, model) ==
    Visible(FlattenSeq([i \in DOMAIN src |-> RenderedItem(src, i, model)]))
=============================================================================

------------------------------ MODULE HttpBody ------------------------------
(***************************************************************************)
(* What a body of a request or a response gives to those who read it in    *)
(* pieces: the text of a string, a part of a file, a form with a file in   *)
(* it.  A piece is known by its place and its size.                        *)
(***************************************************************************)
EXTENDS Integers

Smaller(a, b) == IF a < b THEN a ELSE b

NoPiece == [from |-> 0, size |-> 0]

---------------------------------------------------------------------------
(* HttpStringBody and HttpFileBody: from an offset up to an end. *)

Whole(size) == [_file_offset |-> 0, _read_to |-> size]

RemainSize(body) == body._read_to - body._file_offset

ReadSize(body, size) == Smaller(RemainSize(body), size)

Piece(body, size) ==
  IF ReadSize(body, size) = 0 THEN NoPiece
  ELSE [from |-> body._file_offset, size |-> ReadSize(body, size)]

(* The text, or the file as it is mapped. *)
ReadMapped(body, size) == [body EXCEPT !._file_offset = @ + ReadSize(body, size)]

(* fread gives what the file has, if that is less; and when it gives       *)
(* nothing the body is at its end.                                         *)
ReadFile(body, size, has) ==
  LET left == IF has > body._file_offset THEN has - body._file_offset ELSE 0
      got  == Smaller(ReadSize(body, size), left)
  IN IF ReadSize(body, size) = 0 THEN body
     ELSE [body EXCEPT !._file_offset = IF got > 0 THEN @ + got ELSE body._read_to]

SetRange(offset, max_size) == [_file_offset |-> offset, _read_to |-> max_size + offset]

(* responseFile: what stands on either side of the range's dash is 0 when  *)
(* it is not a number, and an end of 0 is the end of the file.             *)
LastByte(last, size) == IF last = 0 THEN size - 1 ELSE last

Ranged(first, last, size) == SetRange(first, LastByte(last, size) - first + 1)

ContentRange(first, last, size) ==
  [first |-> first, last |-> LastByte(last, size), size |-> size]

---------------------------------------------------------------------------
(* HttpMultiFormBody: a prefix, the file, a suffix. *)

Form(prefix, size, suffix) ==
  [_bodyPrefix |-> prefix, file |-> Whole(size), _bodySuffix |-> suffix,
   _offset |-> 0, _totalSize |-> prefix + suffix + size]

FormRemain(form) == form._totalSize - form._offset

(* The prefix and the suffix are read in one piece each, whatever size is  *)
(* asked for; a file that gives nothing ends the form.                     *)
ReadForm(form, size, has) ==
  LET read == ReadFile(form.file, size, has)
      got  == ReadSize(form.file, size) # 0 /\ has > form.file._file_offset
  IN CASE form._bodyPrefix > 0 ->
            [form EXCEPT !._offset = form._offset + form._bodyPrefix, !._bodyPrefix = 0]
       [] form._bodyPrefix = 0 /\ RemainSize(form.file) # 0 /\ got ->
            [form EXCEPT !.file = read,
                         !._offset = form._offset + read._file_offset - form.file._file_offset]
       [] form._bodyPrefix = 0 /\ RemainSize(form.file) # 0 /\ ~got ->
            [form EXCEPT !.file = read, !._offset = form._totalSize]
       [] form._bodyPrefix = 0 /\ RemainSize(form.file) = 0 /\ form._bodySuffix > 0 ->
            [form EXCEPT !._offset = form._totalSize, !._bodySuffix = 0]
       [] OTHER -> form

---------------------------------------------------------------------------
(* HttpBufferBody gives its buffer as it is, once. *)

ReadBuffer(buffer) == [piece |-> [from |-> 0, size |-> buffer], buffer |-> 0]
=============================================================================

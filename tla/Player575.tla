----------------------------- MODULE Player575 -----------------------------
(***************************************************************************)
(* A character movie on its way from the server to the screen: encode adds *)
(* one to every character, a connection carries it, and player575 (31      *)
(* bytes of code) takes one off again.                                     *)
(*                                                                         *)
(* Characters are counted modulo Size (256).  The player uses one register *)
(* for the result of read, the number of the next system call and its file *)
(* descriptor: 1 happens to be both write and standard output.             *)
(***************************************************************************)
EXTENDS Integers, Sequences

CONSTANTS
    Size,        \* the number of characters
    Room,        \* how much the connection holds
    MaxMovie     \* bound on the length of the movie

ASSUME PlayerAssumption == Size \in Nat \ {0} /\ Room \in Nat \ {0} /\ MaxMovie \in Nat

Char == 0..(Size - 1)
Gone == -1   \* what a failed write puts on the screen

VARIABLES
    encPc,     \* "off", "run" or "end"
    movie,     \* history: the characters that encode has sent
    wire,      \* what the connection holds
    playPc,    \* "read", "decode", "badcall", "write" or "trap"
    msg,       \* the player's one byte of data
    screen     \* what each write has put on the screen, a character or Gone

playerVars == <<encPc, movie, wire, playPc, msg, screen>>

PlayerInit ==
    /\ encPc = "off" /\ movie = <<>> /\ wire = <<>>
    /\ playPc = "read" /\ msg = 0 /\ screen = <<>>

PlayerStart ==
    /\ encPc = "off"
    /\ encPc' = "run"
    /\ UNCHANGED <<movie, wire, playPc, msg, screen>>

(* Faulty variant: the sum is cut off at the last character. *)
EncodedSaturated(a) == IF a + 1 < Size THEN a + 1 ELSE a

(* putchar(++a) writes an unsigned char *)
Encoded(a) == (a + 1) % Size

(* (a=getchar()) > 0; putchar blocks while the connection is full *)
Encode ==
    /\ encPc = "run" /\ Len(movie) < MaxMovie /\ Len(wire) < Room
    /\ \E a \in Char \ {0} : /\ movie' = Append(movie, a)
                             /\ wire' = Append(wire, Encoded(a))
    /\ UNCHANGED <<encPc, playPc, msg, screen>>

(* EOF, or a character 0 in the movie, ends encode and closes the connection *)
EncodeEnd ==
    /\ encPc = "run"
    /\ encPc' = "end"
    /\ UNCHANGED <<movie, wire, playPc, msg, screen>>

-----------------------------------------------------------------------------
(* read(0, msg, 1) returns 1; al is not zero *)
Read ==
    /\ encPc # "off" /\ playPc = "read" /\ wire # <<>>
    /\ msg' = Head(wire) /\ wire' = Tail(wire)
    /\ playPc' = "decode"
    /\ UNCHANGED <<encPc, movie, screen>>

(* It returns -errno: al is not zero either, so the player goes on. *)
ReadError ==
    /\ encPc # "off" /\ playPc = "read"
    /\ playPc' = "badcall"
    /\ UNCHANGED <<encPc, movie, wire, msg, screen>>

(* Faulty variant: the result 0 is not tested. *)
ReadEofIgnored ==
    /\ encPc = "end" /\ playPc = "read" /\ wire = <<>>
    /\ playPc' = "badcall"
    /\ UNCHANGED <<encPc, movie, wire, msg, screen>>

(* It returns 0 at the end of the movie: jz exit, int3 *)
ReadEof ==
    /\ encPc = "end" /\ playPc = "read" /\ wire = <<>>
    /\ playPc' = "trap"
    /\ UNCHANGED <<encPc, movie, wire, msg, screen>>

(* decb (%esi) *)
Decode ==
    /\ playPc = "decode"
    /\ msg' = (msg + Size - 1) % Size
    /\ playPc' = "write"
    /\ UNCHANGED <<encPc, movie, wire, screen>>

(* decb, and then system call number -errno, which there is none *)
BadCall ==
    /\ playPc = "badcall"
    /\ msg' = (msg + Size - 1) % Size
    /\ playPc' = "read"
    /\ UNCHANGED <<encPc, movie, wire, screen>>

(* write(1, msg, 1) succeeds ... *)
Write ==
    /\ playPc = "write"
    /\ screen' = Append(screen, msg)
    /\ playPc' = "read"
    /\ UNCHANGED <<encPc, movie, wire, msg>>

(* ... or fails: nothing looks at its result, and the character is lost. *)
WriteError ==
    /\ playPc = "write"
    /\ screen' = Append(screen, Gone)
    /\ playPc' = "read"
    /\ UNCHANGED <<encPc, movie, wire, msg>>

Play == Read \/ ReadEof \/ Decode \/ BadCall \/ Write

PlayerNext == PlayerStart \/ Encode \/ EncodeEnd \/ Play \/ ReadError \/ WriteError

(* The player never waits by itself: the kernel runs it.  And read does    *)
(* not fail for ever: the player's loop does not end while it does.        *)
PlayerFairness == WF_playerVars(Play) /\ SF_playerVars(Read \/ ReadEof)

PlayerSpec == PlayerInit /\ [][PlayerNext]_playerVars /\ PlayerFairness

-----------------------------------------------------------------------------
PlayerTypeOK ==
    /\ encPc \in {"off", "run", "end"}
    /\ playPc \in {"read", "decode", "badcall", "write", "trap"}
    /\ movie \in Seq(Char) /\ Len(movie) <= MaxMovie
    /\ wire \in Seq(Char) /\ Len(wire) <= Room
    /\ msg \in Char /\ screen \in Seq(Char \union {Gone})

Decoded(s) == [k \in 1..Len(s) |-> (s[k] + Size - 1) % Size]

(* Every character of a sequence is that of the movie, or was lost in a     *)
(* write that failed.                                                      *)
Shows(s) ==
    /\ Len(s) = Len(movie)
    /\ \A k \in 1..Len(movie) : s[k] \in {movie[k], Gone}

(* What is on the screen, in the player's byte and on the wire is the      *)
(* movie: characters above 254 come back over the wrap-around, a failed    *)
(* read neither loses nor repeats one, and a failed write loses one and no *)
(* other.                                                                  *)
NothingLost ==
    LET pending == CASE playPc = "decode" -> Decoded(<<msg>>)
                     [] playPc = "write" -> <<msg>>
                     [] OTHER -> <<>>
    IN  Shows(screen \o pending \o Decoded(wire))

(* Once the movie is over, and read does not fail for ever, it has been    *)
(* shown to its end and the player has left its loop.                      *)
MovieShown == encPc = "end" ~> (playPc = "trap" /\ Shows(screen))
=============================================================================

----------------------------- MODULE KernelLog -----------------------------
(***************************************************************************)
(* The kernel's messages: format() with its escapes and flags, itoa, the   *)
(* Logger with its three outputs, and the CircularStringBuffer it writes   *)
(* its log file to.                                                        *)
(*                                                                         *)
(* A text is a sequence of characters.  A message is what its author means *)
(* to say, a sequence of texts, strings and numbers with their bases; its  *)
(* format string is written the way the kernel's sources write it.         *)
(***************************************************************************)
EXTENDS Integers, SequencesExt

CONSTANTS
    Messages,     \* what is logged: <<text, value, text, value, ..., text>>
    Times,        \* values of the clock
    BufferSize,   \* Logger::BufferSize
    MaxFiled      \* bound: texts written to the log file

VARIABLES
    logger,   \* m_output, whether m_console is set, whether it was looked for
    buffer,   \* the m_head characters in m_buffer
    filed,    \* history: the texts written to the log file, as they are meant
    shown,    \* what the last call has put on the console or on SBI
    meant     \* what it was to show

klog == <<logger, buffer, filed, shown, meant>>

-----------------------------------------------------------------------------
(* itoa: digits from the lowest up, then reversed. *)
DigitChars == <<"0", "1", "2", "3", "4", "5", "6", "7", "8", "9",
                "a", "b", "c", "d", "e", "f">>

RECURSIVE LowDigits(_, _)
LowDigits(n, base) ==
    <<DigitChars[(n % base) + 1]>>
    \o (IF n \div base = 0 THEN <<>> ELSE LowDigits(n \div base, base))

Itoa(n, base) == Reverse(LowDigits(n, base))

(* to_string of a number with flags, and of a string. *)
IsNumber(v) == "number" \in DOMAIN v

BaseOf(flags) == CASE flags = <<"1", "6">> -> 16 [] flags = <<"2">> -> 2 [] OTHER -> 10

Stringified(v, flags) == IF IsNumber(v) THEN Itoa(v.number, BaseOf(flags)) ELSE v.text

(* process(): the state is that of FormatterContext.  The values run out   *)
(* with the last one printed; what is left of the format is then copied.   *)
Context(fmt) == [escaped |-> FALSE, open |-> FALSE, flags |-> <<>>, result |-> <<>>, format |-> fmt]

Read(c) == [c EXCEPT !.format = Tail(@)]

RECURSIVE Process(_, _)
Process(c, args) ==
    IF args = <<>> THEN c.result \o c.format
    ELSE IF c.format = <<>> THEN c.result
    ELSE LET ch == Head(c.format) IN
         IF ch = "{" /\ ~c.escaped THEN Process(Read([c EXCEPT !.open = TRUE]), args)
         ELSE IF ch = "}" /\ ~c.escaped /\ c.open
         THEN Process(Read([c EXCEPT !.open = FALSE,
                                     !.result = @ \o Stringified(Head(args), c.flags),
                                     !.flags = IF IsNumber(Head(args)) THEN <<>> ELSE @]),
                      Tail(args))
         ELSE IF ch = "\\"
         THEN Process(Read(IF c.escaped
                           THEN [c EXCEPT !.escaped = FALSE, !.result = Append(@, ch)]
                           ELSE [c EXCEPT !.escaped = TRUE]), args)
         ELSE Process(Read(IF c.open
                           THEN [c EXCEPT !.escaped = FALSE, !.flags = Append(@, ch)]
                           ELSE [c EXCEPT !.escaped = FALSE, !.result = Append(@, ch)]), args)

Format(fmt, args) == Process(Context(fmt), args)

-----------------------------------------------------------------------------
(* How the sources write a message: before the last value a brace that     *)
(* opens and a backslash are escaped, behind it nothing is; the flags give *)
(* a number's base.                                                        *)
Escaped(t) ==
    FlattenSeq([i \in 1..Len(t) |-> IF t[i] \in {"{", "\\"} THEN <<"\\", t[i]>> ELSE <<t[i]>>])

Braces(v) ==
    <<"{">> \o (CASE ~IsNumber(v) \/ v.base = 10 -> <<>>
                  [] v.base = 16 -> <<"1", "6">>
                  [] v.base = 2 -> <<"2">>) \o <<"}">>

Odd(i) == i % 2 = 1
FormatOf(msg) ==
    FlattenSeq([i \in 1..Len(msg) |->
        IF Odd(i) THEN IF i = Len(msg) THEN msg[i] ELSE Escaped(msg[i]) ELSE Braces(msg[i])])
ArgsOf(msg) == [i \in 1..((Len(msg) - 1) \div 2) |-> msg[2 * i]]

(* What a message means: its texts and its values, a number as the digits  *)
(* of the positional system.                                               *)
Width(n, base) == CHOOSE k \in 1..64 : base ^ k > n /\ (k = 1 \/ base ^ (k - 1) <= n)
Numeral(n, base) ==
    [i \in 1..Width(n, base) |-> DigitChars[((n \div base ^ (Width(n, base) - i)) % base) + 1]]
Said(v) == IF IsNumber(v) THEN Numeral(v.number, v.base) ELSE v.text
Meaning(msg) == FlattenSeq([i \in 1..Len(msg) |-> IF Odd(i) THEN msg[i] ELSE Said(msg[i])])

Stamped(t, text) == <<"[">> \o Numeral(t, 10) \o <<"]", " ">> \o text

(* The bound on messages: with its time each is shorter than the buffer,   *)
(* which write() does not test.                                            *)
ASSUME KernelLogAssumption ==
    /\ MaxFiled \in Nat
    /\ \A m \in Messages, t \in Times : Len(Stamped(t, Meaning(m))) < BufferSize

-----------------------------------------------------------------------------
WrittenTail(b, text) ==                                             \* mutant
    LET all == b \o text
    IN IF Len(all) < BufferSize THEN all ELSE SubSeq(all, Len(all) - BufferSize + 2, Len(all))

(* CircularStringBuffer::write: flush() throws away what was there. *)
Written(b, text) == IF Len(b) + Len(text) >= BufferSize THEN text ELSE b \o text

Shows(text, meaning) == shown' = text /\ meant' = meaning /\ UNCHANGED <<buffer, filed>>
Silent == shown' = <<>> /\ meant' = <<>>

(* Logger::log, after format(): to SBI, to the console if there is one, or *)
(* to the log file with the time before it.                                *)
LogFile(text, meaning) ==
    /\ Len(filed) < MaxFiled
    /\ buffer' = Written(buffer, text)
    /\ filed' = Append(filed, meaning)
    /\ Silent

Log(msg) ==
    LET text == Format(FormatOf(msg), ArgsOf(msg)) IN
    /\ \/ logger.output = "SBI" /\ Shows(text, Meaning(msg))
       \/ logger.output = "Console" /\ logger.console /\ Shows(text, Meaning(msg))
       \/ /\ logger.output = "LogFile"
          /\ \E t \in Times :
               LogFile(Format(<<"[", "{", "}", "]", " ", "{", "}">>,
                              <<[number |-> t, base |-> 10], [text |-> text]>>),
                       Stamped(t, Meaning(msg)))
    /\ UNCHANGED logger

(* logln ends the line with a text that has no time. *)
EndLine ==
    /\ \/ logger.output # "LogFile" /\ Shows(<<"\n">>, <<"\n">>)
       \/ logger.output = "LogFile" /\ LogFile(<<"\n">>, <<"\n">>)
    /\ UNCHANGED logger

(* log_to_console and print_logfile turn the output for one call; without  *)
(* a console they show nothing.                                            *)
LogToConsole(msg) ==
    /\ logger.console
    /\ Shows(Format(FormatOf(msg), ArgsOf(msg)), Meaning(msg))
    /\ UNCHANGED logger

PrintLogfile ==
    /\ logger.console
    /\ Shows(buffer, buffer)
    /\ UNCHANGED logger

(* kmain looks for the console, and turns the messages to the log file     *)
(* whether it has found one or not.                                        *)
TryConsoleLookup ==
    /\ ~logger.looked
    /\ \/ logger' = [output |-> "Console", console |-> TRUE, looked |-> TRUE]
       \/ logger' = [logger EXCEPT !.looked = TRUE]
    /\ Silent /\ UNCHANGED <<buffer, filed>>

SwitchToLogfile ==
    /\ logger.looked
    /\ logger' = [logger EXCEPT !.output = "LogFile"]
    /\ Silent /\ UNCHANGED <<buffer, filed>>

(* kernel_panic turns them to SBI. *)
SwitchToSbi ==
    /\ logger' = [logger EXCEPT !.output = "SBI"]
    /\ Silent /\ UNCHANGED <<buffer, filed>>

LogInit ==
    /\ logger = [output |-> "SBI", console |-> FALSE, looked |-> FALSE]
    /\ buffer = <<>> /\ filed = <<>> /\ shown = <<>> /\ meant = <<>>

LogNext ==
    \/ \E msg \in Messages : Log(msg) \/ LogToConsole(msg)
    \/ EndLine \/ PrintLogfile \/ TryConsoleLookup \/ SwitchToLogfile \/ SwitchToSbi

-----------------------------------------------------------------------------
(* What the user sees is what the message's author wrote, braces, bases    *)
(* and backslashes included; and the log file, whenever dmesg prints it,   *)
(* holds the last texts that were logged, in order and none of them cut,   *)
(* the very last one among them, within its block of memory.               *)
LogFaithful ==
    /\ shown = meant
    /\ Len(buffer) < BufferSize
    /\ \E k \in 0..Len(filed) :
         /\ buffer = FlattenSeq(SubSeq(filed, k + 1, Len(filed)))
         /\ filed # <<>> => k < Len(filed)

=============================================================================

SPECIFICATION Spec
CONSTANTS
    N = 2
    Records = {r1, r2}
    Params = {a, b}
    Passwords = {x}
    Zero = Zero
    Begin = Begin
    End = End
    Garbage = Garbage
    Torn = Torn
    None = None
INVARIANTS TypeOK ParamsOfLastWrite
PROPERTIES OutputsComeBack

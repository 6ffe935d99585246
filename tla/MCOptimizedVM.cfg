SPECIFICATION Spec
CONSTANTS
    Openings = {"x = x + 1", "x = x + 2", "q = x + 1", "x = x + 40000", "q = x + y",
        "y = y + i; pop", "x = y; pop", "y = i * i + y; pop", "y = y + i * i; pop",
        "y = x * 2 - y", "far = x", "swap a and b", "a.g = x", "try fail(s)", "match y",
        "x = s", "fail(s)", "x.f = x.f; x.get()", "q = a.f", "show(a.get())",
        "y = add(x, y)", "y = i + count()", "if i > 1: x = s"}
    Fragments = {"x = x + 1", "q = x + 1", "q = y; pop", "y = y + i; pop",
        "y = x * 2 - y", "swap a and b", "a.g = x", "q = a.f", "show(a.get())",
        "y = add(x, y)", "y = i + count()", "while y < 3: y = y + 1", "try fail(s)",
        "x = s", "if i > 1: x = s", "x.f = x.f; x.get()", "q = true", "x = x + 2",
        "x = y; pop", "x = x + 40000", "i >= 1, i <= 1, i == 1"}
    Repetitions = 4
    WarmupLimit = 2
    MaxImmediate = 6
    Chunks <- MCChunks
INVARIANTS FramesHoldSlots CachesAgree
PROPERTIES StepsAsCanonical Terminates
